----------------------------- MODULE TokenRefresh -----------------------------
(***************************************************************************)
(* The OAuth tokens of one character (apps/sso): refreshed under a row     *)
(* lock by whichever worker needs them, minted by logins, superseded by    *)
(* newer ones, erased when the pilot disconnects, unlinks or is detached.  *)
(*                                                                         *)
(* A process is a web or Celery worker serving one request.  A step is one *)
(* statement against the database or one call of the issuer; the refresh   *)
(* holds the row lock from its SELECT ... FOR UPDATE to its commit, and    *)
(* what it saves before the commit is its draft.  A refresh secret is its  *)
(* generation: the issuer honours the newest one of a grant only.          *)
(***************************************************************************)
EXTENDS Integers, FiniteSets

CONSTANTS
    Token,      \* primary keys of AuthToken, handed out in increasing order
    Grants,     \* the sets of scopes logins ask for
    Proc,       \* workers
    Serves,     \* bound: the workers that serve a request or meet an event
    MaxGen,     \* bound: rotations of a grant
    MaxRejects, \* bound: rejected refreshes of a token
    Nobody      \* no worker

Request == {"login", "sweep", "refresh", "disconnect", "unlink", "detach", "pilot", "death"}

ASSUME TokenAssumption == IsFiniteSet(Token) /\ Token # {} /\ Token = 1..Cardinality(Token)
ASSUME WorkerAssumption == Serves \in [Request -> SUBSET Proc] /\ Nobody \notin Proc
ASSUME BoundAssumption == MaxGen \in Nat /\ MaxRejects \in Nat

Scope == UNION Grants

VARIABLES
    row,        \* AuthToken rows
    linked,     \* the character belongs to an account
    issuer,     \* the generation the issuer honours, by grant
    lock,       \* which worker's transaction holds the row lock
    pc, on,     \* a worker's step and the token it works on
    draft,      \* the row as a worker's open transaction has saved it
    todo,       \* tokens a worker has listed, with what it read of them
    tasks,      \* revoke_tokens_at_ccp: secrets waiting to be dropped
    lost,       \* history: grants whose newest secret died with a worker or a reply
    rejects,    \* history: refreshes of a token the issuer answered 400
    superseded  \* history: tokens revoked because a newer one covered them

store == <<row, linked>>
worker == <<pc, on, draft, todo>>
history == <<lost, rejects, superseded>>
vars == <<row, linked, issuer, lock, pc, on, draft, todo, tasks,
          lost, rejects, superseded>>

Wiped == -1     \* the empty string in place of a secret
Dead == -2      \* a grant the issuer has ended
Threshold == 3  \* rejected refreshes after which a token is revoked

Secret == 0..MaxGen
TokenRow == [live : BOOLEAN, secret : Secret \cup {Wiped}, access : {"fresh", "stale", "none"},
             fails : 0..Threshold, scopes : SUBSET Scope]
Unminted == [live |-> FALSE, secret |-> Wiped, access |-> "none", fails |-> 0, scopes |-> {}]
Minted(ss) == [live |-> TRUE, secret |-> 0, access |-> "fresh", fails |-> 0, scopes |-> ss]
Erased(r) == [r EXCEPT !.live = FALSE, !.secret = Wiped, !.access = "none"]
Rejected(r) == [r EXCEPT !.fails = @ + 1, !.live = @ /\ r.fails + 1 < Threshold]
Refreshed(r, g) == [r EXCEPT !.secret = g, !.access = "fresh", !.fails = 0]

Step == {"idle", "minting", "listing", "pruning", "locking", "asking", "committing",
         "rolling", "revoking", "erasing", "severing", "queueing"}

\* Grants that were minted; the next key to be handed out.
Known == {t \in Token : issuer[t] # Wiped}
NextKey == Cardinality(Known) + 1
Live == {t \in Token : row[t].live}
Covers(u, t) == row[t].scopes \subseteq row[u].scopes

\* Mutant: statements do not wait.
FreeAlways(ts) == TRUE
\* A statement waits for the row locks of what it writes.
Free(ts) == \A t \in ts : lock[t] = Nobody
Holds(p, t) == lock[t] = p
Goto(p, step) == pc' = [pc EXCEPT ![p] = step]
Release(p) == lock' = [t \in Token |-> IF lock[t] = p THEN Nobody ELSE lock[t]]
SameWork == UNCHANGED <<on, draft, todo>>
\* A request that ends leaves nothing in the worker's memory.
Done(p) ==
    /\ Goto(p, "idle")
    /\ on' = [on EXCEPT ![p] = 1]
    /\ draft' = [draft EXCEPT ![p] = Unminted]
    /\ todo' = [todo EXCEPT ![p] = {}]

Init ==
    /\ row = [t \in Token |-> Unminted]
    /\ linked = FALSE
    /\ issuer = [t \in Token |-> Wiped]
    /\ lock = [t \in Token |-> Nobody]
    /\ pc = [p \in Proc |-> "idle"]
    /\ on = [p \in Proc |-> 1]
    /\ draft = [p \in Proc |-> Unminted]
    /\ todo = [p \in Proc |-> {}]
    /\ tasks = {}
    /\ lost = {} /\ superseded = {}
    /\ rejects = [t \in Token |-> 0]

-----------------------------------------------------------------------------
(* Logins: store_token and the daily sweep                                 *)

\* upsert_character: the login binds the character to the account.
LinkCharacter(p) ==
    /\ pc[p] = "idle" /\ p \in Serves["login"]
    /\ linked' = TRUE
    /\ Goto(p, "minting")
    /\ SameWork /\ UNCHANGED <<row, issuer, lock, tasks, history>>

\* store_token: the new token, with the scopes the pilot granted.
MintToken(p, ss) ==
    /\ pc[p] = "minting" /\ NextKey \in Token
    /\ row' = [row EXCEPT ![NextKey] = Minted(ss)]
    /\ issuer' = [issuer EXCEPT ![NextKey] = 0]
    /\ on' = [on EXCEPT ![p] = NextKey]
    /\ Goto(p, "listing")
    /\ UNCHANGED <<linked, lock, draft, todo, tasks, history>>

\* Of the listed tokens, those another listed one covers: the wider, or the
\* newer of two with the same scopes, stays.
SweepDrops(ts) ==
    {t \in ts : \E u \in ts : Covers(u, t) /\ (Covers(t, u) => u > t)}

\* store_token reads the other live tokens and will drop those it covers.
ListOthers(p) ==
    /\ pc[p] = "listing"
    /\ todo' = [todo EXCEPT ![p] = {t \in Live \ {on[p]} : Covers(on[p], t)}]
    /\ on' = [on EXCEPT ![p] = 1]
    /\ Goto(p, "pruning")
    /\ UNCHANGED <<store, issuer, lock, draft, tasks, history>>

\* prune_superseded_tokens reads the live tokens of a character.
SweepTokens(p) ==
    /\ pc[p] = "idle" /\ p \in Serves["sweep"]
    /\ SweepDrops(Live) # {}
    /\ todo' = [todo EXCEPT ![p] = SweepDrops(Live)]
    /\ Goto(p, "pruning")
    /\ UNCHANGED <<store, issuer, lock, on, draft, tasks, history>>

\* One save of either loop: the stamp and the empty ciphertexts.
PruneToken(p, t) ==
    /\ pc[p] = "pruning" /\ t \in todo[p] /\ Free({t})
    /\ row' = [row EXCEPT ![t] = Erased(@)]
    /\ todo' = [todo EXCEPT ![p] = @ \ {t}]
    /\ superseded' = IF row[t].live THEN superseded \cup {t} ELSE superseded
    /\ UNCHANGED <<linked, issuer, lock, pc, on, draft, tasks, lost, rejects>>

PruneDone(p) ==
    /\ pc[p] = "pruning" /\ todo[p] = {}
    /\ Done(p)
    /\ UNCHANGED <<store, issuer, lock, tasks, history>>
-----------------------------------------------------------------------------
(* access_token_for: refresh under the row lock                            *)

\* The caller holds a live token whose access token has expired.  It waits
\* for the row and reads it again.
SelectToken(p, t) ==
    /\ pc[p] = "idle" /\ p \in Serves["refresh"]
    /\ row[t].live /\ row[t].secret # Wiped /\ row[t].access # "fresh"
    /\ on' = [on EXCEPT ![p] = t]
    /\ draft' = [draft EXCEPT ![p] = row[t]]
    /\ Goto(p, "locking")
    /\ UNCHANGED <<store, issuer, lock, todo, tasks, history>>

\* Mutant: the row the caller selected before the lock is used under it.
ReadAsSelected(p) == draft[p]
\* SELECT ... FOR UPDATE reads the row as last committed.
ReadLocked(p) == row[on[p]]

LockToken(p) ==
    /\ pc[p] = "locking" /\ Free({on[p]})
    /\ IF row[on[p]].access = "fresh"
       THEN Done(p) /\ UNCHANGED lock
       ELSE /\ Goto(p, "asking")
            /\ lock' = [lock EXCEPT ![on[p]] = p]
            /\ draft' = [draft EXCEPT ![p] = ReadLocked(p)]
            /\ UNCHANGED <<on, todo>>
    /\ UNCHANGED <<store, issuer, tasks, history>>

Honoured(p) == draft[p].secret = issuer[on[p]]

\* The issuer answers; it may send a new refresh secret, which ends the old.
IssuerAnswers(p, g) ==
    /\ pc[p] = "asking" /\ Honoured(p)
    /\ g \in {issuer[on[p]], issuer[on[p]] + 1} \cap Secret
    /\ issuer' = [issuer EXCEPT ![on[p]] = g]
    /\ draft' = [draft EXCEPT ![p] = Refreshed(@, g)]
    /\ Goto(p, "committing")
    /\ UNCHANGED <<store, lock, on, todo, tasks, history>>

\* A timeout or a 5xx: not counted.  The issuer may have acted all the same.
ReplyLost(p, g) ==
    /\ pc[p] = "asking"
    /\ IF Honoured(p) THEN g \in {issuer[on[p]], issuer[on[p]] + 1} \cap Secret
                      ELSE g = issuer[on[p]]
    /\ issuer' = [issuer EXCEPT ![on[p]] = g]
    /\ lost' = IF g # issuer[on[p]] THEN lost \cup {on[p]} ELSE lost
    /\ Release(p) /\ Done(p)
    /\ UNCHANGED <<store, tasks, rejects, superseded>>

\* A 400: the count is saved, NoValidToken is about to be raised.
IssuerRejects(p) ==
    /\ pc[p] = "asking" /\ ~Honoured(p)
    /\ rejects[on[p]] < MaxRejects
    /\ rejects' = [rejects EXCEPT ![on[p]] = @ + 1]
    /\ draft' = [draft EXCEPT ![p] = Rejected(@)]
    /\ Goto(p, "rolling")
    /\ UNCHANGED <<store, issuer, lock, on, todo, tasks, lost, superseded>>

\* The block ends normally: what was saved is committed.
CommitRefresh(p) ==
    /\ pc[p] = "committing"
    /\ row' = [row EXCEPT ![on[p]] = draft[p]]
    /\ Release(p) /\ Done(p)
    /\ UNCHANGED <<linked, issuer, tasks, history>>

\* NoValidToken leaves the block: what was saved is rolled back.
RollBack(p) ==
    /\ pc[p] = "rolling"
    /\ Release(p) /\ Done(p)
    /\ UNCHANGED <<store, issuer, tasks, history>>

ExpireAccess(t) ==
    /\ row[t].live /\ row[t].access = "fresh" /\ lock[t] = Nobody
    /\ row' = [row EXCEPT ![t].access = "stale"]
    /\ UNCHANGED <<linked, issuer, lock, worker, pc, tasks, history>>

-----------------------------------------------------------------------------
(* Severance: disconnect_view, unlink, detach_character                    *)

\* The secrets of the live tokens, as read before they are wiped.
Captured == {[token |-> t, secret |-> row[t].secret] : t \in {u \in Live : row[u].secret # Wiped}}

\* disconnect_view and unlink read the plaintexts first.
CaptureSecrets(p, op) ==
    /\ pc[p] = "idle" /\ linked /\ p \in Serves[op]
    /\ todo' = [todo EXCEPT ![p] = Captured]
    /\ Goto(p, IF op = "unlink" THEN "severing" ELSE "revoking")
    /\ UNCHANGED <<store, issuer, lock, on, draft, tasks, history>>

\* disconnect_view: UPDATE ... SET revoked_at on the live rows,
RevokeRows(p) ==
    /\ pc[p] = "revoking" /\ Free(Live)
    /\ row' = [t \in Token |-> [row[t] EXCEPT !.live = FALSE]]
    /\ Goto(p, "erasing")
    /\ SameWork /\ UNCHANGED <<linked, issuer, lock, tasks, history>>

\* then the ciphertext of every row.
EraseRows(p) ==
    /\ pc[p] = "erasing" /\ Free(Known)
    /\ row' = [t \in Token |-> [row[t] EXCEPT !.secret = Wiped, !.access = "none"]]
    /\ Goto(p, "queueing")
    /\ SameWork /\ UNCHANGED <<linked, issuer, lock, tasks, history>>

ErasedRows == [t \in Token |-> IF t \in Known THEN Erased(row[t]) ELSE row[t]]

\* unlink does both and detaches the character in one transaction,
UnlinkCharacter(p) ==
    /\ pc[p] = "severing" /\ linked /\ Free(Known)
    /\ row' = ErasedRows
    /\ linked' = FALSE
    /\ Goto(p, "queueing")
    /\ SameWork /\ UNCHANGED <<issuer, lock, tasks, history>>

\* or returns because another request has detached it.
AlreadyUnlinked(p) ==
    /\ pc[p] = "severing" /\ ~linked
    /\ Done(p)
    /\ UNCHANGED <<store, issuer, lock, tasks, history>>

\* detach_character: one UPDATE of the live rows, nothing sent to the issuer.
DetachCharacter(p) ==
    /\ pc[p] = "idle" /\ p \in Serves["detach"] /\ linked /\ Free(Live)
    /\ row' = [t \in Token |-> IF row[t].live THEN Erased(row[t]) ELSE row[t]]
    /\ linked' = FALSE
    /\ SameWork /\ UNCHANGED <<issuer, lock, pc, tasks, history>>

\* revoke_tokens_at_ccp.delay, after the rows are erased.
QueueRevocation(p) ==
    /\ pc[p] = "queueing"
    /\ tasks' = tasks \cup todo[p]
    /\ Done(p)
    /\ UNCHANGED <<store, issuer, lock, history>>

\* The task: best effort, the issuer ends the grant whose secret it is sent.
RevokeAtIssuer(e, reached) ==
    /\ e \in tasks /\ tasks' = tasks \ {e}
    /\ issuer' = IF reached /\ issuer[e.token] = e.secret
                 THEN [issuer EXCEPT ![e.token] = Dead] ELSE issuer
    /\ UNCHANGED <<store, lock, worker, pc, history>>

-----------------------------------------------------------------------------
(* The pilot at the issuer's site, and deaths of workers                   *)

\* The pilot withdraws the grant on the issuer's site (of no interest once the
\* row is revoked: its secret is not presented again).
PilotRevokes(t) ==
    /\ issuer[t] \in Secret /\ row[t].live /\ Serves["pilot"] # {}
    /\ issuer' = [issuer EXCEPT ![t] = Dead]
    /\ UNCHANGED <<store, lock, worker, pc, tasks, history>>

\* A worker dies: its transaction is rolled back, its memory is gone.
WorkerDies(p) ==
    /\ pc[p] # "idle" /\ p \in Serves["death"]
    /\ lost' = IF pc[p] = "committing" /\ row[on[p]].secret # issuer[on[p]]
               THEN lost \cup {on[p]} ELSE lost
    /\ Release(p) /\ Done(p)
    /\ UNCHANGED <<store, issuer, tasks, rejects, superseded>>

LoginStep(p) ==
    \/ LinkCharacter(p) \/ ListOthers(p) \/ SweepTokens(p) \/ PruneDone(p)
    \/ \E ss \in Grants : MintToken(p, ss)
    \/ \E t \in Token : PruneToken(p, t)
RefreshStep(p) ==
    \/ \E t \in Token : SelectToken(p, t)
    \/ LockToken(p) \/ IssuerRejects(p) \/ CommitRefresh(p) \/ RollBack(p)
    \/ \E g \in Secret \cup {Dead} : IssuerAnswers(p, g) \/ ReplyLost(p, g)
SeverStep(p) ==
    \/ \E op \in {"disconnect", "unlink"} : CaptureSecrets(p, op)
    \/ RevokeRows(p) \/ EraseRows(p) \/ UnlinkCharacter(p) \/ AlreadyUnlinked(p)
    \/ DetachCharacter(p) \/ QueueRevocation(p)
Surroundings ==
    \/ \E t \in Token : ExpireAccess(t) \/ PilotRevokes(t)
    \/ \E e \in tasks, reached \in BOOLEAN : RevokeAtIssuer(e, reached)

Next == \/ \E p \in Proc : LoginStep(p) \/ RefreshStep(p) \/ SeverStep(p) \/ WorkerDies(p)
        \/ Surroundings
Spec == Init /\ [][Next]_vars

-----------------------------------------------------------------------------
(* Properties                                                              *)

\* Two workers refreshing one token never lose its rotated secret (the reason
\* access_token_for takes the row lock): a live token holds the secret the
\* issuer honours, unless a worker is about to commit the newer one, the
\* issuer has ended the grant, or a death or a lost reply took the secret.
\* (A token minted between the two updates of a disconnect is live and wiped.)
SecretCurrent ==
    \A t \in Live :
        \/ row[t].secret \in {issuer[t], Wiped}
        \/ issuer[t] = Dead \/ t \in lost
        \/ \E p \in Proc : Holds(p, t) /\ pc[p] = "committing" /\ draft[p].secret = issuer[t]

\* What a disconnect, an unlink, a detach or a prune has erased stays erased,
\* whatever refresh was under way: a token once revoked never returns, a
\* secret once wiped is never written again.
ErasedStaysErased ==
    [][\A t \in Known : /\ row'[t].live => row[t].live
                        /\ row[t].secret = Wiped => row'[t].secret = Wiped]_vars

\* "A token is revoked when ANOTHER live token for the same character covers
\* every scope it has" (prune_superseded_tokens, of itself and of store_token):
\* of two logins at once each drops the token the other relies on.
PrunedOnlyIfCovered ==
    [][\A t \in superseded' \ superseded :
           \E u \in Token \ {t} : row'[u].live /\ row'[t].scopes \subseteq row'[u].scopes]_vars

\* The third rejected refresh revokes a token ("count toward revocation").
ThirdRejectionRevokes == \A t \in Known : rejects[t] >= Threshold =>
    ~row[t].live \/ \E p \in Proc : Holds(p, t)
=============================================================================
