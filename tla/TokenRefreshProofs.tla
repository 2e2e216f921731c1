------------------------- MODULE TokenRefreshProofs -------------------------
(***************************************************************************)
(* Proofs about TokenRefresh for any number of tokens, workers, requests   *)
(* and rotations: a live token holds the secret the issuer honours, and    *)
(* what was erased stays erased.                                           *)
(*                                                                         *)
(* Both rest on the row lock.  Whoever asks the issuer or is about to      *)
(* commit holds the lock of its token (Refresher), holds no other (Locks), *)
(* and no other statement changes the secret or the life of a locked row;  *)
(* so the draft the transaction commits is still about the row it read.    *)
(* The issuer knows an initial segment of the keys (Keys), which makes a   *)
(* minted token a new one.                                                 *)
(***************************************************************************)
EXTENDS TokenRefresh, FiniteSetTheorems, TLAPS

Held == {"asking", "committing", "rolling"}
Severing == {"revoking", "erasing", "severing", "queueing"}
Row == [live : BOOLEAN, secret : Secret \cup {Wiped}, access : {"fresh", "stale", "none"},
        fails : Nat, scopes : SUBSET Scope]
Capture == [token : Token, secret : Secret]

Tables ==
    /\ row \in [Token -> Row] /\ issuer \in [Token -> Secret \cup {Wiped, Dead}]
    /\ lock \in [Token -> Proc \cup {Nobody}] /\ lost \subseteq Token
    /\ pc \in [Proc -> Step] /\ on \in [Proc -> Token] /\ draft \in [Proc -> Row]
    /\ todo \in [Proc -> SUBSET (Token \cup Capture)] /\ tasks \subseteq Capture

\* Keys are handed out in order; a key not handed out names an empty row.
Keys ==
    /\ \E n \in Nat : Known = 1..n
    /\ \A t \in Token : issuer[t] = Wiped => ~row[t].live /\ row[t].secret = Wiped

\* What a worker listed to be revoked at the issuer are secrets.
Lists == \A p \in Proc : pc[p] \in Severing => todo[p] \subseteq Capture

\* A worker in the refresh, against the row it works on.
Refresher(p) ==
    /\ pc[p] \in Held \cup {"locking"} => issuer[on[p]] # Wiped
    /\ pc[p] \in Held => lock[on[p]] = p /\ (draft[p].live => row[on[p]].live)
    /\ pc[p] = "asking" => draft[p].secret = row[on[p]].secret
    /\ pc[p] = "committing" => /\ row[on[p]].secret # Wiped
                               /\ draft[p].secret = issuer[on[p]] \/ issuer[on[p]] = Dead

Locks == \A t \in Token, p \in Proc : lock[t] = p => on[p] = t /\ pc[p] \in Held

Current(t) ==
    row[t].live =>
        \/ row[t].secret \in {issuer[t], Wiped}
        \/ issuer[t] = Dead \/ t \in lost
        \/ \E p \in Proc : Holds(p, t) /\ pc[p] = "committing" /\ draft[p].secret = issuer[t]

Inv == /\ Tables /\ Keys /\ Lists /\ Locks
       /\ \A p \in Proc : Refresher(p)
       /\ \A t \in Token : Current(t)

\* What a step may do to the tokens there were.
Lasting ==
    \A t \in Known : /\ row'[t].live => row[t].live
                     /\ row[t].secret = Wiped => row'[t].secret = Wiped

-----------------------------------------------------------------------------
(* Frames                                                                  *)

LEMMA Numbers == Secret \subseteq Nat /\ Wiped = -1 /\ Dead = -2 /\ Threshold = 3
BY BoundAssumption DEF Secret, Wiped, Dead, Threshold

LEMMA EmptyRow == Unminted \in Row
BY DEF Unminted, Row

\* A worker and the row it holds are left alone; its grant may be ended.
Bystander(q) == pc'[q] = pc[q] /\ on'[q] = on[q] /\ draft'[q] = draft[q]

LEMMA BystanderKeeps ==
    ASSUME Inv, NEW q \in Proc, Bystander(q),
           \A t \in Token : lock[t] = q =>
               /\ lock'[t] = q /\ (row'[t].live <=> row[t].live)
               /\ row'[t].secret = row[t].secret /\ issuer'[t] \in {issuer[t], Dead},
           \A t \in Token : issuer[t] # Wiped => issuer'[t] # Wiped
    PROVE  Refresher(q)'
<1>1. on[q] \in Token /\ Refresher(q)
  BY DEF Inv, Tables
<1>2. pc[q] \in Held => lock[on[q]] = q
  BY <1>1 DEF Refresher
<1>3. "locking" \notin Held /\ "committing" \in Held /\ "asking" \in Held
  BY DEF Held
<1> QED BY <1>1, <1>2, <1>3 DEF Refresher, Bystander

\* A token of which nothing new is at stake.
LEMMA StillCurrent ==
    ASSUME NEW t \in Token, Current(t), row'[t].live => row[t].live,
           row'[t].secret \in {row[t].secret, Wiped}, issuer'[t] \in {issuer[t], Dead},
           t \in lost => t \in lost',
           \A q \in Proc : lock[t] = q /\ pc[q] = "committing" =>
               lock'[t] = q /\ pc'[q] = "committing" /\ draft'[q] = draft[q]
    PROVE  Current(t)'
<1> SUFFICES ASSUME row'[t].live
             PROVE  \/ row'[t].secret \in {issuer'[t], Wiped}
                    \/ issuer'[t] = Dead \/ t \in lost'
                    \/ \E p \in Proc : Holds(p, t)' /\ pc'[p] = "committing" /\ draft'[p].secret = issuer'[t]
  BY DEF Current
<1>1. CASE issuer'[t] = Dead \/ row'[t].secret = Wiped
  BY <1>1
<1>2. CASE issuer'[t] = issuer[t] /\ row'[t].secret = row[t].secret
  <2>1. \/ row[t].secret \in {issuer[t], Wiped} \/ issuer[t] = Dead \/ t \in lost
        \/ \E p \in Proc : Holds(p, t) /\ pc[p] = "committing" /\ draft[p].secret = issuer[t]
    BY DEF Current
  <2> QED BY <1>2, <2>1 DEF Holds
<1> QED BY <1>1, <1>2

\* The rows a statement outside the refresh may write: no locked one, no row
\* of a key not handed out, and never to bring a token or a secret back.
Writes(t) ==
    \/ (row'[t].live <=> row[t].live) /\ row'[t].secret = row[t].secret
    \/ /\ issuer[t] # Wiped /\ lock[t] = Nobody /\ (row'[t].live => row[t].live)
       /\ row'[t].secret \in {row[t].secret, Wiped}
Ends(t) == issuer'[t] = issuer[t] \/ (issuer[t] # Wiped /\ issuer'[t] = Dead)

LEMMA QuietStep ==
    ASSUME Inv, NEW p \in Proc \cup {Nobody}, Tables', Lists', lock' = lock, lost' = lost,
           p \in Proc => /\ pc[p] \notin Held /\ pc'[p] \notin Held
                         /\ pc'[p] = "locking" => issuer'[on'[p]] # Wiped,
           \A q \in Proc \ {p} : Bystander(q),
           \A t \in Token : Writes(t) /\ Ends(t)
    PROVE  Inv' /\ Lasting
<1>1. \A t \in Token : issuer'[t] = Wiped <=> issuer[t] = Wiped
  BY Numbers DEF Ends
<1>2. Known' = Known
  BY <1>1 DEF Known
<1>3. Keys'
  BY <1>1, <1>2 DEF Keys, Writes, Inv
<1>4. Locks'
  BY DEF Locks, Bystander, Inv
<1>5. ASSUME NEW q \in Proc PROVE Refresher(q)'
  <2>1. CASE q = p
    <3>1. pc'[q] \notin Held /\ "asking" \in Held /\ "committing" \in Held
      BY <2>1 DEF Held
    <3> QED BY <2>1, <3>1 DEF Refresher
  <2>2. CASE q # p
    <3>1. \A t \in Token : lock[t] = q =>
              /\ lock'[t] = q /\ (row'[t].live <=> row[t].live)
              /\ row'[t].secret = row[t].secret /\ issuer'[t] \in {issuer[t], Dead}
      BY WorkerAssumption DEF Writes, Ends
    <3> QED BY <2>2, <3>1, <1>1, BystanderKeeps
  <2> QED BY <2>1, <2>2
<1>6. ASSUME NEW t \in Token PROVE Current(t)'
  <2>1. \A q \in Proc : lock[t] = q /\ pc[q] = "committing" =>
            lock'[t] = q /\ pc'[q] = "committing" /\ draft'[q] = draft[q]
    BY DEF Bystander, Held
  <2>2. Current(t) /\ (row'[t].live => row[t].live) /\ row'[t].secret \in {row[t].secret, Wiped}
        /\ issuer'[t] \in {issuer[t], Dead} /\ (t \in lost => t \in lost')
    BY DEF Writes, Ends, Inv
  <2> QED BY <2>1, <2>2, StillCurrent
<1>7. Lasting
  BY DEF Lasting, Writes, Known
<1> QED BY <1>3, <1>4, <1>5, <1>6, <1>7 DEF Inv

-----------------------------------------------------------------------------
(* Steps that take no lock                                                 *)

LEMMA FirstKey == 1 \in Token
<1>1. Cardinality(Token) \in Nat
  BY TokenAssumption, FS_CardinalityType
<1>2. \E t \in 1..Cardinality(Token) : TRUE
  BY TokenAssumption
<1> QED BY <1>1, <1>2, TokenAssumption

\* A worker that moves leaves the others where they are.
Others(p) == \A q \in Proc \ {p} : Bystander(q) /\ todo'[q] = todo[q]

LEMMA GotoFrame ==
    ASSUME Inv, NEW p \in Proc, NEW step \in Step, Goto(p, step)
    PROVE  /\ pc' \in [Proc -> Step] /\ pc'[p] = step
           /\ \A q \in Proc \ {p} : pc'[q] = pc[q]
BY DEF Goto, Inv, Tables

LEMMA DoneFrame ==
    ASSUME Inv, NEW p \in Proc, Done(p)
    PROVE  /\ pc' \in [Proc -> Step] /\ on' \in [Proc -> Token] /\ draft' \in [Proc -> Row]
           /\ todo' \in [Proc -> SUBSET (Token \cup Capture)]
           /\ pc'[p] = "idle" /\ Others(p) /\ Lists'
<1>1. "idle" \in Step /\ "idle" \notin Severing
  BY DEF Step, Severing
<1>2. /\ pc' = [pc EXCEPT ![p] = "idle"] /\ on' = [on EXCEPT ![p] = 1]
      /\ draft' = [draft EXCEPT ![p] = Unminted] /\ todo' = [todo EXCEPT ![p] = {}]
  BY DEF Done, Goto
<1>3. /\ pc' \in [Proc -> Step] /\ on' \in [Proc -> Token] /\ draft' \in [Proc -> Row]
      /\ todo' \in [Proc -> SUBSET (Token \cup Capture)]
  BY <1>1, <1>2, FirstKey, EmptyRow DEF Inv, Tables
<1>4. pc'[p] = "idle" /\ Others(p)
  BY <1>2 DEF Others, Bystander, Inv, Tables
<1>5. Lists'
  BY <1>1, <1>4 DEF Lists, Others, Bystander, Inv
<1> QED BY <1>3, <1>4, <1>5

LEMMA SurroundKeeps ==
    ASSUME Inv, Surroundings
    PROVE  Inv' /\ Lasting
<1>1. ASSUME UNCHANGED <<pc, on, draft, todo, lock, lost>>,
             Tables', \A t \in Token : Writes(t) /\ Ends(t)
      PROVE  Inv' /\ Lasting
  <2>1. Lists'
    BY <1>1 DEF Lists, Inv
  <2>2. \A q \in Proc : Bystander(q)
    BY <1>1 DEF Bystander
  <2> QED BY <1>1, <2>1, <2>2, QuietStep, WorkerAssumption
<1>2. ASSUME NEW t \in Token, ExpireAccess(t) PROVE Inv' /\ Lasting
  <2>1. row' = [row EXCEPT ![t].access = "stale"] /\ issuer' = issuer /\ tasks' = tasks
        /\ UNCHANGED <<pc, on, draft, todo, lock, lost>>
    BY <1>2 DEF ExpireAccess, worker, history
  <2>2. row[t] \in Row /\ row \in [Token -> Row]
    BY DEF Inv, Tables
  <2>3. [row[t] EXCEPT !.access = "stale"] \in Row
    BY <2>2 DEF Row
  <2>4. row' \in [Token -> Row]
    BY <2>1, <2>2, <2>3
  <2>5. Tables'
    BY <2>1, <2>4 DEF Inv, Tables
  <2>6. \A u \in Token : Writes(u) /\ Ends(u)
    BY <2>1, <2>2 DEF Writes, Ends, Row
  <2> QED BY <1>1, <2>1, <2>5, <2>6
<1>3. ASSUME NEW t \in Token, PilotRevokes(t) PROVE Inv' /\ Lasting
  <2>1. issuer' = [issuer EXCEPT ![t] = Dead] /\ issuer[t] # Wiped /\ row' = row /\ tasks' = tasks
        /\ UNCHANGED <<pc, on, draft, todo, lock, lost>>
    BY <1>3, Numbers DEF PilotRevokes, store, worker, history
  <2>2. Tables'
    BY <2>1 DEF Inv, Tables
  <2>3. \A u \in Token : Writes(u) /\ Ends(u)
    BY <2>1 DEF Writes, Ends, Inv, Tables
  <2> QED BY <1>1, <2>1, <2>2, <2>3
<1>4. ASSUME NEW e \in tasks, NEW reached \in BOOLEAN, RevokeAtIssuer(e, reached)
      PROVE  Inv' /\ Lasting
  <2>1. e \in Capture /\ e.token \in Token /\ e.secret # Wiped
    BY Numbers DEF Inv, Tables, Capture
  <2>2. /\ issuer' = issuer \/ (issuer[e.token] = e.secret /\ issuer' = [issuer EXCEPT ![e.token] = Dead])
        /\ row' = row /\ tasks' \subseteq tasks /\ UNCHANGED <<pc, on, draft, todo, lock, lost>>
    BY <1>4 DEF RevokeAtIssuer, store, worker, history
  <2>3. Tables'
    BY <2>1, <2>2 DEF Inv, Tables
  <2>4. \A u \in Token : Writes(u) /\ Ends(u)
    BY <2>1, <2>2 DEF Writes, Ends, Inv, Tables
  <2> QED BY <1>1, <2>2, <2>3, <2>4
<1> QED BY <1>2, <1>3, <1>4 DEF Surroundings

\* The steps of a worker that is outside the locked part of a refresh.
LEMMA WorkerQuiet ==
    ASSUME Inv, NEW p \in Proc, pc[p] \notin Held, pc'[p] \notin Held,
           pc' \in [Proc -> Step] /\ on' \in [Proc -> Token] /\ draft' \in [Proc -> Row],
           todo' \in [Proc -> SUBSET (Token \cup Capture)],
           pc'[p] \in Severing => todo'[p] \subseteq Capture,
           pc'[p] = "locking" => issuer[on'[p]] # Wiped,
           Others(p), UNCHANGED <<lock, lost, issuer>>,
           row' \in [Token -> Row], tasks' \subseteq Capture,
           \A t \in Token : Writes(t)
    PROVE  Inv' /\ Lasting
<1>1. Tables'
  BY DEF Inv, Tables
<1>2. Lists'
  BY DEF Lists, Others, Bystander, Inv
<1>3. \A t \in Token : Ends(t)
  BY DEF Ends
<1>4. \A q \in Proc \ {p} : Bystander(q)
  BY DEF Others
<1> QED BY <1>1, <1>2, <1>3, <1>4, QuietStep

LEMMA ErasedRow ==
    ASSUME NEW r \in Row
    PROVE  /\ Erased(r) \in Row /\ Erased(r).live = FALSE /\ Erased(r).secret = Wiped
           /\ [r EXCEPT !.live = FALSE] \in Row
           /\ [r EXCEPT !.secret = Wiped, !.access = "none"] \in Row
BY DEF Row, Erased

\* A statement that erases or revokes free rows.
LEMMA ErasingWrites ==
    ASSUME Inv,
           \A t \in Token :
              \/ row'[t] = row[t]
              \/ lock[t] = Nobody /\ row'[t] = Erased(row[t])
              \/ (row[t].live => lock[t] = Nobody) /\ row'[t] = [row[t] EXCEPT !.live = FALSE]
              \/ (issuer[t] # Wiped => lock[t] = Nobody)
                 /\ row'[t] = [row[t] EXCEPT !.secret = Wiped, !.access = "none"]
    PROVE  \A t \in Token : Writes(t)
<1> SUFFICES ASSUME NEW t \in Token PROVE Writes(t)
  OBVIOUS
<1>1. row[t] \in Row /\ (issuer[t] = Wiped => ~row[t].live /\ row[t].secret = Wiped)
  BY DEF Inv, Tables, Keys
<1>2. CASE row'[t] = row[t]
  BY <1>2 DEF Writes
<1>3. CASE lock[t] = Nobody /\ row'[t] = Erased(row[t])
  BY <1>1, <1>3, ErasedRow DEF Writes
<1>4. CASE (row[t].live => lock[t] = Nobody) /\ row'[t] = [row[t] EXCEPT !.live = FALSE]
  <2>1. row'[t].live = FALSE /\ row'[t].secret = row[t].secret
    BY <1>1, <1>4 DEF Row
  <2> QED BY <1>1, <1>4, <2>1 DEF Writes
<1>5. CASE /\ issuer[t] # Wiped => lock[t] = Nobody
           /\ row'[t] = [row[t] EXCEPT !.secret = Wiped, !.access = "none"]
  <2>1. (row'[t].live <=> row[t].live) /\ row'[t].secret = Wiped
    BY <1>1, <1>5 DEF Row
  <2> QED BY <1>1, <1>5, <2>1 DEF Writes
<1> QED BY <1>2, <1>3, <1>4, <1>5

LEMMA LoginKeeps ==
    ASSUME Inv, NEW p \in Proc,
           \/ LinkCharacter(p) \/ ListOthers(p) \/ SweepTokens(p) \/ PruneDone(p)
           \/ \E t \in Token : PruneToken(p, t)
    PROVE  Inv' /\ Lasting
<1> USE DEF Held, Severing
<1>1. /\ Tables /\ p \in Proc /\ UNCHANGED <<lock, lost, issuer>> /\ tasks' = tasks
      /\ tasks' \subseteq Capture
  BY DEF LinkCharacter, ListOthers, SweepTokens, PruneDone, PruneToken, history, store, Inv, Tables
<1>2. CASE LinkCharacter(p)
  <2>1. Goto(p, "minting") /\ "minting" \in Step /\ UNCHANGED <<row, on, draft, todo>> /\ pc[p] = "idle"
    BY <1>2 DEF LinkCharacter, SameWork, Step
  <2>2. pc' \in [Proc -> Step] /\ pc'[p] = "minting" /\ \A q \in Proc \ {p} : pc'[q] = pc[q]
    BY <2>1, GotoFrame
  <2>3. Others(p) /\ row' \in [Token -> Row] /\ \A t \in Token : Writes(t)
    BY <1>1, <2>1, <2>2 DEF Others, Bystander, Writes, Tables
  <2> QED BY <1>1, <2>1, <2>2, <2>3, WorkerQuiet DEF Tables
<1>3. CASE ListOthers(p)
  <2>1. /\ Goto(p, "pruning") /\ "pruning" \in Step /\ UNCHANGED <<row, draft>> /\ pc[p] = "listing"
        /\ todo' = [todo EXCEPT ![p] = {t \in Live \ {on[p]} : Covers(on[p], t)}]
        /\ on' = [on EXCEPT ![p] = 1]
    BY <1>3 DEF ListOthers, store, Step
  <2>2. pc' \in [Proc -> Step] /\ pc'[p] = "pruning" /\ \A q \in Proc \ {p} : pc'[q] = pc[q]
    BY <2>1, GotoFrame
  <2>3. todo' \in [Proc -> SUBSET (Token \cup Capture)] /\ on' \in [Proc -> Token]
    BY <1>1, <2>1, FirstKey DEF Tables, Live
  <2>4. Others(p) /\ row' \in [Token -> Row] /\ \A t \in Token : Writes(t)
    BY <1>1, <2>1, <2>2 DEF Others, Bystander, Writes, Tables
  <2> QED BY <1>1, <2>1, <2>2, <2>3, <2>4, WorkerQuiet DEF Tables
<1>4. CASE SweepTokens(p)
  <2>1. /\ Goto(p, "pruning") /\ "pruning" \in Step /\ UNCHANGED <<row, on, draft>> /\ pc[p] = "idle"
        /\ todo' = [todo EXCEPT ![p] = SweepDrops(Live)]
    BY <1>4 DEF SweepTokens, store, Step
  <2>2. pc' \in [Proc -> Step] /\ pc'[p] = "pruning" /\ \A q \in Proc \ {p} : pc'[q] = pc[q]
    BY <2>1, GotoFrame
  <2>3. todo' \in [Proc -> SUBSET (Token \cup Capture)]
    BY <1>1, <2>1 DEF Tables, Live, SweepDrops
  <2>4. Others(p) /\ row' \in [Token -> Row] /\ \A t \in Token : Writes(t)
    BY <1>1, <2>1, <2>2 DEF Others, Bystander, Writes, Tables
  <2> QED BY <1>1, <2>1, <2>2, <2>3, <2>4, WorkerQuiet DEF Tables
<1>5. CASE PruneDone(p)
  <2>1. Done(p) /\ row' = row /\ pc[p] = "pruning"
    BY <1>5 DEF PruneDone, store
  <2>2. row' \in [Token -> Row] /\ \A t \in Token : Writes(t)
    BY <1>1, <2>1 DEF Writes, Tables
  <2> QED BY <1>1, <2>1, <2>2, DoneFrame, WorkerQuiet
<1>6. ASSUME NEW t \in Token, PruneToken(p, t) PROVE Inv' /\ Lasting
  <2>1. /\ row' = [row EXCEPT ![t] = Erased(row[t])] /\ lock[t] = Nobody
        /\ todo' = [todo EXCEPT ![p] = todo[p] \ {t}] /\ UNCHANGED <<pc, on, draft>> /\ pc[p] = "pruning"
    BY <1>6 DEF PruneToken, Free
  <2>2. Erased(row[t]) \in Row
    BY <1>1, ErasedRow DEF Tables
  <2>3. row' \in [Token -> Row] /\ todo' \in [Proc -> SUBSET (Token \cup Capture)]
    BY <1>1, <2>1, <2>2 DEF Tables
  <2>4. \A u \in Token : row'[u] = row[u] \/ (lock[u] = Nobody /\ row'[u] = Erased(row[u]))
    BY <1>1, <2>1 DEF Tables
  <2>5. \A u \in Token : Writes(u)
    BY <2>4, ErasingWrites
  <2>6. Others(p)
    BY <1>1, <2>1 DEF Others, Bystander, Tables
  <2> QED BY <1>1, <2>1, <2>3, <2>5, <2>6, WorkerQuiet DEF Tables
<1> QED BY <1>2, <1>3, <1>4, <1>5, <1>6

LEMMA CapturedSecrets == Inv => Captured \subseteq Capture
BY DEF Captured, Capture, Live, Inv, Tables, Row

LEMMA SeverKeeps ==
    ASSUME Inv, NEW p \in Proc, SeverStep(p)
    PROVE  Inv' /\ Lasting
<1> USE DEF Held, Severing
<1>1. /\ Tables /\ p \in Proc /\ UNCHANGED <<lock, lost, issuer>>
      /\ pc[p] \in Severing => todo[p] \subseteq Capture
  BY DEF SeverStep, CaptureSecrets, RevokeRows, EraseRows, UnlinkCharacter, AlreadyUnlinked,
         DetachCharacter, QueueRevocation, history, store, Inv, Tables, Lists
<1>2. ASSUME NEW op \in {"disconnect", "unlink"}, CaptureSecrets(p, op) PROVE Inv' /\ Lasting
  <2>1. /\ UNCHANGED <<row, on, draft, tasks>> /\ pc[p] = "idle"
        /\ Goto(p, "severing") \/ Goto(p, "revoking")
        /\ todo' = [todo EXCEPT ![p] = Captured]
    BY <1>2 DEF CaptureSecrets, store
  <2>2. /\ pc' \in [Proc -> Step] /\ pc'[p] \in {"severing", "revoking"}
        /\ \A q \in Proc \ {p} : pc'[q] = pc[q]
    BY <2>1, GotoFrame DEF Step
  <2>3. todo' \in [Proc -> SUBSET (Token \cup Capture)] /\ todo'[p] \subseteq Capture
    BY <1>1, <2>1, CapturedSecrets DEF Tables
  <2>4. Others(p) /\ row' \in [Token -> Row] /\ \A t \in Token : Writes(t)
    BY <1>1, <2>1, <2>2 DEF Others, Bystander, Writes, Tables
  <2> QED BY <1>1, <2>1, <2>2, <2>3, <2>4, WorkerQuiet DEF Tables
<1>3. ASSUME NEW step \in Severing, Goto(p, step), pc[p] \in Severing, SameWork, tasks' = tasks,
             \A t \in Token : Writes(t), row' \in [Token -> Row]
      PROVE  Inv' /\ Lasting
  <2>1. pc' \in [Proc -> Step] /\ pc'[p] = step /\ \A q \in Proc \ {p} : pc'[q] = pc[q]
    BY <1>3, GotoFrame DEF Step
  <2>2. Others(p)
    BY <1>3, <2>1 DEF Others, Bystander, SameWork
  <2> QED BY <1>1, <1>3, <2>1, <2>2, WorkerQuiet DEF Tables, SameWork
<1>4. CASE RevokeRows(p)
  <2>1. /\ Goto(p, "erasing") /\ pc[p] = "revoking" /\ SameWork /\ tasks' = tasks
        /\ row' = [t \in Token |-> [row[t] EXCEPT !.live = FALSE]]
        /\ \A t \in Token : row[t].live => lock[t] = Nobody
    BY <1>4 DEF RevokeRows, Free, Live
  <2>2. row' \in [Token -> Row] /\ \A t \in Token : row'[t] = [row[t] EXCEPT !.live = FALSE]
    BY <1>1, <2>1, ErasedRow DEF Tables
  <2>3. \A t \in Token : Writes(t)
    BY <2>1, <2>2, ErasingWrites
  <2> QED BY <1>3, <2>1, <2>2, <2>3
<1>5. CASE EraseRows(p)
  <2>1. /\ Goto(p, "queueing") /\ pc[p] = "erasing" /\ SameWork /\ tasks' = tasks
        /\ row' = [t \in Token |-> [row[t] EXCEPT !.secret = Wiped, !.access = "none"]]
        /\ \A t \in Token : issuer[t] # Wiped => lock[t] = Nobody
    BY <1>5 DEF EraseRows, Free, Known
  <2>2. /\ row' \in [Token -> Row]
        /\ \A t \in Token : row'[t] = [row[t] EXCEPT !.secret = Wiped, !.access = "none"]
    BY <1>1, <2>1, ErasedRow DEF Tables
  <2>3. \A t \in Token : Writes(t)
    BY <2>1, <2>2, ErasingWrites
  <2> QED BY <1>3, <2>1, <2>2, <2>3
<1>6. CASE UnlinkCharacter(p)
  <2>1. /\ Goto(p, "queueing") /\ pc[p] = "severing" /\ SameWork /\ tasks' = tasks
        /\ row' = [t \in Token |-> IF t \in Known THEN Erased(row[t]) ELSE row[t]]
        /\ \A t \in Known : lock[t] = Nobody
    BY <1>6 DEF UnlinkCharacter, ErasedRows, Free
  <2>2. /\ row' \in [Token -> Row]
        /\ \A t \in Token : row'[t] = row[t] \/ (lock[t] = Nobody /\ row'[t] = Erased(row[t]))
    BY <1>1, <2>1, ErasedRow DEF Tables
  <2>3. \A t \in Token : Writes(t)
    BY <2>2, ErasingWrites
  <2> QED BY <1>3, <2>1, <2>2, <2>3
<1>7. ASSUME Done(p), pc[p] \in Severing, row' = row, tasks' \subseteq Capture
      PROVE  Inv' /\ Lasting
  <2>1. row' \in [Token -> Row] /\ \A t \in Token : Writes(t)
    BY <1>1, <1>7 DEF Writes, Tables
  <2> QED BY <1>1, <1>7, <2>1, DoneFrame, WorkerQuiet
<1>8. CASE AlreadyUnlinked(p)
  BY <1>1, <1>7, <1>8 DEF AlreadyUnlinked, store, Tables
<1>9. CASE QueueRevocation(p)
  BY <1>1, <1>7, <1>9 DEF QueueRevocation, store, Tables
<1>10. CASE DetachCharacter(p)
  <2>1. /\ UNCHANGED <<pc, on, draft, todo, tasks>> /\ pc[p] = "idle"
        /\ row' = [t \in Token |-> IF row[t].live THEN Erased(row[t]) ELSE row[t]]
        /\ \A t \in Token : row[t].live => lock[t] = Nobody
    BY <1>10 DEF DetachCharacter, Free, Live, SameWork
  <2>2. /\ row' \in [Token -> Row]
        /\ \A t \in Token : row'[t] = row[t] \/ (lock[t] = Nobody /\ row'[t] = Erased(row[t]))
    BY <1>1, <2>1, ErasedRow DEF Tables
  <2>3. Others(p) /\ \A t \in Token : Writes(t)
    BY <2>1, <2>2, ErasingWrites DEF Others, Bystander
  <2> QED BY <1>1, <2>1, <2>2, <2>3, WorkerQuiet DEF Tables
<1> QED BY <1>2, <1>4, <1>5, <1>6, <1>8, <1>9, <1>10 DEF SeverStep

-----------------------------------------------------------------------------
(* Minting and the refresh                                                 *)

\* The key handed out is a new one, and nobody holds its row.
LEMMA FreshKey ==
    ASSUME Inv, NextKey \in Token
    PROVE  /\ issuer[NextKey] = Wiped /\ lock[NextKey] = Nobody
           /\ \E n \in Nat : Known = 1..n /\ Known \cup {NextKey} = 1..(n + 1)
<1>1. PICK n \in Nat : Known = 1..n
  BY DEF Inv, Keys
<1>2. Cardinality(1..n) = n
  BY <1>1, FS_Interval
<1>3. NextKey = n + 1
  BY <1>1, <1>2 DEF NextKey
<1>4. NextKey \notin Known /\ Known \cup {NextKey} = 1..(n + 1)
  BY <1>1, <1>3
<1>5. issuer[NextKey] = Wiped
  BY <1>4 DEF Known
<1>6. ASSUME NEW q \in Proc, lock[NextKey] = q PROVE FALSE
  <2>1. on[q] = NextKey /\ pc[q] \in Held /\ Refresher(q)
    BY <1>6 DEF Inv, Locks
  <2> QED BY <2>1, <1>5 DEF Refresher
<1>7. lock[NextKey] = Nobody
  BY <1>6 DEF Inv, Tables
<1> QED BY <1>1, <1>4, <1>5, <1>7

LEMMA MintKeeps ==
    ASSUME Inv, NEW p \in Proc, NEW ss \in Grants, MintToken(p, ss)
    PROVE  Inv' /\ Lasting
<1> DEFINE k == NextKey
<1>1. /\ k \in Token /\ issuer[k] = Wiped /\ lock[k] = Nobody /\ Tables
      /\ UNCHANGED <<lock, lost, draft, todo, tasks>> /\ pc[p] = "minting"
  BY FreshKey DEF MintToken, history, Inv
<1>2. /\ row' = [row EXCEPT ![k] = Minted(ss)] /\ issuer' = [issuer EXCEPT ![k] = 0]
      /\ on' = [on EXCEPT ![p] = k] /\ Goto(p, "listing") /\ "listing" \in Step
  BY DEF MintToken, Step
<1>3. PICK n \in Nat : Known = 1..n /\ Known \cup {k} = 1..(n + 1)
  BY <1>1, FreshKey DEF MintToken
<1> HIDE DEF k
<1>4. pc' \in [Proc -> Step] /\ pc'[p] = "listing" /\ \A q \in Proc \ {p} : pc'[q] = pc[q]
  BY <1>2, GotoFrame
<1>5. Minted(ss) \in Row /\ Minted(ss).secret = 0 /\ 0 \in Secret /\ 0 # Wiped
  BY BoundAssumption DEF Minted, Row, Scope, Secret, Wiped
<1>6. Tables'
  BY <1>1, <1>2, <1>4, <1>5 DEF Tables
<1>7. /\ issuer'[k] = 0 /\ row'[k] = Minted(ss)
      /\ \A t \in Token \ {k} : issuer'[t] = issuer[t] /\ row'[t] = row[t]
  BY <1>1, <1>2 DEF Tables
<1>8. Known' = Known \cup {k}
  BY <1>1, <1>5, <1>7 DEF Known
<1>9. Keys'
  <2>1. Known' = 1..(n + 1) /\ n + 1 \in Nat
    BY <1>3, <1>8
  <2>2. \A t \in Token : issuer'[t] = Wiped => ~row'[t].live /\ row'[t].secret = Wiped
    BY <1>5, <1>7 DEF Inv, Keys
  <2> QED BY <2>1, <2>2 DEF Keys
<1>10. Lists'
  BY <1>1, <1>4 DEF Lists, Inv, Severing
<1>11. \A q \in Proc \ {p} : Bystander(q)
  BY <1>1, <1>2, <1>4 DEF Bystander, Tables
<1>12. Locks'
  <2> SUFFICES ASSUME NEW t \in Token, NEW q \in Proc, lock'[t] = q
               PROVE  on'[q] = t /\ pc'[q] \in Held
    BY DEF Locks
  <2>1. on[q] = t /\ pc[q] \in Held
    BY <1>1 DEF Inv, Locks
  <2>2. q # p
    BY <2>1, <1>1 DEF Held
  <2> QED BY <2>1, <2>2, <1>11 DEF Bystander
<1>13. ASSUME NEW q \in Proc PROVE Refresher(q)'
  <2>1. CASE q = p
    BY <2>1, <1>4 DEF Refresher, Held
  <2>2. CASE q # p
    <3>1. \A t \in Token : lock[t] = q => t # k
      BY <1>1, WorkerAssumption
    <3>2. \A t \in Token : lock[t] = q =>
              /\ lock'[t] = q /\ (row'[t].live <=> row[t].live)
              /\ row'[t].secret = row[t].secret /\ issuer'[t] \in {issuer[t], Dead}
      BY <3>1, <1>1, <1>7
    <3>3. \A t \in Token : issuer[t] # Wiped => issuer'[t] # Wiped
      BY <1>5, <1>7
    <3> QED BY <2>2, <3>2, <3>3, <1>11, BystanderKeeps
  <2> QED BY <2>1, <2>2
<1>14. ASSUME NEW t \in Token PROVE Current(t)'
  <2>1. CASE t = k
    BY <2>1, <1>5, <1>7 DEF Current
  <2>2. CASE t # k
    <3>1. /\ row'[t] = row[t] /\ issuer'[t] = issuer[t] /\ Current(t)
          /\ (t \in lost => t \in lost')
      BY <2>2, <1>1, <1>7 DEF Inv
    <3>2. \A q \in Proc : lock[t] = q /\ pc[q] = "committing" =>
              lock'[t] = q /\ pc'[q] = "committing" /\ draft'[q] = draft[q]
      BY <1>1, <1>11 DEF Bystander
    <3> QED BY <3>1, <3>2, StillCurrent
  <2> QED BY <2>1, <2>2
<1>15. Lasting
  BY <1>1, <1>7 DEF Lasting, Known
<1> QED BY <1>6, <1>9, <1>10, <1>12, <1>13, <1>14, <1>15 DEF Inv

LEMMA SelectKeeps ==
    ASSUME Inv, NEW p \in Proc, NEW t \in Token, SelectToken(p, t)
    PROVE  Inv' /\ Lasting
<1>1. /\ Tables /\ pc[p] = "idle" /\ row[t].live /\ UNCHANGED <<row, issuer, lock, todo, tasks, lost>>
      /\ on' = [on EXCEPT ![p] = t] /\ draft' = [draft EXCEPT ![p] = row[t]]
      /\ Goto(p, "locking") /\ "locking" \in Step
  BY DEF SelectToken, Inv, store, history, Step
<1>2. pc' \in [Proc -> Step] /\ pc'[p] = "locking" /\ \A q \in Proc \ {p} : pc'[q] = pc[q]
  BY <1>1, GotoFrame
<1>3. on' \in [Proc -> Token] /\ draft' \in [Proc -> Row] /\ on'[p] = t /\ Others(p)
  BY <1>1, <1>2 DEF Tables, Others, Bystander
<1>4. issuer[t] # Wiped
  BY <1>1 DEF Inv, Keys
<1>5. \A u \in Token : Writes(u)
  BY <1>1 DEF Writes
<1> QED BY <1>1, <1>2, <1>3, <1>4, <1>5, WorkerQuiet DEF Tables, Held, Severing

\* A step of the worker that holds, or takes, the lock of the token it is on;
\* no other token is touched.
LEMMA HolderStep ==
    ASSUME Inv, NEW p \in Proc, NEW k \in Token, on[p] = k, UNCHANGED <<row, on, todo, tasks, lost>>,
           pc[p] \in Held \cup {"locking"}, NEW step \in Held, Goto(p, step),
           draft' \in [Proc -> Row], \A q \in Proc \ {p} : draft'[q] = draft[q],
           lock[k] \in {Nobody, p}, lock' = [lock EXCEPT ![k] = p],
           issuer' \in [Token -> Secret \cup {Wiped, Dead}],
           \A t \in Token \ {k} : issuer'[t] = issuer[t],
           issuer'[k] # Wiped,
           Refresher(p)', Current(k)'
    PROVE  Inv' /\ Lasting
<1>1. Tables /\ step \in Step
  BY DEF Inv, Held, Step
<1>2. pc' \in [Proc -> Step] /\ pc'[p] = step /\ \A q \in Proc \ {p} : pc'[q] = pc[q]
  BY <1>1, GotoFrame
<1>3. lock' \in [Token -> Proc \cup {Nobody}] /\ lock'[k] = p /\ \A t \in Token \ {k} : lock'[t] = lock[t]
  BY <1>1 DEF Tables
<1>4. Tables'
  BY <1>1, <1>2, <1>3 DEF Tables
<1>5. /\ issuer[k] # Wiped
      /\ Known' = Known
  <2>1. issuer[k] # Wiped
    BY DEF Inv, Refresher
  <2> QED BY <2>1 DEF Known
<1>6. Keys'
  <2>1. \A t \in Token : issuer'[t] = Wiped => issuer[t] = Wiped /\ row'[t] = row[t]
    OBVIOUS
  <2> QED BY <1>5, <2>1 DEF Keys, Inv
<1>7. Lists'
  BY <1>2 DEF Lists, Inv, Held, Severing
<1>8. \A q \in Proc \ {p} : Bystander(q)
  BY <1>2 DEF Bystander
<1>9. Locks'
  <2> SUFFICES ASSUME NEW t \in Token, NEW q \in Proc, lock'[t] = q
               PROVE  on'[q] = t /\ pc'[q] \in Held
    BY DEF Locks
  <2>1. CASE q = p
    <3>1. t = k
      <4>1. t # k => lock[t] = p
        BY <1>3, <2>1
      <4> QED BY <4>1 DEF Inv, Locks
    <3> QED BY <2>1, <3>1, <1>2
  <2>2. CASE q # p
    <3>1. t # k /\ lock[t] = q
      BY <2>2, <1>3
    <3> QED BY <2>2, <3>1, <1>8 DEF Inv, Locks, Bystander
  <2> QED BY <2>1, <2>2
<1>10. ASSUME NEW q \in Proc PROVE Refresher(q)'
  <2>1. CASE q # p
    <3>1. \A t \in Token : lock[t] = q => t # k
      BY <2>1, WorkerAssumption
    <3>2. \A t \in Token : lock[t] = q =>
              /\ lock'[t] = q /\ (row'[t].live <=> row[t].live)
              /\ row'[t].secret = row[t].secret /\ issuer'[t] \in {issuer[t], Dead}
      BY <3>1, <1>3
    <3>3. \A t \in Token : issuer[t] # Wiped => issuer'[t] # Wiped
      OBVIOUS
    <3> QED BY <2>1, <3>2, <3>3, <1>8, BystanderKeeps
  <2> QED BY <2>1
<1>11. ASSUME NEW t \in Token PROVE Current(t)'
  <2>1. CASE t # k
    <3>1. /\ row'[t] = row[t] /\ issuer'[t] = issuer[t] /\ Current(t)
          /\ (t \in lost => t \in lost')
      BY <2>1 DEF Inv
    <3>2. \A q \in Proc : lock[t] = q /\ pc[q] = "committing" =>
              lock'[t] = q /\ pc'[q] = "committing" /\ draft'[q] = draft[q]
      <4> SUFFICES ASSUME NEW q \in Proc, lock[t] = q, pc[q] = "committing"
                   PROVE  lock'[t] = q /\ pc'[q] = "committing" /\ draft'[q] = draft[q]
        OBVIOUS
      <4>1. q # p
        BY <2>1 DEF Inv, Locks
      <4> QED BY <4>1, <2>1, <1>3, <1>8 DEF Bystander
    <3> QED BY <3>1, <3>2, StillCurrent
  <2> QED BY <2>1
<1>12. Lasting
  BY DEF Lasting
<1> QED BY <1>4, <1>6, <1>7, <1>9, <1>10, <1>11, <1>12 DEF Inv

LEMMA LockKeeps ==
    ASSUME Inv, NEW p \in Proc, LockToken(p)
    PROVE  Inv' /\ Lasting
<1>0. PICK k \in Token : k = on[p]
  BY DEF Inv, Tables
<1>1. /\ Tables /\ k \in Token /\ pc[p] = "locking" /\ lock[k] = Nobody /\ issuer[k] # Wiped
      /\ UNCHANGED <<row, issuer, tasks, lost>>
  <2>1. Tables /\ Refresher(p)
    BY DEF Inv
  <2> QED BY <1>0, <2>1 DEF LockToken, Free, store, history, Refresher, Tables
<1>2. CASE Done(p) /\ UNCHANGED lock
  <2>1. \A u \in Token : Writes(u)
    BY <1>0, <1>1 DEF Writes
  <2> QED BY <1>0, <1>1, <1>2, <2>1, DoneFrame, WorkerQuiet DEF Tables, Held, Severing
<1>3. CASE /\ Goto(p, "asking") /\ lock' = [lock EXCEPT ![k] = p]
           /\ draft' = [draft EXCEPT ![p] = row[k]] /\ UNCHANGED <<on, todo>>
  <2>1. draft' \in [Proc -> Row] /\ draft'[p] = row[k] /\ \A q \in Proc \ {p} : draft'[q] = draft[q]
    BY <1>0, <1>1, <1>3 DEF Tables
  <2>2. pc'[p] = "asking" /\ \A q \in Proc \ {p} : pc'[q] = pc[q]
    BY <1>0, <1>1, <1>3 DEF Goto, Tables
  <2>3. Refresher(p)'
    BY <1>0, <1>1, <1>3, <2>1, <2>2 DEF Refresher, Tables
  <2>4. Current(k)'
    <3>1. Current(k) /\ \A q \in Proc : lock[k] # q
      BY <1>0, <1>1, WorkerAssumption DEF Inv
    <3> QED BY <1>0, <1>1, <3>1, StillCurrent
  <2>5. on[p] = k /\ issuer' \in [Token -> Secret \cup {Wiped, Dead}] /\ issuer'[k] # Wiped
    BY <1>0, <1>1 DEF Tables
  <2> QED BY <1>0, <1>1, <1>3, <2>1, <2>3, <2>4, <2>5, HolderStep DEF Held
<1> QED BY <1>0, <1>2, <1>3 DEF LockToken, ReadLocked

LEMMA AnswerKeeps ==
    ASSUME Inv, NEW p \in Proc, NEW g, IssuerAnswers(p, g)
    PROVE  Inv' /\ Lasting
<1>0. PICK k \in Token : k = on[p]
  BY DEF Inv, Tables
<1>1. /\ Tables /\ k \in Token /\ pc[p] = "asking" /\ lock[k] = p /\ issuer[k] # Wiped
      /\ draft[p].live => row[k].live
      /\ draft[p].secret = row[k].secret /\ draft[p].secret = issuer[k]
      /\ UNCHANGED <<row, lock, on, todo, tasks, lost>>
  <2>1. Tables /\ Refresher(p)
    BY DEF Inv
  <2> QED BY <1>0, <2>1 DEF IssuerAnswers, Honoured, store, history, Refresher, Tables, Held
<1>2. /\ g \in {issuer[k], issuer[k] + 1} \cap Secret /\ Goto(p, "committing")
      /\ issuer' = [issuer EXCEPT ![k] = g]
      /\ draft' = [draft EXCEPT ![p] = Refreshed(draft[p], g)]
  BY <1>0 DEF IssuerAnswers
<1>3. g \in Secret /\ g # Wiped /\ issuer[k] \in Secret
  <2>1. issuer[k] \in Secret \cup {Wiped, Dead}
    BY <1>0, <1>1 DEF Tables
  <2> QED BY <2>1, <1>1, <1>2, Numbers DEF Secret
<1>4. draft[p] \in Row
  BY <1>0, <1>1 DEF Tables
<1>5. /\ Refreshed(draft[p], g) \in Row /\ Refreshed(draft[p], g).secret = g
      /\ Refreshed(draft[p], g).live = draft[p].live
  BY <1>3, <1>4 DEF Refreshed, Row
<1>6. /\ draft' \in [Proc -> Row] /\ draft'[p].secret = g /\ draft'[p].live = draft[p].live
      /\ \A q \in Proc \ {p} : draft'[q] = draft[q]
  BY <1>0, <1>1, <1>2, <1>5 DEF Tables
<1>7. /\ issuer' \in [Token -> Secret \cup {Wiped, Dead}] /\ issuer'[k] = g
      /\ \A t \in Token \ {k} : issuer'[t] = issuer[t]
  BY <1>0, <1>1, <1>2, <1>3 DEF Tables
<1>8. pc'[p] = "committing"
  BY <1>0, <1>1, <1>2 DEF Goto, Tables
<1>9. row[k].secret # Wiped
  BY <1>0, <1>1, <1>3, Numbers
<1>10. Refresher(p)'
  BY <1>0, <1>1, <1>3, <1>6, <1>7, <1>8, <1>9 DEF Refresher
<1>11. Current(k)'
  BY <1>0, <1>1, <1>6, <1>7, <1>8 DEF Current, Holds
<1>12. lock' = [lock EXCEPT ![k] = p]
  BY <1>0, <1>1 DEF Tables
<1>13. on[p] = k
  BY <1>0
<1> QED BY <1>0, <1>1, <1>2, <1>3, <1>6, <1>7, <1>10, <1>11, <1>12, <1>13, HolderStep DEF Held

LEMMA RejectedRow ==
    ASSUME NEW r \in Row
    PROVE  Rejected(r) \in Row /\ (Rejected(r).live => r.live)
<1>1. ASSUME NEW n \in Nat, NEW b \in BOOLEAN
      PROVE  [r EXCEPT !.fails = n, !.live = b] \in Row /\ [r EXCEPT !.fails = n, !.live = b].live = b
  BY <1>1 DEF Row
<1>2. r.fails + 1 \in Nat
  BY DEF Row
<1>3. CASE r.live /\ r.fails + 1 < Threshold
  <2>1. (r.live /\ r.fails + 1 < Threshold) = TRUE
    BY <1>3
  <2>2. Rejected(r) = [r EXCEPT !.fails = r.fails + 1, !.live = TRUE]
    BY <2>1, Zenon DEF Rejected
  <2> QED BY <1>1, <1>2, <1>3, <2>2
<1>4. CASE ~ (r.live /\ r.fails + 1 < Threshold)
  <2>1. (r.live /\ r.fails + 1 < Threshold) = FALSE
    BY <1>4
  <2>2. Rejected(r) = [r EXCEPT !.fails = r.fails + 1, !.live = FALSE]
    BY <2>1, Zenon DEF Rejected
  <2>3. Rejected(r).live = FALSE
    BY <1>1, <1>2, <2>2
  <2> QED BY <1>1, <1>2, <2>2, <2>3
<1> QED BY <1>3, <1>4

LEMMA RejectKeeps ==
    ASSUME Inv, NEW p \in Proc, IssuerRejects(p)
    PROVE  Inv' /\ Lasting
<1>0. PICK k \in Token : k = on[p]
  BY DEF Inv, Tables
<1>1. /\ Tables /\ k \in Token /\ pc[p] = "asking" /\ lock[k] = p /\ issuer[k] # Wiped
      /\ draft[p].live => row[k].live
      /\ UNCHANGED <<row, issuer, lock, on, todo, tasks, lost>>
  <2>1. Tables /\ Refresher(p)
    BY DEF Inv
  <2> QED BY <1>0, <2>1 DEF IssuerRejects, store, Refresher, Tables, Held
<1>2. Goto(p, "rolling") /\ draft' = [draft EXCEPT ![p] = Rejected(draft[p])]
  BY DEF IssuerRejects
<1>3. draft[p] \in Row
  BY <1>0, <1>1 DEF Tables
<1>4. Rejected(draft[p]) \in Row /\ (Rejected(draft[p]).live => draft[p].live)
  BY <1>3, RejectedRow
<1>5. /\ draft' \in [Proc -> Row] /\ (draft'[p].live => draft[p].live)
      /\ \A q \in Proc \ {p} : draft'[q] = draft[q]
  BY <1>0, <1>1, <1>2, <1>4 DEF Tables
<1>6. pc'[p] = "rolling" /\ \A q \in Proc \ {p} : pc'[q] = pc[q]
  BY <1>0, <1>1, <1>2 DEF Goto, Tables
<1>7. Refresher(p)'
  BY <1>0, <1>1, <1>5, <1>6 DEF Refresher
<1>8. Current(k)'
  <2>1. \A q \in Proc : lock[k] = q /\ pc[q] = "committing" =>
            lock'[k] = q /\ pc'[q] = "committing" /\ draft'[q] = draft[q]
    BY <1>0, <1>1
  <2>2. Current(k)
    BY <1>0, <1>1 DEF Inv
  <2> QED BY <1>0, <1>1, <2>1, <2>2, StillCurrent
<1>9. lock' = [lock EXCEPT ![k] = p] /\ on[p] = k
  BY <1>0, <1>1 DEF Tables
<1>10. issuer' \in [Token -> Secret \cup {Wiped, Dead}]
  BY <1>0, <1>1 DEF Tables
<1> QED BY <1>0, <1>1, <1>2, <1>5, <1>7, <1>8, <1>9, <1>10, HolderStep DEF Held

-----------------------------------------------------------------------------
(* The end of a refresh                                                    *)

\* A worker ends its request, by a commit, a rollback or its death: only the
\* token it holds, if any, has changed.
LEMMA LeaveStep ==
    ASSUME Inv, NEW p \in Proc, Release(p), Done(p), tasks' = tasks,
           row' \in [Token -> Row], issuer' \in [Token -> Secret \cup {Wiped, Dead}],
           lost \subseteq lost' /\ lost' \subseteq Token,
           \A t \in Token : lock[t] # p => row'[t] = row[t] /\ issuer'[t] = issuer[t],
           \A t \in Token : lock[t] = p =>
               /\ issuer[t] # Wiped /\ issuer'[t] # Wiped /\ Current(t)'
               /\ row'[t].live => row[t].live
               /\ row[t].secret = Wiped => row'[t].secret = Wiped
    PROVE  Inv' /\ Lasting
<1>1. Tables /\ lock' = [t \in Token |-> IF lock[t] = p THEN Nobody ELSE lock[t]]
  BY DEF Inv, Release
<1>2. Tables' /\ Lists' /\ \A q \in Proc \ {p} : Bystander(q)
  BY <1>1, DoneFrame DEF Tables, Others
<1>3. \A t \in Token : issuer'[t] = Wiped <=> issuer[t] = Wiped
  OBVIOUS
<1>4. Keys'
  <2>1. Known' = Known
    BY <1>3 DEF Known
  <2>2. \A t \in Token : issuer'[t] = Wiped => issuer[t] = Wiped /\ row'[t] = row[t]
    OBVIOUS
  <2> QED BY <2>1, <2>2 DEF Keys, Inv
<1>5. \A t \in Token, q \in Proc : lock'[t] = q => q # p /\ lock[t] = q
  BY <1>1, WorkerAssumption
<1>6. Locks'
  BY <1>2, <1>5 DEF Locks, Inv, Bystander
<1>7. ASSUME NEW q \in Proc PROVE Refresher(q)'
  <2>1. CASE q = p
    <3>1. pc'[p] = "idle"
      BY DoneFrame
    <3> QED BY <2>1, <3>1 DEF Refresher, Held
  <2>2. CASE q # p
    <3>1. \A t \in Token : lock[t] = q =>
              /\ lock'[t] = q /\ (row'[t].live <=> row[t].live)
              /\ row'[t].secret = row[t].secret /\ issuer'[t] \in {issuer[t], Dead}
      BY <1>1, <2>2
    <3>2. \A t \in Token : issuer[t] # Wiped => issuer'[t] # Wiped
      OBVIOUS
    <3> QED BY <1>2, <2>2, <3>1, <3>2, BystanderKeeps
  <2> QED BY <2>1, <2>2
<1>8. ASSUME NEW t \in Token PROVE Current(t)'
  <2>1. CASE lock[t] # p
    <3>1. /\ row'[t] = row[t] /\ issuer'[t] = issuer[t] /\ Current(t)
          /\ (t \in lost => t \in lost')
      BY <2>1 DEF Inv
    <3>2. \A q \in Proc : lock[t] = q /\ pc[q] = "committing" =>
              lock'[t] = q /\ pc'[q] = "committing" /\ draft'[q] = draft[q]
      <4> SUFFICES ASSUME NEW q \in Proc, lock[t] = q, pc[q] = "committing"
                   PROVE  lock'[t] = q /\ pc'[q] = "committing" /\ draft'[q] = draft[q]
        OBVIOUS
      <4>1. q # p /\ lock'[t] = q
        BY <1>1, <2>1
      <4> QED BY <4>1, <1>2 DEF Bystander
    <3> QED BY <3>1, <3>2, StillCurrent
  <2> QED BY <2>1
<1>9. Lasting
  BY DEF Lasting, Known
<1> QED BY <1>2, <1>4, <1>6, <1>7, <1>8, <1>9 DEF Inv

\* What the holder of a lock knows.
LEMMA HolderKnows ==
    ASSUME Inv, NEW p \in Proc
    PROVE  /\ on[p] \in Token
           /\ \A t \in Token : lock[t] = p =>
                 /\ t = on[p] /\ pc[p] \in Held /\ issuer[t] # Wiped
                 /\ pc[p] = "committing" => /\ row[t].secret # Wiped /\ (draft[p].live => row[t].live)
                                            /\ draft[p].secret = issuer[t] \/ issuer[t] = Dead
           /\ pc[p] \in Held => lock[on[p]] = p
<1>1. Refresher(p) /\ on[p] \in Token
  BY DEF Inv, Tables
<1> QED BY <1>1 DEF Inv, Locks, Refresher, Held

LEMMA CommitKeeps ==
    ASSUME Inv, NEW p \in Proc, CommitRefresh(p)
    PROVE  Inv' /\ Lasting
<1>0. PICK k \in Token : k = on[p]
  BY DEF Inv, Tables
<1>1. /\ Release(p) /\ Done(p) /\ UNCHANGED <<issuer, tasks, lost>> /\ pc[p] = "committing"
      /\ row' = [row EXCEPT ![k] = draft[p]] /\ Tables
  BY <1>0 DEF CommitRefresh, history, Inv
<1>2. /\ k \in Token /\ lock[k] = p /\ issuer[k] # Wiped /\ row[k].secret # Wiped
      /\ draft[p].live => row[k].live
      /\ draft[p].secret = issuer[k] \/ issuer[k] = Dead
      /\ \A t \in Token : lock[t] = p => t = k
  BY <1>0, <1>1, HolderKnows DEF Held
<1>3. row' \in [Token -> Row] /\ row'[k] = draft[p] /\ \A t \in Token \ {k} : row'[t] = row[t]
  BY <1>0, <1>1, <1>2 DEF Tables
<1>4. Current(k)'
  BY <1>0, <1>1, <1>2, <1>3 DEF Current
<1>5. \A t \in Token : lock[t] # p => row'[t] = row[t] /\ issuer'[t] = issuer[t]
  BY <1>0, <1>1, <1>2, <1>3
<1>6. \A t \in Token : lock[t] = p =>
         /\ issuer[t] # Wiped /\ issuer'[t] # Wiped /\ Current(t)'
         /\ row'[t].live => row[t].live
         /\ row[t].secret = Wiped => row'[t].secret = Wiped
  BY <1>0, <1>1, <1>2, <1>3, <1>4
<1> QED BY <1>0, <1>1, <1>3, <1>5, <1>6, LeaveStep DEF Tables

\* An end of the request that commits nothing.
LEMMA DropKeeps ==
    ASSUME Inv, NEW p \in Proc, Release(p), Done(p), UNCHANGED <<row, tasks>>,
           issuer' \in [Token -> Secret \cup {Wiped, Dead}], lost \subseteq lost', lost' \subseteq Token,
           \A t \in Token : \/ issuer'[t] = issuer[t]
                            \/ lock[t] = p /\ issuer'[t] # Wiped /\ t \in lost',
           \A t \in Token : lock[t] = p /\ pc[p] = "committing" =>
               row[t].secret = issuer[t] \/ t \in lost'
    PROVE  Inv' /\ Lasting
<1>1. Tables
  BY DEF Inv
<1>2. ASSUME NEW t \in Token, lock[t] = p
      PROVE  issuer[t] # Wiped /\ issuer'[t] # Wiped /\ Current(t)'
  <2>1. issuer[t] # Wiped /\ Current(t)
    BY <1>2, HolderKnows DEF Inv
  <2>2. CASE t \in lost'
    BY <2>1, <2>2 DEF Current
  <2>3. CASE t \notin lost'
    <3>1. /\ issuer'[t] = issuer[t] /\ t \notin lost
          /\ row[t].live =>
                \/ row[t].secret \in {issuer[t], Wiped} \/ issuer[t] = Dead
                \/ pc[p] = "committing"
      BY <1>2, <2>1, <2>3 DEF Current, Holds
    <3> QED BY <1>2, <2>1, <2>3, <3>1 DEF Current
  <2> QED BY <2>1, <2>2, <2>3
<1> QED BY <1>1, <1>2, LeaveStep DEF Tables

LEMMA EndingKeeps ==
    ASSUME Inv, NEW p \in Proc,
           RollBack(p) \/ WorkerDies(p) \/ \E g \in Secret \cup {Dead} : ReplyLost(p, g)
    PROVE  Inv' /\ Lasting
<1>1. /\ Tables /\ Release(p) /\ Done(p) /\ UNCHANGED <<row, tasks>>
      /\ on[p] \in Token /\ \A t \in Token : lock[t] = p => t = on[p]
      /\ pc[p] \in Held => lock[on[p]] = p
  BY HolderKnows DEF RollBack, WorkerDies, ReplyLost, store, Inv
<1>2. CASE RollBack(p)
  <2>1. UNCHANGED <<issuer, lost>> /\ pc[p] = "rolling"
    BY <1>2 DEF RollBack, history
  <2> QED BY <1>1, <2>1, DropKeeps DEF Tables
<1>3. CASE WorkerDies(p)
  <2>1. /\ issuer' = issuer
        /\ lost' = IF pc[p] = "committing" /\ row[on[p]].secret # issuer[on[p]]
                   THEN lost \cup {on[p]} ELSE lost
    BY <1>3 DEF WorkerDies
  <2>2. lost \subseteq lost' /\ lost' \subseteq Token
    BY <1>1, <2>1 DEF Tables
  <2>3. \A t \in Token : lock[t] = p /\ pc[p] = "committing" =>
            row[t].secret = issuer[t] \/ t \in lost'
    BY <1>1, <2>1
  <2> QED BY <1>1, <2>1, <2>2, <2>3, DropKeeps DEF Tables
<1>4. ASSUME NEW g \in Secret \cup {Dead}, ReplyLost(p, g) PROVE Inv' /\ Lasting
  <2>1. PICK k \in Token : k = on[p]
    BY <1>1
  <2>2. /\ pc[p] = "asking" /\ issuer' = [issuer EXCEPT ![k] = g]
        /\ lost' = IF g # issuer[k] THEN lost \cup {k} ELSE lost
    BY <1>4, <2>1 DEF ReplyLost
  <2>3. g # Wiped /\ issuer' \in [Token -> Secret \cup {Wiped, Dead}]
    BY <1>1, <2>2, Numbers DEF Tables
  <2>4. lost \subseteq lost' /\ lost' \subseteq Token
    BY <1>1, <2>2 DEF Tables
  <2>5. issuer'[k] = g /\ \A t \in Token \ {k} : issuer'[t] = issuer[t]
    BY <1>1, <2>2 DEF Tables
  <2>6. lock[k] = p
    BY <1>1, <2>1, <2>2 DEF Held
  <2>7. \A t \in Token : \/ issuer'[t] = issuer[t]
                         \/ lock[t] = p /\ issuer'[t] # Wiped /\ t \in lost'
    BY <2>2, <2>3, <2>5, <2>6
  <2> QED BY <1>1, <2>2, <2>3, <2>4, <2>7, DropKeeps
<1> QED BY <1>2, <1>3, <1>4

-----------------------------------------------------------------------------
(* The theorems                                                            *)

LEMMA InitInv == Init => Inv
<1> SUFFICES ASSUME Init PROVE Inv
  OBVIOUS
<1>1. /\ \A t \in Token : row[t] = Unminted /\ issuer[t] = Wiped /\ lock[t] = Nobody
      /\ \A p \in Proc : pc[p] = "idle"
  BY DEF Init
<1>2. Tables
  BY FirstKey, EmptyRow DEF Init, Tables, Step
<1>3. Keys
  <2>1. Known = 1..0
    BY <1>1 DEF Known
  <2>2. \A t \in Token : ~row[t].live /\ row[t].secret = Wiped
    BY <1>1 DEF Unminted
  <2> QED BY <2>1, <2>2 DEF Keys
<1>4. Lists /\ Locks
  BY <1>1, WorkerAssumption DEF Lists, Locks, Severing
<1>5. \A p \in Proc : Refresher(p)
  BY <1>1 DEF Refresher, Held
<1>6. \A t \in Token : Current(t)
  BY <1>1 DEF Current, Unminted
<1> QED BY <1>2, <1>3, <1>4, <1>5, <1>6 DEF Inv

LEMMA StepInv == Inv /\ [Next]_vars => Inv' /\ [Lasting]_vars
<1> SUFFICES ASSUME Inv, [Next]_vars PROVE Inv' /\ [Lasting]_vars
  OBVIOUS
<1>1. CASE UNCHANGED vars
  <2>1. UNCHANGED <<row, issuer, lock, pc, on, draft, todo, tasks, lost>>
    BY <1>1 DEF vars
  <2>2. Tables' /\ Keys' /\ Lists' /\ Locks'
    BY <2>1 DEF Inv, Tables, Keys, Known, Lists, Locks
  <2>3. \A p \in Proc : Refresher(p)'
    BY <2>1 DEF Inv, Refresher
  <2>4. \A t \in Token : Current(t)'
    BY <2>1 DEF Inv, Current, Holds
  <2> QED BY <1>1, <2>2, <2>3, <2>4 DEF Inv
<1>2. CASE Surroundings
  BY <1>2, SurroundKeeps
<1>3. ASSUME NEW p \in Proc, LoginStep(p) PROVE Inv' /\ Lasting
  BY <1>3, LoginKeeps, MintKeeps DEF LoginStep
<1>4. ASSUME NEW p \in Proc, RefreshStep(p) PROVE Inv' /\ Lasting
  BY <1>4, SelectKeeps, LockKeeps, RejectKeeps, CommitKeeps, EndingKeeps, AnswerKeeps DEF RefreshStep
<1>5. ASSUME NEW p \in Proc, SeverStep(p) PROVE Inv' /\ Lasting
  BY <1>5, SeverKeeps
<1>6. ASSUME NEW p \in Proc, WorkerDies(p) PROVE Inv' /\ Lasting
  BY <1>6, EndingKeeps
<1> QED BY <1>1, <1>2, <1>3, <1>4, <1>5, <1>6 DEF Next

\* Every reachable state satisfies the inductive invariant.
THEOREM InvHolds == Spec => []Inv
<1> QED BY InitInv, StepInv, PTL DEF Spec

\* Rows, grants, locks, what workers hold and what waits for the issuer keep
\* their types.
THEOREM TypesHold == Spec => []Tables
<1>1. Inv => Tables
  BY DEF Inv
<1> QED BY <1>1, InvHolds, PTL

\* A live token holds the secret the issuer honours, but for the exceptions
\* SecretCurrent names: refreshes that race never lose a rotated one.
THEOREM SecretStaysCurrent == Spec => []SecretCurrent
<1>1. Inv => SecretCurrent
  BY DEF Inv, Current, SecretCurrent, Live
<1> QED BY <1>1, InvHolds, PTL

\* A revoked token never returns and a wiped secret is never written again,
\* whatever refresh was under way when it was erased.
THEOREM ErasureIsFinal == Spec => ErasedStaysErased
<1>1. Inv /\ [Next]_vars => [\A t \in Known : /\ row'[t].live => row[t].live
                                              /\ row[t].secret = Wiped => row'[t].secret = Wiped]_vars
  <2> SUFFICES ASSUME Inv, Next, ~ UNCHANGED vars
               PROVE  \A t \in Known : /\ row'[t].live => row[t].live
                                       /\ row[t].secret = Wiped => row'[t].secret = Wiped
    OBVIOUS
  <2>1. Lasting
    BY StepInv
  <2> QED BY <2>1 DEF Lasting
<1> QED BY <1>1, InvHolds, PTL DEF Spec, ErasedStaysErased
=============================================================================
