------------------------------ MODULE RaffleDraw ------------------------------
(***************************************************************************)
(* One contest of the raffle (apps/raffle): awards earn ticket numbers,    *)
(* closing freezes the pool, a draw commits to a seed against a frozen     *)
(* pool and walks the seed's hash chain over it, winners may forfeit to a  *)
(* replacement from the same chain, and a director may redraw.             *)
(*                                                                         *)
(* A process is a worker serving one request or beat.  What a request      *)
(* reads before a lock or in an earlier transaction is a step of its own.  *)
(* A forfeit holds the row locks of the result and of its draw (its SELECT *)
(* ... FOR UPDATE joins the draw) from its first step to its commit.       *)
(*                                                                         *)
(* A seed is the hash chain it yields: the rolls of its first links, after *)
(* which the model starts over.                                            *)
(***************************************************************************)
EXTENDS Totals, Sequences

CONSTANTS
    Award,      \* primary keys of the ledger's awards, in the order they are earned
    Pilot,
    OwnerOf,    \* the pilot of an award
    Amount,     \* its tickets
    Earned,     \* what a sweep gives: approved, or pending under officer review
    Prizes,     \* number of ticket prizes, by rank
    OnePer,     \* one_prize_per_pilot
    Seeds,      \* hash chains: sequences of rolls
    Budget,     \* rolls tried for a prize before the fallback (2 * total + 10000 in the code)
    Proc,       \* workers
    Serves,     \* bound: the workers that serve a request
    Moves,      \* bound: the status changes an officer or the beat makes
    Verdicts,   \* bound: what a review sets an award to
    Fickle,     \* bound: the pilots whose eligibility changes
    MaxDraws, MaxPools, MaxResults,  \* bounds: rows of the three tables
    Nobody      \* no worker

Request == {"sweep", "grant", "review", "move", "prepare", "run", "redraw", "forfeit"}
Transitions == {<<"active", "closed">>, <<"active", "cancelled">>, <<"closed", "completed">>,
                <<"closed", "active">>, <<"closed", "cancelled">>,
                <<"completed", "archived">>, <<"archived", "completed">>}

EntryStatus == {"pending", "approved", "excluded", "disqualified", "reversed"}

ASSUME AwardAssumption == /\ IsFiniteSet(Award) /\ Award = 1..Cardinality(Award)
                          /\ Earned \in {"approved", "pending"}
                          /\ OwnerOf \in [Award -> Pilot] /\ Amount \in [Award -> Nat \ {0}]
ASSUME DrawAssumption == /\ Prizes \in Nat /\ Budget \in Nat \ {0} /\ OnePer \in BOOLEAN
                         /\ Seeds \subseteq Seq(Nat) \ {<<>>}
ASSUME WorkerAssumption == /\ Serves \in [Request -> SUBSET Proc] /\ Nobody \notin Proc
                           /\ Moves \subseteq Transitions
                           /\ Verdicts \subseteq EntryStatus /\ Fickle \subseteq Pilot
ASSUME BoundAssumption == MaxDraws \in Nat /\ MaxPools \in Nat /\ MaxResults \in Nat

VARIABLES
    contest,    \* RaffleContest.status
    nextNo,     \* RaffleContest.next_ticket_number
    ledger,     \* RaffleTicketLedgerEntry rows: status and ticket_start
    pools,      \* RaffleTicketPoolSnapshot rows by version; the last is current
    draws,      \* RaffleDraw rows
    results,    \* RaffleDrawResult rows
    eligible,   \* pilots eligible at the moment: enrolled, in the corp, token valid
    drawLock,   \* which worker's transaction holds a draw's row lock
    running,    \* the cache's raffle:draw:lock
    pc, mem     \* a worker's step and what it has read

book == <<contest, nextNo, ledger, pools>>
drawn == <<draws, results>>
locks == <<drawLock, running>>
vars == <<contest, nextNo, ledger, pools, draws, results, eligible, drawLock, running, pc, mem>>

\* From activation on: a draft or scheduled contest has no awards.
Status == {"active", "closed", "completed", "archived", "cancelled"}
FrozenStatus == {"closed", "completed", "archived"}
DrawStatus == {"committed", "completed", "failed"}
Unnumbered == 0
Blank == [frozen |-> FALSE, draw |-> 0, result |-> 0, pos |-> 0, barred |-> {}]

Step == {"idle", "sweeping", "numbering", "granting", "reviewing", "drawing", "preparing",
         "executing", "finishing", "redrawing", "forfeiting"}
Goto(p, step) == pc' = [pc EXCEPT ![p] = step]
Done(p) == Goto(p, "idle") /\ mem' = [mem EXCEPT ![p] = Blank]
Keep(p, step, m) == Goto(p, step) /\ mem' = [mem EXCEPT ![p] = m]
Asked(p, request) == pc[p] = "idle" /\ p \in Serves[request]

Frozen == contest \in FrozenStatus
Born == {a \in Award : ledger[a].status # "unborn"}
NextAward == Cardinality(Born) + 1
Version == Len(pools)

Init ==
    /\ contest = "active" /\ nextNo = 1
    /\ ledger = [a \in Award |-> [status |-> "unborn", start |-> Unnumbered]]
    /\ pools = <<>> /\ draws = <<>> /\ results = <<>>
    /\ eligible = Pilot
    /\ drawLock = [d \in 1..MaxDraws |-> Nobody]
    /\ running = Nobody
    /\ pc = [p \in Proc |-> "idle"]
    /\ mem = [p \in Proc |-> Blank]

-----------------------------------------------------------------------------
(* Ticket numbers                                                          *)

Tickets(as) == Total([a \in as |-> Amount[a]])

\* Mutant: the range of a reversed award is handed out again.
ReclaimNumbers(lg, next) ==
    LET live == {a \in Award : lg[a].status = "approved" /\ lg[a].start # Unnumbered}
        first == 1 + Tickets(live)
        new == {a \in Award : lg[a].status # "unborn" /\ lg[a].start = Unnumbered}
    IN  [ledger |-> [a \in Award |-> IF a \in new
                     THEN [lg[a] EXCEPT !.start = first + Tickets({b \in new : b < a})] ELSE lg[a]],
         next |-> first + Tickets(new)]
\* assign_ticket_numbers, under the contest's lock: every award without a
\* number takes the next range, in the order of the ledger's keys.
Number(lg, next) ==
    LET new == {a \in Award : lg[a].status # "unborn" /\ lg[a].start = Unnumbered}
    IN  [ledger |-> [a \in Award |-> IF a \in new
                     THEN [lg[a] EXCEPT !.start = next + Tickets({b \in new : b < a})] ELSE lg[a]],
         next |-> next + Tickets(new)]

\* process_source reads an active contest and its events,
BeginSweep(p) ==
    /\ Asked(p, "sweep") /\ contest = "active"
    /\ Goto(p, "sweeping")
    /\ UNCHANGED <<book, drawn, eligible, locks, mem>>

\* inserts an award for an event that has none,
SweepAward(p) ==
    /\ pc[p] = "sweeping" /\ NextAward \in Award /\ OwnerOf[NextAward] \in eligible
    /\ ledger' = [ledger EXCEPT ![NextAward].status = Earned]
    /\ Goto(p, "numbering")
    /\ UNCHANGED <<contest, nextNo, pools, drawn, eligible, locks, mem>>

\* and numbers what has no number.
SweepNumbers(p) ==
    /\ pc[p] = "numbering"
    /\ ledger' = Number(ledger, nextNo).ledger /\ nextNo' = Number(ledger, nextNo).next
    /\ Done(p)
    /\ UNCHANGED <<contest, pools, drawn, eligible, locks>>

\* grant_manual_tickets: refused on a contest read as frozen.
BeginGrant(p) ==
    /\ Asked(p, "grant") /\ ~Frozen
    /\ Goto(p, "granting")
    /\ UNCHANGED <<book, drawn, eligible, locks, mem>>

GrantTickets(p) ==
    /\ pc[p] = "granting" /\ NextAward \in Award /\ OwnerOf[NextAward] \in eligible
    /\ LET born == [ledger EXCEPT ![NextAward].status = "approved"] IN
         /\ ledger' = Number(born, nextNo).ledger /\ nextNo' = Number(born, nextNo).next
    /\ Done(p)
    /\ UNCHANGED <<contest, pools, drawn, eligible, locks>>

-----------------------------------------------------------------------------
(* The frozen pool                                                         *)

\* A pool lists the approved awards by ticket_start; draw space is contiguous.
PoolOf(lg) == [entries |-> {a \in Award : lg[a].status = "approved" /\ lg[a].start # Unnumbered},
               start |-> [a \in Award |-> lg[a].start]]
Size(pool) == Tickets(pool.entries)
Before(pool, a) == {b \in pool.entries : pool.start[b] < pool.start[a]}
DrawStart(pool, a) == Tickets(Before(pool, a))

\* resolve_offset: the award that occupies an offset of draw space.
HitAward(pool, o) ==
    CHOOSE a \in pool.entries : DrawStart(pool, a) <= o /\ o < DrawStart(pool, a) + Amount[a]
TicketNo(pool, o) == LET a == HitAward(pool, o) IN pool.start[a] + (o - DrawStart(pool, a))
OwnerAt(pool, o) == OwnerOf[HitAward(pool, o)]

\* freeze_pool numbers first, then supersedes the current version.
Freeze ==
    LET n == Number(ledger, nextNo) IN
    /\ Version < MaxPools
    /\ ledger' = n.ledger /\ nextNo' = n.next
    /\ pools' = Append(pools, PoolOf(n.ledger))

\* set_status, under the contest's lock: closing freezes the pool.
MoveContest(p, to) ==
    /\ Asked(p, "move") /\ <<contest, to>> \in Moves
    /\ contest' = to
    /\ IF to = "closed" THEN Freeze ELSE UNCHANGED <<nextNo, ledger, pools>>
    /\ UNCHANGED <<drawn, eligible, locks, pc, mem>>

\* set_entry_status and reverse_entry read the contest, refuse a frozen one
\* unless the change is a declared correction,
BeginReview(p) ==
    /\ Asked(p, "review")
    /\ Keep(p, "reviewing", [Blank EXCEPT !.frozen = Frozen])
    /\ UNCHANGED <<book, drawn, eligible, locks>>

Stale(ds) == [d \in DOMAIN ds |-> IF ds[d].status = "committed"
                                  THEN [ds[d] EXCEPT !.status = "failed"] ELSE ds[d]]

\* lock the entry and set it; a correction freezes a new pool and fails the
\* draws committed against the old one.
ReviewEntry(p, a, status) ==
    /\ pc[p] = "reviewing" /\ ledger[a].status \notin {"unborn", "reversed"}
    /\ LET set == [ledger EXCEPT ![a].status = status] IN
         IF mem[p].frozen
         THEN /\ Version < MaxPools
              /\ ledger' = Number(set, nextNo).ledger /\ nextNo' = Number(set, nextNo).next
              /\ pools' = Append(pools, PoolOf(ledger'))
              /\ draws' = Stale(draws)
         ELSE ledger' = set /\ UNCHANGED <<nextNo, pools, draws>>
    /\ Done(p)
    /\ UNCHANGED <<contest, results, eligible, locks>>

-----------------------------------------------------------------------------
(* The walk over the hash chain                                            *)

Smallest(S) == CHOOSE i \in S : \A j \in S : i <= j
Roll(seed, i, n) == seed[(i % Len(seed)) + 1] % n
Owners(pool) == {OwnerOf[a] : a \in pool.entries}

\* The first roll at or after pos, within the budget, that falls to an able pilot.
Hits(pool, seed, pos, able) ==
    {i \in pos..(pos + Budget - 1) : OwnerAt(pool, Roll(seed, i, Size(pool))) \in able}
Hit(pool, seed, i) ==
    LET o == Roll(seed, i, Size(pool))
    IN  [who |-> OwnerAt(pool, o), ticket |-> TicketNo(pool, o), pos |-> i]

\* The budget spent: one roll among the tickets that may still win.
Fallback(pool, seed, i, able) ==
    LET left == [pool EXCEPT !.entries = {a \in @ : OwnerOf[a] \in able}]
        o == Roll(seed, i, Size(left))
    IN  [who |-> OwnerAt(left, o), ticket |-> TicketNo(left, o), pos |-> i]

\* execute_draw's loop over the prizes, by rank: nobody left, no more winners.
Able(pool, elig, won) ==
    (Owners(pool) \cap elig) \ (IF OnePer THEN {won[j].who : j \in DOMAIN won} ELSE {})
NextPrize(pool, seed, elig, before) ==
    LET can == Able(pool, elig, before.won)
        hits == Hits(pool, seed, before.pos, can)
        hit == IF hits # {} THEN Hit(pool, seed, Smallest(hits))
               ELSE Fallback(pool, seed, before.pos + Budget, can)
    IN  IF can = {} THEN before
        ELSE [pos |-> hit.pos + 1, won |-> Append(before.won, hit)]
Drawn(pool, seed, elig) ==
    LET walk[k \in 0..Prizes] == IF k = 0 THEN [pos |-> 0, won |-> <<>>]
                                 ELSE NextPrize(pool, seed, elig, walk[k - 1])
    IN  walk[Prizes]

-----------------------------------------------------------------------------
(* Draws                                                                   *)

Current(ds) == {d \in DOMAIN ds : ds[d].status = "completed" /\ ds[d].superseded = 0}
Latest(S) == CHOOSE d \in S \cup {0} : \A e \in S : e <= d
Committed == {d \in DOMAIN draws : draws[d].status = "committed"}
LiveOf(rs, d) == {r \in DOMAIN rs : rs[r].draw = d /\ rs[r].status = "won"}

NewDraw(seed, version) ==
    [status |-> "committed", pool |-> version, seed |-> seed, superseded |-> 0, pos |-> 0]

\* prepare_draw: supersedes the commitments, freezes a pool if there is none.
Prepare(seed) ==
    /\ Len(draws) < MaxDraws
    /\ IF pools = <<>> THEN Freeze ELSE UNCHANGED <<nextNo, ledger, pools>>
    /\ draws' = Append(Stale(draws), NewDraw(seed, AtLeast(Version, 1)))

\* execute_draw, under the draw's row lock: only a committed draw.
Executed(d, ds, rs) ==
    LET out == Drawn(pools'[ds[d].pool], ds[d].seed, eligible)
        row(k) == [draw |-> d, prize |-> k, who |-> out.won[k].who, ticket |-> out.won[k].ticket,
                   pos |-> out.won[k].pos, status |-> "won", replaces |-> 0]
    IN  IF ds[d].status # "committed" THEN [draws |-> ds, results |-> rs]
        ELSE [draws |-> [ds EXCEPT ![d].status = "completed", ![d].pos = out.pos],
              results |-> rs \o [k \in DOMAIN out.won |-> row(k)]]

\* The director's console prepares a draw whatever the contest's status.
PrepareDraw(p, seed) ==
    /\ Asked(p, "prepare") /\ Prepare(seed)
    /\ UNCHANGED <<contest, results, eligible, locks, pc, mem>>

\* run_draw: a closed contest, and the cache's lock.
BeginRun(p) ==
    /\ Asked(p, "run") /\ contest \in {"closed", "completed"}
    /\ running = Nobody /\ running' = p
    /\ Goto(p, "drawing")
    /\ UNCHANGED <<book, drawn, eligible, drawLock, mem>>

\* A contest that has a current draw is not drawn again; a commitment against
\* a pool that is no longer current is discarded.
CheckDraws(p) ==
    /\ pc[p] = "drawing"
    /\ LET d == Latest(Committed) IN
       \/ Current(draws) # {} /\ Done(p) /\ running' = Nobody /\ UNCHANGED draws
       \/ /\ Current(draws) = {} /\ d # 0 /\ draws[d].pool = Version
          /\ Keep(p, "executing", [Blank EXCEPT !.draw = d]) /\ UNCHANGED <<draws, running>>
       \/ /\ Current(draws) = {} /\ d # 0 /\ draws[d].pool # Version
          /\ draws' = [draws EXCEPT ![d].status = "failed"]
          /\ Goto(p, "preparing") /\ UNCHANGED <<running, mem>>
       \/ /\ Current(draws) = {} /\ d = 0
          /\ Goto(p, "preparing") /\ UNCHANGED <<draws, running, mem>>
    /\ UNCHANGED <<book, results, eligible, drawLock>>

PrepareRun(p, seed) ==
    /\ pc[p] = "preparing" /\ Prepare(seed)
    /\ Keep(p, "executing", [Blank EXCEPT !.draw = Len(draws')])
    /\ UNCHANGED <<contest, results, eligible, locks>>

ExecuteRun(p) ==
    LET d == mem[p].draw IN
    /\ pc[p] = "executing" /\ drawLock[d] = Nobody /\ Len(results) + Prizes <= MaxResults
    /\ UNCHANGED book
    /\ draws' = Executed(d, draws, results).draws
    /\ results' = Executed(d, draws, results).results
    /\ Goto(p, "finishing")
    /\ UNCHANGED <<eligible, locks, mem>>

\* A completed draw completes the contest it read as closed; the lock is freed.
FinishRun(p) ==
    /\ pc[p] = "finishing"
    /\ contest' = IF draws[mem[p].draw].status = "completed" /\ contest = "closed"
                  THEN "completed" ELSE contest
    /\ running' = Nobody
    /\ Done(p)
    /\ UNCHANGED <<nextNo, ledger, pools, drawn, eligible, drawLock>>

\* redraw reads the current draw without a lock,
BeginRedraw(p) ==
    /\ Asked(p, "redraw")
    /\ Keep(p, "redrawing", [Blank EXCEPT !.draw = Latest(Current(draws))])
    /\ UNCHANGED <<book, drawn, eligible, locks>>

\* and in one transaction prepares a draw, supersedes the one it read with its
\* live results, and executes the new one.
Supersede(ds, old, new) == IF old = 0 THEN ds ELSE [ds EXCEPT ![old].superseded = new]
Redrawn(rs, old) ==
    [r \in DOMAIN rs |-> IF r \in LiveOf(rs, old) THEN [rs[r] EXCEPT !.status = "redrawn"] ELSE rs[r]]

CommitRedraw(p, seed) ==
    LET old == mem[p].draw
        new == Len(draws) + 1
        prepared == Supersede(Append(Stale(draws), NewDraw(seed, AtLeast(Version, 1))), old, new)
        done == Executed(new, prepared, Redrawn(results, old))
    IN
    /\ pc[p] = "redrawing" /\ Len(draws) < MaxDraws /\ Len(results) + Prizes <= MaxResults
    /\ old # 0 => drawLock[old] = Nobody
    /\ IF pools = <<>> THEN Freeze ELSE UNCHANGED <<nextNo, ledger, pools>>
    /\ draws' = done.draws /\ results' = done.results
    /\ Done(p)
    /\ UNCHANGED <<contest, eligible, locks>>

-----------------------------------------------------------------------------
(* Forfeits and replacements                                               *)

\* Mutant: the lock on the result does not extend to its draw.
ResultAlone(held, d) == FALSE
\* The row lock of a forfeit's SELECT ... FOR UPDATE covers the joined draw.
DrawHeld(held, d) == held[d] # Nobody

\* Mutant: only the pilot who forfeits is barred.
ForfeiterAlone(r) == {results[r].who}
\* Who may not win the replacement.
Barred(r) == {results[r].who} \cup
             (IF OnePer THEN {results[s].who : s \in LiveOf(results, results[r].draw) \ {r}} ELSE {})

\* forfeit_result locks the result with its draw and reads both,
BeginForfeit(p, r) ==
    LET d == results[r].draw IN
    /\ Asked(p, "forfeit") /\ results[r].status = "won"
    /\ ~DrawHeld(drawLock, d)
    /\ \A q \in Proc : pc[q] = "forfeiting" => mem[q].result # r
    /\ drawLock' = [drawLock EXCEPT ![d] = p]
    /\ Keep(p, "forfeiting", [Blank EXCEPT !.result = r, !.draw = d, !.pos = draws[d].pos,
                                           !.barred = Barred(r)])
    /\ UNCHANGED <<book, drawn, eligible, running>>

\* and commits the forfeit with, if asked, a replacement further down the chain.
Forfeit(p, replace) ==
    LET r == mem[p].result
        d == mem[p].draw
        pool == pools[draws[d].pool]
        hits == Hits(pool, draws[d].seed, mem[p].pos, (Owners(pool) \cap eligible) \ mem[p].barred)
        i == Smallest(hits)
        hit == Hit(pool, draws[d].seed, i)
        out == [results EXCEPT ![r].status = "forfeited"]
    IN
    /\ pc[p] = "forfeiting" /\ Len(results) < MaxResults
    /\ results' = IF replace /\ hits # {}
                  THEN Append(out, [draw |-> d, prize |-> results[r].prize, who |-> hit.who,
                                    ticket |-> hit.ticket, pos |-> i, status |-> "won",
                                    replaces |-> r])
                  ELSE out
    /\ draws' = IF ~replace THEN draws
                ELSE [draws EXCEPT ![d].pos = IF hits # {} THEN i + 1 ELSE mem[p].pos + Budget]
    /\ drawLock' = [drawLock EXCEPT ![d] = Nobody]
    /\ Done(p)
    /\ UNCHANGED <<book, eligible, running>>

\* A token dies or comes back, a pilot leaves the corporation, is excluded.
Eligibility(pilot) ==
    /\ eligible' = IF pilot \in eligible THEN eligible \ {pilot} ELSE eligible \cup {pilot}
    /\ UNCHANGED <<book, drawn, locks, pc, mem>>

Next ==
    \/ \E p \in Proc :
          \/ BeginSweep(p) \/ SweepAward(p) \/ SweepNumbers(p) \/ BeginGrant(p) \/ GrantTickets(p)
          \/ \E to \in Status : MoveContest(p, to)
          \/ BeginReview(p)
          \/ \E a \in Award, status \in Verdicts : ReviewEntry(p, a, status)
          \/ \E seed \in Seeds : PrepareDraw(p, seed) \/ PrepareRun(p, seed) \/ CommitRedraw(p, seed)
          \/ BeginRun(p) \/ CheckDraws(p) \/ ExecuteRun(p) \/ FinishRun(p)
          \/ BeginRedraw(p)
          \/ \E r \in DOMAIN results : BeginForfeit(p, r)
          \/ \E replace \in BOOLEAN : Forfeit(p, replace)
    \/ \E pilot \in Fickle : Eligibility(pilot)

Spec == Init /\ [][Next]_vars

-----------------------------------------------------------------------------
(* Properties                                                              *)

NumbersOf(start, a) == start..(start + Amount[a] - 1)

\* A ticket number belongs to one award, whatever was reversed since, and a
\* frozen pool gives every award in it the numbers the ledger gives it
\* (assign_ticket_numbers runs in sweeps, grants, closings and corrections).
TicketsOwnedOnce ==
    /\ \A a \in Award, b \in Award :
          a # b /\ ledger[a].start # Unnumbered /\ ledger[b].start # Unnumbered
            => NumbersOf(ledger[a].start, a) \cap NumbersOf(ledger[b].start, b) = {}
    /\ \A v \in DOMAIN pools : \A a \in pools[v].entries : pools[v].start[a] = ledger[a].start

\* A roll of a draw's chain decides at most one of its results, replacements
\* included, and every roll that decided one counts as consumed: two forfeits
\* at once never use the same roll (draw_replacement's rolls_consumed).
ChainUsedOnce ==
    \A r \in DOMAIN results :
       /\ results[r].pos < draws[results[r].draw].pos
       /\ \A s \in DOMAIN results :
             r # s /\ results[r].draw = results[s].draw => results[r].pos # results[s].pos

\* In one draw a prize has one live winner, and under one_prize_per_pilot a
\* pilot one live prize, through any number of forfeits and replacements.
OneWinEach ==
    \A d \in DOMAIN draws : \A r, s \in LiveOf(results, d) :
       r # s => /\ results[r].prize # results[s].prize
                /\ OnePer => results[r].who # results[s].who

=============================================================================
