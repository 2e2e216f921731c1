-------------------------- MODULE RaffleDrawProofs --------------------------
(***************************************************************************)
(* Proofs about RaffleDraw for any awards, pilots, workers, seeds, prizes  *)
(* and reviews: a ticket number belongs to one award, and every frozen     *)
(* pool agrees with the ledger about the numbers of its entries; no roll   *)
(* of a draw's chain decides two results, and a prize has one live winner. *)
(*                                                                         *)
(* assign_ticket_numbers stacks the awards that have no number above the   *)
(* contest's next one, so Inv says that every number given lies below it   *)
(* and that no number, once given, is changed.  Then two entries of a pool *)
(* start at different numbers, every offset of draw space has an owner,    *)
(* and the loop over the prizes, which is recursive, is followed by        *)
(* induction (TotalsProofs).  DrawInv says what else the draws rest on: a  *)
(* draw is executed once, and a forfeit under way holds its draw, so what  *)
(* it read of the chain and of the other winners is still so.              *)
(***************************************************************************)
EXTENDS RaffleDraw, TotalsProofs, SequenceTheorems

Ledger == [Award -> [status : EntryStatus \cup {"unborn"}, start : Nat]]
Pool == [entries : SUBSET Award, start : [Award -> Nat]]
Above(lg, a, b) == lg[a].start + Amount[a] <= lg[b].start
Fair(lg, next) ==
    /\ \A a \in Award : lg[a].status = "unborn" => lg[a].start = Unnumbered
    /\ \A a \in Award : lg[a].start # Unnumbered => lg[a].start + Amount[a] <= next
    /\ \A a, b \in Award : a # b /\ lg[a].start # Unnumbered /\ lg[b].start # Unnumbered
                             => Above(lg, a, b) \/ Above(lg, b, a)
Agrees(pool, lg) ==
    \A a \in pool.entries : lg[a].start # Unnumbered /\ pool.start[a] = lg[a].start

Inv == /\ ledger \in Ledger /\ nextNo \in Nat \ {0} /\ pools \in Seq(Pool)
       /\ Fair(ledger, nextNo)
       /\ \A v \in DOMAIN pools : Agrees(pools[v], ledger)

LEMMA Awards ==
    /\ IsFiniteSet(Award) /\ Amount \in [Award -> Nat \ {0}] /\ Award \subseteq Nat
    /\ \A S \in SUBSET Award : IsFiniteSet(S) /\ [a \in S |-> Amount[a]] \in [S -> Nat]
<1>1. Cardinality(Award) \in Nat
  BY AwardAssumption, FS_CardinalityType
<1>2. Award \subseteq Nat
  BY <1>1, AwardAssumption
<1>3. ASSUME NEW S \in SUBSET Award PROVE IsFiniteSet(S)
  BY AwardAssumption, FS_Subset
<1> QED BY <1>2, <1>3, AwardAssumption

LEMMA TicketsType ==
    ASSUME NEW S \in SUBSET Award
    PROVE  Tickets(S) \in Nat
BY Awards, TotalType DEF Tickets

\* A set of awards with one more has at least that award's tickets more.
LEMMA TicketsGrow ==
    ASSUME NEW S \in SUBSET Award, NEW T \in SUBSET Award, NEW a \in T \ S, S \subseteq T
    PROVE  Tickets(S) + Amount[a] <= Tickets(T)
<1> DEFINE f == [x \in T |-> Amount[x]]
           g == [x \in T \ {a} |-> f[x]]
           h == [x \in S |-> Amount[x]]
<1>1. IsFiniteSet(T) /\ f \in [T -> Nat] /\ h \in [S -> Nat] /\ IsFiniteSet(S)
  BY Awards
<1>2. IsFiniteSet(T \ {a})
  BY <1>1, FS_Subset
<1>3. Total(g) \in Nat /\ Total(f) = Total(g) + f[a]
  BY <1>1, TotalWithout
<1>4. g \in [T \ {a} -> Nat] /\ S \subseteq T \ {a} /\ \A x \in S : h[x] <= g[x]
  <2>1. \A x \in S : h[x] = g[x] /\ h[x] \in Nat
    BY <1>1
  <2> QED BY <1>1, <2>1
<1>5. Total(h) <= Total(g)
  BY <1>1, <1>2, <1>4, TotalWithin
<1>6. Total(h) \in Nat /\ f[a] \in Nat /\ f[a] = Amount[a]
  BY <1>1, TotalType
<1>7. Tickets(T) = Total(f) /\ Tickets(S) = Total(h)
  BY DEF Tickets
<1> HIDE DEF f, g, h
<1> QED BY <1>3, <1>5, <1>6, <1>7

\* Giving numbers keeps those given and gives disjoint ones.
LEMMA NumberGives ==
    ASSUME NEW lg \in Ledger, NEW next \in Nat \ {0}, Fair(lg, next)
    PROVE  /\ Number(lg, next).ledger \in Ledger /\ Number(lg, next).next \in Nat \ {0}
           /\ Fair(Number(lg, next).ledger, Number(lg, next).next)
           /\ \A a \in Award : lg[a].start # Unnumbered => Number(lg, next).ledger[a] = lg[a]
<1> DEFINE new == {a \in Award : lg[a].status # "unborn" /\ lg[a].start = Unnumbered}
           low(a) == {b \in new : b < a}
           to == [a \in Award |-> IF a \in new
                    THEN [lg[a] EXCEPT !.start = next + Tickets(low(a))] ELSE lg[a]]
<1>1. Number(lg, next).ledger = to /\ Number(lg, next).next = next + Tickets(new)
  BY DEF Number
<1>2. new \in SUBSET Award /\ Tickets(new) \in Nat
  BY TicketsType
<1>3. ASSUME NEW a \in Award
      PROVE  low(a) \in SUBSET Award /\ Tickets(low(a)) \in Nat
  BY TicketsType
<1>4. ASSUME NEW a \in new PROVE Tickets(low(a)) + Amount[a] <= Tickets(new)
  <2>0. a \in Award /\ a \in Nat
    BY Awards
  <2>1. a \in Award /\ ~ (a < a)
    BY <2>0
  <2>2. a \in new \ low(a) /\ low(a) \subseteq new
    BY <2>1
  <2> QED BY <1>2, <1>3, <2>1, <2>2, TicketsGrow
<1>5. ASSUME NEW a \in new, NEW b \in new, a < b
      PROVE  Tickets(low(a)) + Amount[a] <= Tickets(low(b))
  <2>1. a \in Award /\ b \in Award /\ a \in Nat /\ b \in Nat /\ \A c \in Award : c \in Nat
    BY Awards
  <2>2. a \in low(b) /\ a \notin low(a)
    BY <2>1, <1>5
  <2>3. low(a) \subseteq low(b)
    <3> SUFFICES ASSUME NEW c \in new, c < a PROVE c < b
      OBVIOUS
    <3>1. c \in Nat
      BY <2>1
    <3> HIDE DEF new
    <3> QED BY <2>1, <3>1, <1>5
  <2> QED BY <1>3, <2>1, <2>2, <2>3, TicketsGrow
<1>6. ASSUME NEW a \in new
      PROVE  /\ to[a].start = next + Tickets(low(a)) /\ to[a].status = lg[a].status
             /\ to[a] \in [status : EntryStatus \cup {"unborn"}, start : Nat]
  <2>1. a \in Award /\ Tickets(low(a)) \in Nat /\ lg[a] \in [status : EntryStatus \cup {"unborn"}, start : Nat]
    BY <1>3 DEF Ledger
  <2>2. to[a] = [lg[a] EXCEPT !.start = next + Tickets(low(a))]
    BY <2>1
  <2> HIDE DEF to, low, new
  <2> QED BY <2>1, <2>2
<1>7. ASSUME NEW a \in Award \ new PROVE to[a] = lg[a]
  OBVIOUS
<1>8. \A a \in new : a \in Award /\ lg[a].status # "unborn" /\ lg[a].start = Unnumbered
  OBVIOUS
<1>9. \A a \in Award : a \in Nat /\ Amount[a] \in Nat /\ lg[a].start \in Nat
  BY Awards DEF Ledger
<1>10. DOMAIN to = Award /\ to = [a \in Award |-> to[a]]
  OBVIOUS
<1>11. \A a \in Award : Tickets(low(a)) \in Nat
  BY <1>3
<1> HIDE DEF to, low, new
<1>12. to \in Ledger
  <2>1. \A a \in Award : to[a] \in [status : EntryStatus \cup {"unborn"}, start : Nat]
    BY <1>6, <1>7 DEF Ledger
  <2> QED BY <2>1, <1>10 DEF Ledger
<1>13. Fair(to, next + Tickets(new))
  <2>1. \A a \in Award : to[a].status = "unborn" => to[a].start = Unnumbered
    BY <1>6, <1>7, <1>8 DEF Fair
  <2>2. ASSUME NEW a \in Award, to[a].start # Unnumbered
        PROVE  to[a].start + Amount[a] <= next + Tickets(new)
    <3>1. CASE a \in new
      BY <3>1, <1>2, <1>4, <1>6, <1>9, <1>11
    <3>2. CASE a \notin new
      BY <3>2, <2>2, <1>2, <1>7, <1>9 DEF Fair
    <3> QED BY <3>1, <3>2
  <2>3. ASSUME NEW a \in Award, NEW b \in Award, a # b,
               to[a].start # Unnumbered, to[b].start # Unnumbered
        PROVE  Above(to, a, b) \/ Above(to, b, a)
    <3>1. CASE a \in new /\ b \in new
      <4>1. a < b \/ b < a
        BY <1>9, <2>3
      <4> QED BY <3>1, <4>1, <1>5, <1>6, <1>9, <1>11 DEF Above
    <3>2. CASE a \in new /\ b \notin new
      <4>1. lg[b].start + Amount[b] <= next /\ to[b] = lg[b]
        BY <3>2, <2>3, <1>7 DEF Fair
      <4> QED BY <3>2, <4>1, <1>6, <1>9, <1>11 DEF Above
    <3>3. CASE a \notin new /\ b \in new
      <4>1. lg[a].start + Amount[a] <= next /\ to[a] = lg[a]
        BY <3>3, <2>3, <1>7 DEF Fair
      <4> QED BY <3>3, <4>1, <1>6, <1>9, <1>11 DEF Above
    <3>4. CASE a \notin new /\ b \notin new
      BY <3>4, <2>3, <1>7 DEF Fair, Above
    <3> QED BY <3>1, <3>2, <3>3, <3>4
  <2> QED BY <2>1, <2>2, <2>3 DEF Fair
<1>14. \A a \in Award : lg[a].start # Unnumbered => to[a] = lg[a]
  BY <1>7, <1>8
<1>15. next + Tickets(new) \in Nat \ {0}
  BY <1>2
<1> QED BY <1>1, <1>12, <1>13, <1>14, <1>15

\* A status changes no number.
LEMMA StatusKeeps ==
    ASSUME Inv, NEW a \in Award, NEW s \in EntryStatus
    PROVE  /\ [ledger EXCEPT ![a].status = s] \in Ledger
           /\ Fair([ledger EXCEPT ![a].status = s], nextNo)
           /\ \A b \in Award : [ledger EXCEPT ![a].status = s][b].start = ledger[b].start
<1> DEFINE lg == [ledger EXCEPT ![a].status = s]
<1>1. ledger \in Ledger /\ s # "unborn" /\ Fair(ledger, nextNo)
  BY DEF Inv, EntryStatus
<1>2. /\ lg \in Ledger
      /\ \A b \in Award : lg[b].start = ledger[b].start
      /\ \A b \in Award : lg[b].status = IF b = a THEN s ELSE ledger[b].status
  BY <1>1 DEF Ledger
<1> HIDE DEF lg
<1>3. Fair(lg, nextNo)
  BY <1>1, <1>2 DEF Fair, Above
<1> QED BY <1>2, <1>3 DEF lg

LEMMA PoolType ==
    ASSUME NEW lg \in Ledger
    PROVE  PoolOf(lg) \in Pool /\ Agrees(PoolOf(lg), lg)
<1>1. \A a \in Award : lg[a].start \in Nat
  BY DEF Ledger
<1>2. [a \in Award |-> lg[a].start] \in [Award -> Nat]
  BY <1>1
<1> QED BY <1>2 DEF PoolOf, Pool, Agrees

\* A step that changes no number given, and freezes the pool or not.
LEMMA BookKeeps ==
    ASSUME Inv, ledger' \in Ledger, nextNo' \in Nat \ {0}, Fair(ledger', nextNo'),
           \A a \in Award : ledger[a].start # Unnumbered => ledger'[a].start = ledger[a].start,
           pools' = pools \/ pools' = Append(pools, PoolOf(ledger'))
    PROVE  Inv'
<1>1. \A v \in DOMAIN pools : Agrees(pools[v], ledger')
  <2> SUFFICES ASSUME NEW v \in DOMAIN pools, NEW a \in pools[v].entries
               PROVE  ledger'[a].start # Unnumbered /\ pools[v].start[a] = ledger'[a].start
    BY DEF Agrees
  <2>1. pools[v] \in Pool
    BY DEF Inv
  <2>2. a \in Award
    BY <2>1 DEF Pool
  <2> QED BY <2>2 DEF Inv, Agrees
<1>2. CASE pools' = pools
  BY <1>1, <1>2 DEF Inv
<1>3. CASE pools' = Append(pools, PoolOf(ledger'))
  <2>1. PoolOf(ledger') \in Pool /\ Agrees(PoolOf(ledger'), ledger')
    BY PoolType
  <2>2. pools \in Seq(Pool)
    BY DEF Inv
  <2> DEFINE new == PoolOf(ledger')
  <2> HIDE DEF new
  <2>3. new \in Pool /\ Agrees(new, ledger') /\ pools' = Append(pools, new)
    BY <1>3, <2>1 DEF new
  <2>4. /\ pools' \in Seq(Pool)
        /\ \A v \in DOMAIN pools' : pools'[v] = new \/ (v \in DOMAIN pools /\ pools'[v] = pools[v])
    BY <2>2, <2>3
  <2>5. \A v \in DOMAIN pools' : Agrees(pools'[v], ledger')
    BY <1>1, <2>3, <2>4
  <2> QED BY <2>4, <2>5 DEF Inv
<1> QED BY <1>2, <1>3

LEMMA NumberKeeps ==
    ASSUME Inv, NEW lg \in Ledger, Fair(lg, nextNo),
           \A a \in Award : lg[a].start = ledger[a].start,
           ledger' = Number(lg, nextNo).ledger, nextNo' = Number(lg, nextNo).next,
           pools' = pools \/ pools' = Append(pools, PoolOf(ledger'))
    PROVE  Inv'
<1>1. nextNo \in Nat \ {0}
  BY DEF Inv
<1>2. /\ ledger' \in Ledger /\ nextNo' \in Nat \ {0} /\ Fair(ledger', nextNo')
      /\ \A a \in Award : lg[a].start # Unnumbered => ledger'[a] = lg[a]
  BY <1>1, NumberGives
<1>3. \A a \in Award : ledger[a].start # Unnumbered => ledger'[a].start = ledger[a].start
  BY <1>2
<1> QED BY <1>2, <1>3, BookKeeps

LEMMA FreezeKeeps ==
    ASSUME Inv, Freeze
    PROVE  Inv'
<1>1. ledger \in Ledger /\ Fair(ledger, nextNo)
  BY DEF Inv
<1>2. /\ ledger' = Number(ledger, nextNo).ledger /\ nextNo' = Number(ledger, nextNo).next
      /\ pools' = Append(pools, PoolOf(ledger'))
  BY DEF Freeze
<1> QED BY <1>1, <1>2, NumberKeeps

LEMMA StepInv == Inv /\ [Next]_vars => Inv'
<1> SUFFICES ASSUME Inv, [Next]_vars PROVE Inv'
  OBVIOUS
<1>1. ASSUME UNCHANGED <<nextNo, ledger, pools>> PROVE Inv'
  BY <1>1 DEF Inv
<1>2. ledger \in Ledger /\ nextNo \in Nat \ {0} /\ Fair(ledger, nextNo)
  BY DEF Inv
<1>3. CASE UNCHANGED vars
  BY <1>1, <1>3 DEF vars
<1>4. ASSUME NEW p \in Proc, SweepAward(p) PROVE Inv'
  <2>1. /\ NextAward \in Award /\ Earned \in EntryStatus /\ UNCHANGED <<nextNo, pools>>
        /\ ledger' = [ledger EXCEPT ![NextAward].status = Earned]
    BY <1>4, AwardAssumption DEF SweepAward, EntryStatus
  <2> QED BY <1>2, <2>1, StatusKeeps, BookKeeps
<1>5. ASSUME NEW p \in Proc, SweepNumbers(p) PROVE Inv'
  <2>1. /\ ledger' = Number(ledger, nextNo).ledger /\ nextNo' = Number(ledger, nextNo).next
        /\ pools' = pools
    BY <1>5 DEF SweepNumbers
  <2> QED BY <1>2, <2>1, NumberKeeps
<1>6. ASSUME NEW p \in Proc, GrantTickets(p) PROVE Inv'
  <2> DEFINE lg == [ledger EXCEPT ![NextAward].status = "approved"]
  <2>1. /\ NextAward \in Award /\ "approved" \in EntryStatus /\ pools' = pools
        /\ ledger' = Number(lg, nextNo).ledger /\ nextNo' = Number(lg, nextNo).next
    BY <1>6 DEF GrantTickets, EntryStatus
  <2>2. lg \in Ledger /\ Fair(lg, nextNo) /\ \A b \in Award : lg[b].start = ledger[b].start
    BY <2>1, StatusKeeps
  <2> HIDE DEF lg
  <2> QED BY <2>1, <2>2, NumberKeeps
<1>7. ASSUME NEW p \in Proc, NEW a \in Award, NEW s \in Verdicts, ReviewEntry(p, a, s) PROVE Inv'
  <2> DEFINE lg == [ledger EXCEPT ![a].status = s]
  <2>1. s \in EntryStatus
    BY WorkerAssumption
  <2>2. lg \in Ledger /\ Fair(lg, nextNo) /\ \A b \in Award : lg[b].start = ledger[b].start
    BY <2>1, StatusKeeps
  <2>3. CASE /\ ledger' = Number(lg, nextNo).ledger /\ nextNo' = Number(lg, nextNo).next
             /\ pools' = Append(pools, PoolOf(ledger'))
    <3> HIDE DEF lg
    <3> QED BY <2>2, <2>3, NumberKeeps
  <2>4. CASE ledger' = lg /\ UNCHANGED <<nextNo, pools>>
    <3> HIDE DEF lg
    <3> QED BY <1>2, <2>2, <2>4, BookKeeps
  <2> QED BY <1>7, <2>3, <2>4 DEF ReviewEntry
<1>8. ASSUME Freeze \/ UNCHANGED <<nextNo, ledger, pools>> PROVE Inv'
  BY <1>1, <1>8, FreezeKeeps
<1>9. ASSUME NEW p \in Proc, NEW to \in Status, MoveContest(p, to) PROVE Inv'
  BY <1>8, <1>9 DEF MoveContest
<1>10. ASSUME NEW p \in Proc, NEW seed \in Seeds,
              PrepareDraw(p, seed) \/ PrepareRun(p, seed) \/ CommitRedraw(p, seed)
       PROVE  Inv'
  BY <1>8, <1>10 DEF PrepareDraw, PrepareRun, CommitRedraw, Prepare
<1>11. ASSUME NEW p \in Proc,
              \/ BeginSweep(p) \/ BeginGrant(p) \/ BeginReview(p) \/ BeginRun(p) \/ CheckDraws(p)
              \/ ExecuteRun(p) \/ FinishRun(p) \/ BeginRedraw(p)
              \/ \E r \in DOMAIN results : BeginForfeit(p, r)
              \/ \E replace \in BOOLEAN : Forfeit(p, replace)
       PROVE  Inv'
  BY <1>1, <1>11 DEF BeginSweep, BeginGrant, BeginReview, BeginRun, CheckDraws, ExecuteRun,
                     FinishRun, BeginRedraw, BeginForfeit, Forfeit, book
<1>12. ASSUME NEW pilot \in Fickle, Eligibility(pilot) PROVE Inv'
  BY <1>1, <1>12 DEF Eligibility, book
<1> QED BY <1>3, <1>4, <1>5, <1>6, <1>7, <1>9, <1>10, <1>11, <1>12 DEF Next

LEMMA InitInv == Init => Inv
<1> SUFFICES ASSUME Init PROVE Inv
  OBVIOUS
<1>1. ledger \in Ledger /\ \A a \in Award : ledger[a].start = Unnumbered
  BY DEF Init, Ledger, Unnumbered
<1>2. nextNo \in Nat \ {0} /\ pools = <<>>
  BY DEF Init
<1>3. Fair(ledger, nextNo)
  BY <1>1 DEF Fair
<1> QED BY <1>1, <1>2, <1>3 DEF Inv

\* The ledger's numbers stay below the next one and are never changed.
THEOREM NumbersHold == Spec => []Inv
<1> QED BY InitInv, StepInv, PTL DEF Spec

\* However sweeps, grants, closings, corrections and reversals interleave, no
\* ticket number belongs to two awards, and every frozen pool gives its
\* entries the numbers the ledger gives them.
THEOREM TicketsNeverShared == Spec => []TicketsOwnedOnce
<1>1. Inv => TicketsOwnedOnce
  <2> SUFFICES ASSUME Inv PROVE TicketsOwnedOnce
    OBVIOUS
  <2>1. ASSUME NEW a \in Award, NEW b \in Award, a # b,
               ledger[a].start # Unnumbered, ledger[b].start # Unnumbered
        PROVE  NumbersOf(ledger[a].start, a) \cap NumbersOf(ledger[b].start, b) = {}
    <3>1. /\ ledger[a].start \in Nat /\ ledger[b].start \in Nat
          /\ Amount[a] \in Nat /\ Amount[b] \in Nat
      BY Awards DEF Inv, Ledger
    <3>2. Above(ledger, a, b) \/ Above(ledger, b, a)
      BY <2>1 DEF Inv, Fair
    <3> QED BY <3>1, <3>2 DEF Above, NumbersOf
  <2>2. \A v \in DOMAIN pools : \A a \in pools[v].entries : pools[v].start[a] = ledger[a].start
    BY DEF Inv, Agrees
  <2> QED BY <2>1, <2>2 DEF TicketsOwnedOnce
<1> QED BY <1>1, NumbersHold, PTL

-----------------------------------------------------------------------------
(* The walk over the hash chain                                            *)

\* The loop over the prizes is what its recursive definition says.
Walk(pool, seed, elig, n, w) ==
    w = [k \in 0..n |-> IF k = 0 THEN [pos |-> 0, won |-> <<>>]
                        ELSE NextPrize(pool, seed, elig, w[k - 1])]

LEMMA WalkExists ==
    ASSUME NEW pool, NEW seed, NEW elig
    PROVE  \E w : Walk(pool, seed, elig, Prizes, w) /\ Drawn(pool, seed, elig) = w[Prizes]
<1> DEFINE A == {n \in Nat : \E w : Walk(pool, seed, elig, n, w)}
           start == [pos |-> 0, won |-> <<>>]
<1>1. 0 \in A
  <2> DEFINE w == [k \in 0..0 |-> start]
  <2>1. Walk(pool, seed, elig, 0, w)
    <3>1. \A k \in 0..0 : k = 0
      OBVIOUS
    <3> QED BY <3>1 DEF Walk
  <2> QED BY <2>1
<1>2. ASSUME NEW n \in A PROVE n + 1 \in A
  <2>1. PICK v : Walk(pool, seed, elig, n, v)
    OBVIOUS
  <2> DEFINE w == [k \in 0..(n + 1) |-> IF k = n + 1 THEN NextPrize(pool, seed, elig, v[n])
                                        ELSE v[k]]
  <2>2. n \in Nat /\ n + 1 # 0
    OBVIOUS
  <2>3. ASSUME NEW k \in 0..(n + 1)
        PROVE  w[k] = IF k = 0 THEN start ELSE NextPrize(pool, seed, elig, w[k - 1])
    <3>1. CASE k = n + 1
      <4>1. n \in 0..(n + 1) /\ n # n + 1 /\ k - 1 = n /\ k # 0
        BY <2>2, <3>1
      <4>2. w[k - 1] = v[n]
        BY <4>1
      <4> QED BY <3>1, <4>1, <4>2
    <3>2. CASE k = 0
      BY <2>1, <2>2, <3>2 DEF Walk
    <3>3. CASE k # 0 /\ k # n + 1
      <4>1. k \in 0..n /\ k - 1 \in 0..(n + 1) /\ k - 1 # n + 1
        BY <2>2, <3>3
      <4>2. w[k] = v[k] /\ w[k - 1] = v[k - 1]
        BY <3>3, <4>1
      <4>3. v[k] = NextPrize(pool, seed, elig, v[k - 1])
        BY <2>1, <3>3, <4>1 DEF Walk
      <4> QED BY <3>3, <4>2, <4>3
    <3> QED BY <3>1, <3>2, <3>3
  <2>4. Walk(pool, seed, elig, n + 1, w)
    <3>1. w = [k \in 0..(n + 1) |-> w[k]]
      OBVIOUS
    <3> HIDE DEF w
    <3> QED BY <2>3, <3>1 DEF Walk
  <2> HIDE DEF w
  <2> QED BY <2>2, <2>4
<1>3. Prizes \in A
  <2>1. A \in SUBSET Nat /\ Prizes \in Nat
    BY DrawAssumption
  <2> HIDE DEF A
  <2> QED BY <1>1, <1>2, <2>1, SetInduction
<1> DEFINE W == CHOOSE w : Walk(pool, seed, elig, Prizes, w)
<1>4. Walk(pool, seed, elig, Prizes, W)
  BY <1>3
<1>5. Drawn(pool, seed, elig) = W[Prizes]
  BY DEF Drawn, Walk
<1> QED BY <1>4, <1>5

\* Sums of tickets.
LEMMA TicketsAdd ==
    ASSUME NEW S \in SUBSET Award, NEW a \in Award \ S
    PROVE  Tickets(S \cup {a}) = Tickets(S) + Amount[a]
<1> DEFINE T == S \cup {a}
           f == [x \in T |-> Amount[x]]
<1>1. T \in SUBSET Award /\ IsFiniteSet(T) /\ f \in [T -> Nat] /\ a \in T
  BY Awards
<1>2. Total(f) = Total([y \in T \ {a} |-> f[y]]) + f[a]
  BY <1>1, TotalWithout
<1>3. [y \in T \ {a} |-> f[y]] = [x \in S |-> Amount[x]]
  OBVIOUS
<1> QED BY <1>2, <1>3 DEF Tickets

LEMMA TicketsNone == Tickets({}) = 0
<1>1. [a \in {} |-> Amount[a]] \in [{} -> Nat]
  OBVIOUS
<1> QED BY <1>1, TotalZero DEF Tickets

\* A pool whose entries start at different numbers, and one of its offsets.
Lined(pool) == \A a, b \in pool.entries : a # b => pool.start[a] # pool.start[b]

LEMMA StartsAhead ==
    ASSUME NEW pool \in Pool
    PROVE  /\ \A a \in pool.entries : DrawStart(pool, a) \in Nat /\ Amount[a] \in Nat \ {0}
           /\ \A a, b \in pool.entries : pool.start[a] < pool.start[b]
                 => DrawStart(pool, a) + Amount[a] <= DrawStart(pool, b)
           /\ Size(pool) \in Nat
<1>1. pool.entries \in SUBSET Award /\ \A a \in pool.entries : pool.start[a] \in Nat
  BY DEF Pool
<1>2. ASSUME NEW a \in pool.entries
      PROVE  Before(pool, a) \in SUBSET Award /\ a \notin Before(pool, a)
  BY <1>1 DEF Before
<1>3. ASSUME NEW a \in pool.entries, NEW b \in pool.entries, pool.start[a] < pool.start[b]
      PROVE  DrawStart(pool, a) + Amount[a] <= DrawStart(pool, b)
  <2>1. a \in Before(pool, b) /\ Before(pool, a) \subseteq Before(pool, b)
    BY <1>1, <1>3 DEF Before
  <2> QED BY <1>2, <2>1, TicketsGrow DEF DrawStart
<1> QED BY <1>1, <1>2, <1>3, Awards, TicketsType DEF DrawStart, Size

\* Every offset below the pool's size hits one of its entries (resolve_offset).
LEMMA OffsetHits ==
    ASSUME NEW pool \in Pool, Lined(pool), NEW o \in Nat, o < Size(pool)
    PROVE  HitAward(pool, o) \in pool.entries
<1> DEFINE E == pool.entries
           s(a) == pool.start[a]
           at(a) == DrawStart(pool, a)
<1>1. /\ E \in SUBSET Award /\ \A a \in E : s(a) \in Nat /\ at(a) \in Nat /\ Amount[a] \in Nat \ {0}
      /\ \A a, b \in E : s(a) < s(b) => at(a) + Amount[a] <= at(b)
      /\ \A a, b \in E : a # b => s(a) # s(b)
  BY StartsAhead DEF Pool, Lined
<1>2. ASSUME NEW F \in SUBSET E, F # {} PROVE \E b \in F : \A c \in F : s(b) <= s(c)
  <2> DEFINE S == {s(c) : c \in F}
  <2>1. S \in SUBSET Nat /\ S # {}
    BY <1>1, <1>2
  <2> HIDE DEF S
  <2>2. PICK m \in S : \A k \in S : m <= k
    BY <2>1, LeastMember
  <2> QED BY <2>2 DEF S
<1> DEFINE C == {a \in E : at(a) <= o}
<1>3. E # {}
  BY TicketsNone DEF Size
<1>4. C # {}
  <2>1. PICK b \in E : \A c \in E : s(b) <= s(c)
    BY <1>2, <1>3
  <2>2. Before(pool, b) = {}
    <3>1. \A c \in E : ~(s(c) < s(b))
      BY <1>1, <2>1
    <3> QED BY <3>1 DEF Before
  <2>3. at(b) = 0
    BY <2>2, TicketsNone DEF DrawStart
  <2> QED BY <2>3
<1>5. PICK a \in C : \A c \in C : at(c) <= at(a)
  <2> DEFINE S == {at(c) : c \in C}
  <2>1. S \in SUBSET Nat /\ S # {} /\ \A k \in S : k <= o
    BY <1>1, <1>4
  <2> HIDE DEF S
  <2>2. PICK m \in S : \A k \in S : k <= m
    BY <2>1, GreatestMember
  <2> QED BY <2>2 DEF S
<1>6. o < at(a) + Amount[a]
  <2> SUFFICES ASSUME at(a) + Amount[a] <= o PROVE FALSE
    BY <1>1, <1>5
  <2> DEFINE B == Before(pool, a)
             F == {x \in E : s(a) < s(x)}
  <2>0. a \in E
    BY <1>5
  <2>1. B \in SUBSET Award /\ a \in Award \ B
    BY <1>1, <2>0 DEF Before
  <2>2. Tickets(B \cup {a}) = at(a) + Amount[a]
    BY <2>1, TicketsAdd DEF DrawStart
  <2>3. ASSUME NEW x \in E PROVE x \in B \/ x = a \/ x \in F
    <3>1. s(x) \in Nat /\ s(a) \in Nat /\ (x # a => s(x) # s(a))
      BY <1>1, <2>0
    <3> QED BY <3>1 DEF Before
  <2>4. CASE F = {}
    <3>1. E = B \cup {a}
      BY <2>0, <2>3, <2>4 DEF Before
    <3>2. Size(pool) = at(a) + Amount[a]
      BY <2>2, <3>1 DEF Size
    <3> QED BY <3>2, <1>1, <2>0, StartsAhead
  <2>5. CASE F # {}
    <3>1. PICK b \in F : \A c \in F : s(b) <= s(c)
      BY <1>2, <2>5
    <3>2. b \in E /\ s(a) < s(b)
      OBVIOUS
    <3>3. Before(pool, b) = B \cup {a}
      <4>1. ASSUME NEW x \in E PROVE s(x) < s(b) <=> x \in B \cup {a}
        <5>1. s(x) \in Nat /\ s(a) \in Nat /\ s(b) \in Nat
          BY <1>1, <2>0, <3>2
        <5>2. x \in B <=> s(x) < s(a)
          BY DEF Before
        <5>3. x \in F => s(b) <= s(x)
          BY <3>1
        <5> QED BY <5>1, <5>2, <5>3, <2>3, <3>2
      <4>2. B \cup {a} \subseteq E
        BY <2>0 DEF Before
      <4> QED BY <4>1, <4>2 DEF Before
    <3>4. at(b) = at(a) + Amount[a]
      BY <2>2, <3>3 DEF DrawStart
    <3>5. b \in C
      BY <3>2, <3>4
    <3> QED BY <1>1, <1>5, <2>0, <3>4, <3>5
  <2> QED BY <2>4, <2>5
<1>7. a \in E /\ at(a) <= o
  BY <1>5
<1> QED BY <1>6, <1>7 DEF HitAward

Win == [who : Pilot, ticket : Int, pos : Nat]

\* A roll over a pool with entries falls to an owner of one.
LEMMA RollHits ==
    ASSUME NEW pool \in Pool, Lined(pool), pool.entries # {}, NEW seed \in Seeds, NEW i \in Nat
    PROVE  LET o == Roll(seed, i, Size(pool)) IN
           /\ OwnerAt(pool, o) \in Owners(pool) /\ Owners(pool) \subseteq Pilot
           /\ TicketNo(pool, o) \in Int
<1> DEFINE o == Roll(seed, i, Size(pool))
           a == HitAward(pool, o)
<1>1. pool.entries \in SUBSET Award /\ \A b \in pool.entries : pool.start[b] \in Nat
  BY DEF Pool
<1>2. Size(pool) \in Nat /\ Size(pool) > 0
  <2>1. PICK b \in pool.entries : TRUE
    OBVIOUS
  <2>2. Tickets({}) + Amount[b] <= Tickets(pool.entries)
    BY <1>1, TicketsGrow
  <2>3. b \in Award /\ Amount[b] \in Nat \ {0}
    BY <1>1, Awards
  <2>4. Tickets(pool.entries) \in Nat
    BY <1>1, TicketsType
  <2> QED BY <2>2, <2>3, <2>4, TicketsNone DEF Size
<1>3. o \in Nat /\ o < Size(pool)
  <2>1. seed \in Seq(Nat) /\ Len(seed) \in Nat \ {0}
    BY DrawAssumption
  <2>2. (i % Len(seed)) + 1 \in 1..Len(seed)
    BY <2>1
  <2>3. seed[(i % Len(seed)) + 1] \in Nat
    BY <2>1, <2>2
  <2> HIDE DEF o
  <2>4. o = seed[(i % Len(seed)) + 1] % Size(pool)
    BY DEF o, Roll
  <2>5. ASSUME NEW x \in Nat, NEW n \in Nat, n > 0 PROVE x % n \in Nat /\ x % n < n
    BY <2>5
  <2> QED BY <1>2, <2>3, <2>4, <2>5
<1> HIDE DEF o
<1>4. a \in pool.entries
  BY <1>3, OffsetHits
<1>5. OwnerOf[a] \in Pilot /\ Owners(pool) \subseteq Pilot
  BY <1>1, <1>4, AwardAssumption DEF Owners
<1>6. DrawStart(pool, a) \in Nat
  BY <1>4, StartsAhead
<1> QED BY <1>1, <1>3, <1>4, <1>5, <1>6 DEF o, OwnerAt, Owners, TicketNo

LEMMA SmallestIs ==
    ASSUME NEW S \in SUBSET Nat, S # {}
    PROVE  Smallest(S) \in S
BY LeastMember DEF Smallest

\* What the loop has after k prizes: winners at different rolls, all consumed,
\* and under one_prize_per_pilot different pilots.
Walked(k, st) ==
    /\ st.pos \in Nat /\ st.won \in Seq(Win) /\ Len(st.won) <= k
    /\ \A j \in DOMAIN st.won : st.won[j].pos < st.pos
    /\ \A i, j \in DOMAIN st.won : i # j =>
          /\ st.won[i].pos # st.won[j].pos
          /\ OnePer => st.won[i].who # st.won[j].who

LEMMA NextPrizeWalks ==
    ASSUME NEW pool \in Pool, Lined(pool), NEW seed \in Seeds, NEW elig,
           NEW k \in Nat, NEW st, Walked(k, st)
    PROVE  Walked(k + 1, NextPrize(pool, seed, elig, st))
<1> DEFINE can == Able(pool, elig, st.won)
           hits == Hits(pool, seed, st.pos, can)
           hit == IF hits # {} THEN Hit(pool, seed, Smallest(hits))
                  ELSE Fallback(pool, seed, st.pos + Budget, can)
           new == [pos |-> hit.pos + 1, won |-> Append(st.won, hit)]
<1>1. NextPrize(pool, seed, elig, st) = IF can = {} THEN st ELSE new
  BY DEF NextPrize
<1>2. st.pos \in Nat /\ st.won \in Seq(Win) /\ Len(st.won) \in Nat /\ Len(st.won) <= k
  BY DEF Walked
<1>3. CASE can = {}
  <2>1. Walked(k + 1, st)
    BY <1>2 DEF Walked
  <2> QED BY <1>1, <1>3, <2>1
<1>4. CASE can # {}
  <2>1. Budget \in Nat \ {0}
    BY DrawAssumption
  <2>2. can \subseteq Owners(pool)
    BY DEF Able
  <2>3. hit \in Win /\ hit.pos >= st.pos /\ hit.who \in can
    <3>1. CASE hits # {}
      <4>1. hits \in SUBSET Nat /\ \A i \in hits : i >= st.pos
        BY <1>2, <2>1 DEF Hits
      <4> DEFINE i == Smallest(hits)
                 o == Roll(seed, i, Size(pool))
      <4>2. i \in hits
        BY <3>1, <4>1, SmallestIs
      <4>3. OwnerAt(pool, o) \in can
        BY <4>2 DEF Hits
      <4>4. pool.entries # {}
        BY <1>4, <2>2 DEF Owners
      <4>5. i \in Nat /\ i >= st.pos
        BY <4>1, <4>2
      <4>6. hit = [who |-> OwnerAt(pool, o), ticket |-> TicketNo(pool, o), pos |-> i]
        BY <3>1 DEF Hit
      <4> HIDE DEF can, hits, hit, i
      <4>7. OwnerAt(pool, o) \in Pilot /\ TicketNo(pool, o) \in Int
        BY <4>4, <4>5, RollHits
      <4> HIDE DEF o
      <4> QED BY <4>3, <4>5, <4>6, <4>7 DEF Win
    <3>2. CASE hits = {}
      <4> DEFINE left == [pool EXCEPT !.entries = {a \in @ : OwnerOf[a] \in can}]
                 i == st.pos + Budget
                 o == Roll(seed, i, Size(left))
      <4>1. left.entries = {a \in pool.entries : OwnerOf[a] \in can} /\ left.start = pool.start
        BY DEF Pool
      <4>2. left \in Pool
        BY DEF Pool
      <4>3. Lined(left) /\ left.entries # {}
        BY <1>4, <2>2, <4>1 DEF Lined, Owners
      <4>4. i \in Nat /\ i >= st.pos
        BY <1>2, <2>1
      <4>5. hit = [who |-> OwnerAt(left, o), ticket |-> TicketNo(left, o), pos |-> i]
        BY <3>2 DEF Fallback
      <4>6. Owners(left) \subseteq can
        BY <4>1 DEF Owners
      <4> HIDE DEF can, hits, hit, i, left
      <4>7. OwnerAt(left, o) \in Owners(left) /\ Owners(left) \subseteq Pilot /\ TicketNo(left, o) \in Int
        BY <4>2, <4>3, <4>4, RollHits
      <4> HIDE DEF o
      <4> QED BY <4>4, <4>5, <4>6, <4>7 DEF Win
    <3> QED BY <3>1, <3>2
  <2>4. OnePer => \A j \in DOMAIN st.won : st.won[j].who \notin can
    BY DEF Able
  <2> HIDE DEF hit, can, hits
  <2>5. new.pos = hit.pos + 1 /\ new.won = Append(st.won, hit)
    OBVIOUS
  <2> DEFINE won == new.won
             n == Len(st.won)
  <2>6. /\ won \in Seq(Win) /\ Len(won) = n + 1 /\ DOMAIN won = 1..(n + 1)
        /\ won[n + 1] = hit /\ \A j \in 1..n : won[j] = st.won[j]
        /\ DOMAIN st.won = 1..n
    BY <1>2, <2>3, <2>5
  <2>7. hit.pos \in Nat /\ new.pos \in Nat
    BY <2>3, <2>5 DEF Win
  <2>8. \A j \in 1..n : st.won[j].pos \in Nat /\ st.won[j].pos < st.pos
    <3> SUFFICES ASSUME NEW j \in 1..n PROVE st.won[j].pos \in Nat /\ st.won[j].pos < st.pos
      OBVIOUS
    <3>1. j \in DOMAIN st.won
      BY <2>6
    <3>2. st.won[j] \in Win
      BY <1>2, <3>1
    <3> QED BY <3>1, <3>2 DEF Walked, Win
  <2>9. \A j \in DOMAIN won : j = n + 1 \/ j \in 1..n
    BY <1>2, <2>6
  <2> HIDE DEF won, n, new
  <2>10. \A j \in DOMAIN won : won[j].pos < new.pos
    <3> SUFFICES ASSUME NEW j \in DOMAIN won PROVE won[j].pos < new.pos
      OBVIOUS
    <3>1. CASE j \in 1..n
      BY <1>2, <2>3, <2>5, <2>6, <2>7, <2>8, <3>1
    <3>2. CASE j = n + 1
      BY <2>5, <2>6, <2>7, <3>2
    <3> QED BY <2>9, <3>1, <3>2
  <2>11. \A i, j \in 1..n : i # j => /\ won[i].pos # won[j].pos
                                     /\ OnePer => won[i].who # won[j].who
    BY <2>6 DEF Walked
  <2>12. \A j \in 1..n : /\ won[j].pos < won[n + 1].pos
                         /\ OnePer => won[j].who # won[n + 1].who
    <3> SUFFICES ASSUME NEW j \in 1..n
                 PROVE  /\ won[j].pos < won[n + 1].pos
                        /\ OnePer => won[j].who # won[n + 1].who
      OBVIOUS
    <3>1. won[j] = st.won[j] /\ won[n + 1] = hit /\ j \in DOMAIN st.won
      BY <2>6
    <3>2. st.won[j].pos < hit.pos
      BY <1>2, <2>3, <2>7, <2>8
    <3> QED BY <2>3, <2>4, <3>1, <3>2
  <2>13. \A i, j \in DOMAIN won : i # j => /\ won[i].pos # won[j].pos
                                           /\ OnePer => won[i].who # won[j].who
    <3> SUFFICES ASSUME NEW i \in DOMAIN won, NEW j \in DOMAIN won, i # j
                 PROVE  won[i].pos # won[j].pos /\ (OnePer => won[i].who # won[j].who)
      OBVIOUS
    <3>0. \A x \in 1..n : won[x].pos \in Nat /\ won[n + 1].pos \in Nat
      BY <2>6, <2>7, <2>8
    <3>1. CASE i \in 1..n /\ j \in 1..n
      BY <2>11, <3>1
    <3>2. CASE i = n + 1 /\ j \in 1..n
      BY <2>12, <3>0, <3>2
    <3>3. CASE j = n + 1 /\ i \in 1..n
      BY <2>12, <3>0, <3>3
    <3> QED BY <2>9, <3>1, <3>2, <3>3
  <2>14. new.won = won /\ Len(won) <= k + 1
    BY <1>2, <2>6 DEF won, n
  <2>15. Walked(k + 1, new)
    BY <2>6, <2>7, <2>10, <2>13, <2>14 DEF Walked
  <2> QED BY <1>1, <1>4, <2>15 DEF can
<1> QED BY <1>3, <1>4

\* A draw from a frozen pool: by induction over the prizes.
LEMMA DrawnWalks ==
    ASSUME NEW pool \in Pool, Lined(pool), NEW seed \in Seeds, NEW elig
    PROVE  Walked(Prizes, Drawn(pool, seed, elig))
<1>1. PICK w : Walk(pool, seed, elig, Prizes, w) /\ Drawn(pool, seed, elig) = w[Prizes]
  BY WalkExists
<1> DEFINE A == {k \in Nat : k <= Prizes => Walked(k, w[k])}
<1>2. Prizes \in Nat
  BY DrawAssumption
<1>3. 0 \in A
  <2> DEFINE start == [pos |-> 0, won |-> <<>>]
  <2>1. w[0] = start
    BY <1>1, <1>2 DEF Walk
  <2>2. start.pos = 0 /\ start.won = <<>>
    OBVIOUS
  <2> HIDE DEF start
  <2>3. Walked(0, start)
    BY <2>2 DEF Walked
  <2> QED BY <2>1, <2>3
<1>4. ASSUME NEW k \in A PROVE k + 1 \in A
  <2> SUFFICES ASSUME k + 1 <= Prizes PROVE Walked(k + 1, w[k + 1])
    OBVIOUS
  <2>1. k \in Nat /\ k <= Prizes /\ k + 1 \in 0..Prizes /\ k + 1 # 0 /\ (k + 1) - 1 = k
    BY <1>2
  <2>2. w[k + 1] = NextPrize(pool, seed, elig, w[k])
    BY <1>1, <2>1 DEF Walk
  <2>3. Walked(k, w[k])
    BY <2>1
  <2> QED BY <2>1, <2>2, <2>3, NextPrizeWalks
<1>5. Prizes \in A
  <2>1. A \in SUBSET Nat
    OBVIOUS
  <2> HIDE DEF A
  <2> QED BY <1>2, <1>3, <1>4, <2>1, SetInduction
<1> QED BY <1>1, <1>2, <1>5

-----------------------------------------------------------------------------
(* The draws                                                               *)

Draw == [status : DrawStatus, pool : Nat, seed : Seeds, superseded : Nat, pos : Nat]
Result == [draw : Nat, prize : Nat, who : Pilot, ticket : Int, pos : Nat,
           status : {"won", "forfeited", "redrawn"}, replaces : Nat]
Mem == [frozen : BOOLEAN, draw : Nat, result : Nat, pos : Nat, barred : SUBSET Pilot]

DrawTypes ==
    /\ draws \in Seq(Draw) /\ Len(draws) <= MaxDraws /\ results \in Seq(Result)
    /\ drawLock \in [1..MaxDraws -> Proc \cup {Nobody}]
    /\ pc \in [Proc -> Step] /\ mem \in [Proc -> Mem]

\* Draws are committed against a frozen pool.
PoolsKnown == \A d \in DOMAIN draws : draws[d].pool \in DOMAIN pools
\* Only a completed draw has results, so a draw is executed once.
ResultsOfCompleted ==
    \A r \in DOMAIN results : /\ results[r].draw \in DOMAIN draws
                              /\ draws[results[r].draw].status = "completed"

\* A forfeit holds its draw, whose chain is where it read it and whose winners
\* are among those it bars.
Holds(p) ==
    LET r == mem[p].result  d == mem[p].draw IN
    /\ r \in DOMAIN results /\ results[r].draw = d /\ results[r].status = "won"
    /\ drawLock[d] = p /\ mem[p].pos = draws[d].pos
    /\ OnePer => \A s \in LiveOf(results, d) \ {r} : results[s].who \in mem[p].barred
Knows(p) ==
    /\ pc[p] = "executing" => mem[p].draw \in DOMAIN draws
    /\ pc[p] = "redrawing" => \/ mem[p].draw = 0
                              \/ /\ mem[p].draw \in DOMAIN draws
                                 /\ draws[mem[p].draw].status = "completed"
    /\ pc[p] = "forfeiting" => Holds(p)

DrawInv == /\ DrawTypes /\ PoolsKnown /\ ResultsOfCompleted /\ \A p \in Proc : Knows(p)
           /\ ChainUsedOnce /\ OneWinEach

-----------------------------------------------------------------------------

\* Draws that come after: none is lost, reopened or read again.
Later(ds) ==
    /\ ds \in Seq(Draw) /\ Len(ds) <= MaxDraws /\ DOMAIN draws \subseteq DOMAIN ds
    /\ \A d \in DOMAIN draws : /\ ds[d].pos = draws[d].pos
                               /\ draws[d].status = "completed" => ds[d].status = "completed"

LEMMA PoolLined ==
    ASSUME NEW pool \in Pool, NEW lg \in Ledger, NEW next, Fair(lg, next), Agrees(pool, lg)
    PROVE  Lined(pool)
<1> SUFFICES ASSUME NEW a \in pool.entries, NEW b \in pool.entries, a # b
             PROVE  pool.start[a] # pool.start[b]
  BY DEF Lined
<1>1. a \in Award /\ b \in Award
  BY DEF Pool
<1>2. Above(lg, a, b) \/ Above(lg, b, a)
  BY <1>1 DEF Fair, Agrees
<1>3. lg[a].start \in Nat /\ lg[b].start \in Nat /\ Amount[a] \in Nat \ {0} /\ Amount[b] \in Nat \ {0}
  BY <1>1, Awards DEF Ledger
<1> QED BY <1>2, <1>3 DEF Above, Agrees

\* Nothing is drawn and no draw is locked or freed.
LEMMA QuietDraws ==
    ASSUME DrawInv, Later(draws'), UNCHANGED <<results, drawLock>>,
           pc' \in [Proc -> Step], mem' \in [Proc -> Mem],
           \A d \in DOMAIN draws' : draws'[d].pool \in DOMAIN pools',
           \A q \in Proc : (pc'[q] = pc[q] /\ mem'[q] = mem[q]) \/ Knows(q)'
    PROVE  DrawInv'
<1>1. DrawTypes' /\ PoolsKnown'
  BY DEF DrawInv, DrawTypes, PoolsKnown, Later
<1>2. ResultsOfCompleted'
  BY DEF DrawInv, ResultsOfCompleted, Later
<1>3. ASSUME NEW q \in Proc, pc'[q] = pc[q], mem'[q] = mem[q] PROVE Knows(q)'
  <2>1. Knows(q)
    BY DEF DrawInv
  <2>2. ASSUME Holds(q) PROVE Holds(q)'
    <3>1. mem[q].draw \in DOMAIN draws
      BY <2>2 DEF Holds, DrawInv, ResultsOfCompleted
    <3> QED BY <1>3, <2>2, <3>1 DEF Holds, LiveOf, Later
  <2> QED BY <1>3, <2>1, <2>2 DEF Knows, Later
<1>4. ChainUsedOnce'
  BY DEF DrawInv, ChainUsedOnce, ResultsOfCompleted, Later
<1>5. OneWinEach'
  <2> SUFFICES ASSUME NEW d \in DOMAIN draws', NEW r \in LiveOf(results, d),
                      NEW s \in LiveOf(results, d), r # s
               PROVE  /\ results[r].prize # results[s].prize
                      /\ OnePer => results[r].who # results[s].who
    BY DEF OneWinEach, LiveOf
  <2>1. d \in DOMAIN draws
    BY DEF DrawInv, ResultsOfCompleted, LiveOf
  <2> QED BY <2>1 DEF DrawInv, OneWinEach
<1> QED BY <1>1, <1>2, <1>3, <1>4, <1>5 DEF DrawInv

\* A committed draw is executed (execute_draw), the results it supersedes
\* being marked before.
LEMMA ExecuteDraws ==
    ASSUME DrawInv, Inv', NEW ds, Later(ds),
           \A e \in DOMAIN ds : ds[e].pool \in DOMAIN pools',
           NEW d \in DOMAIN ds, ds[d].status = "committed",
           NEW rs \in Seq(Result), DOMAIN rs = DOMAIN results,
           \A r \in DOMAIN results :
              rs[r] = results[r] \/ rs[r] = [results[r] EXCEPT !.status = "redrawn"],
           draws' = Executed(d, ds, rs).draws, results' = Executed(d, ds, rs).results,
           UNCHANGED drawLock, pc' \in [Proc -> Step], mem' \in [Proc -> Mem],
           \A q \in Proc :
              \/ pc'[q] \notin {"executing", "redrawing", "forfeiting"}
              \/ /\ pc'[q] = pc[q] /\ mem'[q] = mem[q]
                 /\ pc[q] = "forfeiting" => rs[mem[q].result] = results[mem[q].result]
    PROVE  DrawInv'
<1> DEFINE pool == pools'[ds[d].pool]
           out == Drawn(pool, ds[d].seed, eligible)
           row(k) == [draw |-> d, prize |-> k, who |-> out.won[k].who, ticket |-> out.won[k].ticket,
                      pos |-> out.won[k].pos, status |-> "won", replaces |-> 0]
           rows == [k \in DOMAIN out.won |-> row(k)]
           n == Len(rs)
           m == Len(out.won)
<1>1. draws' = [ds EXCEPT ![d].status = "completed", ![d].pos = out.pos] /\ results' = rs \o rows
  BY DEF Executed
<1>2. ds \in Seq(Draw) /\ ds[d] \in Draw /\ DOMAIN ds = 1..Len(ds) /\ Len(ds) \in Nat
  BY DEF Later
<1>3. Walked(Prizes, out)
  <2>1. pool \in Pool /\ Agrees(pool, ledger')
    BY <1>2 DEF Inv
  <2>2. Lined(pool)
    BY <2>1, PoolLined DEF Inv
  <2> QED BY <1>2, <2>1, <2>2, DrawnWalks DEF Draw
<1> HIDE DEF out
<1>4. /\ out.pos \in Nat /\ out.won \in Seq(Win) /\ m \in Nat /\ DOMAIN out.won = 1..m
      /\ \A k \in 1..m : out.won[k] \in Win /\ out.won[k].pos < out.pos
      /\ \A i, j \in 1..m : i # j => /\ out.won[i].pos # out.won[j].pos
                                     /\ OnePer => out.won[i].who # out.won[j].who
  BY <1>3 DEF Walked
<1>5. /\ rows \in Seq(Result) /\ Len(rows) = m /\ DOMAIN rows = 1..m
      /\ \A k \in 1..m : rows[k] = row(k)
  <2>1. d \in Nat
    BY <1>2
  <2>2. \A k \in 1..m : k \in Nat /\ row(k) \in Result
    BY <1>4, <2>1 DEF Win, Result
  <2> HIDE DEF row
  <2>3. rows = [k \in 1..m |-> row(k)]
    BY <1>4
  <2> QED BY <1>4, <2>2, <2>3
<1> HIDE DEF rows
<1>6. /\ n \in Nat /\ DOMAIN results = 1..n
      /\ results' \in Seq(Result) /\ DOMAIN results' = 1..(n + m)
      /\ \A r \in 1..n : results'[r] = rs[r]
      /\ \A r \in (n + 1)..(n + m) : r - n \in 1..m /\ results'[r] = row(r - n)
  <2>1. n \in Nat /\ DOMAIN rs = 1..n
    OBVIOUS
  <2>2. rs \o rows \in Seq(Result) /\ Len(rs \o rows) = n + m
    <3>1. rows \in Seq(Result) /\ Len(rows) = m
      BY <1>5
    <3> HIDE DEF row, m
    <3> QED BY <3>1, ConcatProperties
  <2>3. \A r \in 1..n : (rs \o rows)[r] = rs[r]
    BY <1>4, <1>5, <2>1
  <2>4. ASSUME NEW r \in (n + 1)..(n + m)
        PROVE  r - n \in 1..m /\ (rs \o rows)[r] = row(r - n)
    <3>1. r - n \in 1..m /\ r \in 1..(n + m) /\ ~(r <= n)
      BY <1>4, <2>1
    <3>2. (rs \o rows)[r] = rows[r - n]
      BY <1>4, <1>5, <2>1, <3>1
    <3> QED BY <1>5, <3>1, <3>2
  <2> HIDE DEF row
  <2> QED BY <1>1, <2>1, <2>2, <2>3, <2>4
<1>7. /\ draws' \in Seq(Draw) /\ Len(draws') = Len(ds) /\ DOMAIN draws' = DOMAIN ds
      /\ draws'[d].status = "completed" /\ draws'[d].pos = out.pos
      /\ \A e \in DOMAIN ds : /\ draws'[e].pool = ds[e].pool
                              /\ e # d => draws'[e] = ds[e]
  <2>1. [ds[d] EXCEPT !.status = "completed", !.pos = out.pos] \in Draw
    BY <1>2, <1>4 DEF Draw, DrawStatus
  <2>2. draws' = [ds EXCEPT ![d] = [ds[d] EXCEPT !.status = "completed", !.pos = out.pos]]
    BY <1>1
  <2> QED BY <1>2, <2>1, <2>2 DEF Draw
<1>8. ASSUME NEW r \in 1..n
      PROVE  /\ results'[r].draw = results[r].draw /\ results'[r].prize = results[r].prize
             /\ results'[r].who = results[r].who /\ results'[r].pos = results[r].pos
             /\ results'[r].status = "won" => results[r].status = "won"
             /\ results[r].draw \in DOMAIN draws /\ results[r].draw # d
             /\ draws'[results[r].draw] = ds[results[r].draw]
  <2>1. results[r] \in Result
    BY <1>6 DEF DrawInv, DrawTypes
  <2>2. results[r].draw \in DOMAIN draws /\ draws[results[r].draw].status = "completed"
    BY <1>6 DEF DrawInv, ResultsOfCompleted
  <2>3. results[r].draw # d /\ results[r].draw \in DOMAIN ds
    BY <2>2 DEF Later
  <2>4. results'[r] = results[r] \/ results'[r] = [results[r] EXCEPT !.status = "redrawn"]
    BY <1>6
  <2> QED BY <1>7, <2>1, <2>2, <2>3, <2>4 DEF Result
<1>9. ASSUME NEW r \in (n + 1)..(n + m)
      PROVE  /\ results'[r].draw = d /\ results'[r].prize = r - n /\ r - n \in 1..m
             /\ results'[r].who = out.won[r - n].who /\ results'[r].pos = out.won[r - n].pos
  <2>1. r - n \in 1..m /\ results'[r] = row(r - n)
    <3> HIDE DEF row, n, m
    <3> QED BY <1>6
  <2> HIDE DEF n, m
  <2> QED BY <2>1
<1>10. \A r \in DOMAIN results' : r \in 1..n \/ r \in (n + 1)..(n + m)
  BY <1>4, <1>6
<1> HIDE DEF row, n, m
<1>11. DrawTypes' /\ PoolsKnown'
  BY <1>6, <1>7 DEF DrawInv, DrawTypes, PoolsKnown, Later
<1>12. ResultsOfCompleted'
  <2> SUFFICES ASSUME NEW r \in DOMAIN results'
               PROVE  /\ results'[r].draw \in DOMAIN draws'
                      /\ draws'[results'[r].draw].status = "completed"
    BY DEF ResultsOfCompleted
  <2>1. CASE r \in 1..n
    BY <1>6, <1>7, <1>8, <2>1 DEF DrawInv, ResultsOfCompleted, Later
  <2>2. CASE r \in (n + 1)..(n + m)
    BY <1>7, <1>9, <2>2
  <2> QED BY <1>10, <2>1, <2>2
<1>13. ChainUsedOnce'
  <2>1. ASSUME NEW r \in DOMAIN results' PROVE results'[r].pos < draws'[results'[r].draw].pos
    <3>1. CASE r \in 1..n
      BY <1>6, <1>8, <3>1 DEF DrawInv, ChainUsedOnce, Later
    <3>2. CASE r \in (n + 1)..(n + m)
      BY <1>4, <1>7, <1>9, <3>2
    <3> QED BY <1>10, <3>1, <3>2
  <2>2. ASSUME NEW r \in DOMAIN results', NEW s \in DOMAIN results', r # s,
               results'[r].draw = results'[s].draw
        PROVE  results'[r].pos # results'[s].pos
    <3>1. CASE r \in 1..n /\ s \in 1..n
      BY <1>6, <1>8, <2>2, <3>1 DEF DrawInv, ChainUsedOnce
    <3>2. CASE r \in (n + 1)..(n + m) /\ s \in (n + 1)..(n + m)
      <4>1. r - n # s - n
        BY <1>6, <2>2, <3>2
      <4> QED BY <1>4, <1>9, <3>2, <4>1
    <3> QED BY <1>8, <1>9, <1>10, <2>2, <3>1, <3>2
  <2> QED BY <2>1, <2>2 DEF ChainUsedOnce
<1>14. OneWinEach'
  <2> SUFFICES ASSUME NEW e \in DOMAIN draws', NEW r \in LiveOf(results', e),
                      NEW s \in LiveOf(results', e), r # s
               PROVE  /\ results'[r].prize # results'[s].prize
                      /\ OnePer => results'[r].who # results'[s].who
    BY DEF OneWinEach, LiveOf
  <2>0. /\ r \in DOMAIN results' /\ results'[r].draw = e /\ results'[r].status = "won"
        /\ s \in DOMAIN results' /\ results'[s].draw = e /\ results'[s].status = "won"
    BY DEF LiveOf
  <2>1. CASE r \in 1..n /\ s \in 1..n
    <3>1. e \in DOMAIN draws /\ r \in LiveOf(results, e) /\ s \in LiveOf(results, e)
      BY <1>6, <1>8, <2>0, <2>1 DEF LiveOf
    <3> QED BY <1>8, <2>1, <3>1 DEF DrawInv, OneWinEach
  <2>2. CASE r \in (n + 1)..(n + m) /\ s \in (n + 1)..(n + m)
    <3>1. r - n # s - n
      BY <1>6, <2>2
    <3> QED BY <1>4, <1>9, <2>2, <3>1
  <2> QED BY <1>8, <1>9, <1>10, <2>0, <2>1, <2>2
<1>15. ASSUME NEW q \in Proc PROVE Knows(q)'
  <2>1. CASE pc'[q] \notin {"executing", "redrawing", "forfeiting"}
    BY <2>1 DEF Knows
  <2>2. CASE /\ pc'[q] = pc[q] /\ mem'[q] = mem[q]
             /\ pc[q] = "forfeiting" => rs[mem[q].result] = results[mem[q].result]
    <3>1. Knows(q)
      BY DEF DrawInv
    <3>2. pc'[q] = "executing" => mem'[q].draw \in DOMAIN draws'
      BY <1>7, <2>2, <3>1 DEF Knows, Later
    <3>3. pc'[q] = "redrawing" => \/ mem'[q].draw = 0
                                  \/ /\ mem'[q].draw \in DOMAIN draws'
                                     /\ draws'[mem'[q].draw].status = "completed"
      BY <1>7, <2>2, <3>1 DEF Knows, Later
    <3>4. ASSUME pc'[q] = "forfeiting" PROVE Holds(q)'
      <4> DEFINE r == mem[q].result
                 e == mem[q].draw
      <4>1. Holds(q) /\ rs[r] = results[r]
        BY <2>2, <3>1, <3>4 DEF Knows
      <4>2. r \in 1..n /\ results[r].draw = e /\ results[r].status = "won"
        BY <1>6, <4>1 DEF Holds
      <4>3. results'[r] = results[r] /\ r \in DOMAIN results'
        BY <1>4, <1>6, <4>1, <4>2
      <4>4. draws'[e].pos = draws[e].pos /\ e # d
        BY <1>8, <4>2 DEF Later
      <4>5. ASSUME OnePer, NEW s \in LiveOf(results', e) \ {r}
            PROVE  results'[s].who \in mem[q].barred
        <5>1. s \in DOMAIN results' /\ results'[s].draw = e /\ results'[s].status = "won"
          BY DEF LiveOf
        <5>2. s \in 1..n
          BY <1>9, <1>10, <4>4, <5>1
        <5>3. s \in LiveOf(results, e) \ {r}
          BY <1>6, <1>8, <5>1, <5>2 DEF LiveOf
        <5> QED BY <1>8, <4>1, <4>5, <5>2, <5>3 DEF Holds
      <4> QED BY <2>2, <4>1, <4>2, <4>3, <4>4, <4>5 DEF Holds
    <3> QED BY <3>2, <3>3, <3>4 DEF Knows
  <2> QED BY <2>1, <2>2
<1> QED BY <1>11, <1>12, <1>13, <1>14, <1>15 DEF DrawInv

LEMMA StaleLater ==
    ASSUME DrawInv
    PROVE  /\ Later(Stale(draws)) /\ DOMAIN Stale(draws) = DOMAIN draws
           /\ \A d \in DOMAIN draws : Stale(draws)[d].pool = draws[d].pool
<1>1. draws \in Seq(Draw) /\ Len(draws) \in Nat /\ DOMAIN draws = 1..Len(draws)
      /\ Len(draws) <= MaxDraws
  BY DEF DrawInv, DrawTypes
<1> DEFINE ds == Stale(draws)
<1>2. ds = [d \in 1..Len(draws) |-> ds[d]]
  BY <1>1 DEF Stale
<1>3. ASSUME NEW d \in 1..Len(draws)
      PROVE  /\ ds[d] \in Draw /\ ds[d].pos = draws[d].pos /\ ds[d].pool = draws[d].pool
             /\ draws[d].status = "completed" => ds[d].status = "completed"
  <2>1. ds[d] = IF draws[d].status = "committed" THEN [draws[d] EXCEPT !.status = "failed"] ELSE draws[d]
    BY <1>1 DEF Stale
  <2>2. draws[d] \in Draw
    BY <1>1
  <2> HIDE DEF ds
  <2> QED BY <2>1, <2>2 DEF Draw, DrawStatus
<1> HIDE DEF ds
<1>4. ds \in Seq(Draw) /\ Len(ds) = Len(draws)
  BY <1>1, <1>2, <1>3
<1> QED BY <1>1, <1>2, <1>3, <1>4 DEF Later, ds

\* Committing to a seed (prepare_draw).
LEMMA PreparedLater ==
    ASSUME DrawInv, Inv, NEW seed \in Seeds, Len(draws) < MaxDraws,
           IF pools = <<>> THEN Freeze ELSE UNCHANGED <<nextNo, ledger, pools>>,
           NEW ds, ds = Append(Stale(draws), NewDraw(seed, AtLeast(Version, 1)))
    PROVE  /\ Later(ds) /\ Len(ds) = Len(draws) + 1 /\ Len(ds) \in DOMAIN ds
           /\ ds[Len(ds)].status = "committed" /\ Len(ds) \notin DOMAIN draws
           /\ \A d \in DOMAIN ds : ds[d].pool \in DOMAIN pools'
<1> DEFINE old == Stale(draws)
           new == NewDraw(seed, AtLeast(Version, 1))
<1>1. /\ Later(old) /\ DOMAIN old = DOMAIN draws
      /\ \A d \in DOMAIN draws : old[d].pool = draws[d].pool
  BY StaleLater
<1>2. draws \in Seq(Draw) /\ Len(draws) \in Nat /\ DOMAIN draws = 1..Len(draws)
  BY DEF DrawInv, DrawTypes
<1>3. old \in Seq(Draw) /\ Len(old) = Len(draws)
  BY <1>1, <1>2 DEF Later
<1>4. AtLeast(Version, 1) \in DOMAIN pools' /\ AtLeast(Version, 1) \in Nat
      /\ DOMAIN pools \subseteq DOMAIN pools'
  <2>1. pools \in Seq(Pool)
    BY DEF Inv
  <2>2. CASE pools = <<>>
    BY <2>1, <2>2 DEF Freeze, AtLeast, Version
  <2>3. CASE pools # <<>>
    <3>1. pools' = pools /\ Len(pools) \in Nat \ {0} /\ DOMAIN pools = 1..Len(pools)
      BY <2>1, <2>3
    <3>2. AtLeast(Version, 1) = Len(pools)
      BY <3>1 DEF AtLeast, Version
    <3> QED BY <3>1, <3>2
  <2> QED BY <2>2, <2>3
<1>5. /\ new \in Draw /\ new.status = "committed" /\ new.pool = AtLeast(Version, 1)
  <2>1. ASSUME NEW v \in Nat
        PROVE  /\ NewDraw(seed, v) \in Draw
               /\ NewDraw(seed, v).status = "committed" /\ NewDraw(seed, v).pool = v
    BY DEF NewDraw, Draw, DrawStatus
  <2> QED BY <1>4, <2>1
<1> HIDE DEF old, new
<1>6. /\ ds \in Seq(Draw) /\ Len(ds) = Len(draws) + 1 /\ DOMAIN ds = 1..(Len(draws) + 1)
      /\ ds[Len(draws) + 1] = new /\ \A d \in 1..Len(draws) : ds[d] = old[d]
  <2>1. ds = Append(old, new)
    BY DEF old, new
  <2>2. /\ Append(old, new) \in Seq(Draw) /\ Len(Append(old, new)) = Len(old) + 1
        /\ Append(old, new)[Len(old) + 1] = new
        /\ \A d \in 1..Len(old) : Append(old, new)[d] = old[d]
    BY <1>3, <1>5, AppendProperties
  <2>3. ds \in Seq(Draw) /\ Len(ds) = Len(draws) + 1
    BY <1>3, <2>1, <2>2
  <2>4. DOMAIN ds = 1..Len(ds)
    BY <2>3
  <2>5. ds[Len(draws) + 1] = new /\ \A d \in 1..Len(draws) : ds[d] = old[d]
    BY <1>3, <2>1, <2>2
  <2> QED BY <2>3, <2>4, <2>5
<1>7. Later(ds)
  <2>1. Len(ds) <= MaxDraws /\ DOMAIN draws \subseteq DOMAIN ds
    BY <1>2, <1>6, BoundAssumption
  <2> QED BY <1>1, <1>2, <1>6, <2>1 DEF Later
<1>8. \A d \in DOMAIN ds : ds[d].pool \in DOMAIN pools'
  <2> SUFFICES ASSUME NEW d \in DOMAIN ds PROVE ds[d].pool \in DOMAIN pools'
    OBVIOUS
  <2>1. CASE d \in 1..Len(draws)
    BY <1>1, <1>2, <1>4, <1>6, <2>1 DEF DrawInv, PoolsKnown
  <2>2. CASE d = Len(draws) + 1
    BY <1>4, <1>5, <1>6, <2>2
  <2> QED BY <1>2, <1>6, <2>1, <2>2
<1> QED BY <1>2, <1>5, <1>6, <1>7, <1>8

\* The latest of some draws is one of them.
LEMMA LatestIs ==
    ASSUME DrawInv, NEW S \in SUBSET (DOMAIN draws)
    PROVE  Latest(S) \in S \cup {0}
<1>1. Len(draws) \in Nat /\ DOMAIN draws = 1..Len(draws)
  BY DEF DrawInv, DrawTypes
<1>2. S \cup {0} \in SUBSET Nat /\ S \cup {0} # {} /\ \A k \in S \cup {0} : k <= Len(draws)
  BY <1>1
<1>3. \E m \in S \cup {0} : \A k \in S \cup {0} : k <= m
  BY <1>1, <1>2, GreatestMember
<1> QED BY <1>3 DEF Latest

-----------------------------------------------------------------------------

LEMMA BlankMem == Blank \in Mem
BY DEF Blank, Mem

\* A worker that goes on to a step of which nothing is asked.
LEMMA WorkerMoves ==
    ASSUME DrawInv, NEW p \in Proc, NEW step \in Step, NEW m \in Mem
    PROVE  /\ Goto(p, step) => /\ pc' \in [Proc -> Step] /\ pc'[p] = step
                               /\ \A q \in Proc \ {p} : pc'[q] = pc[q]
           /\ mem' = [mem EXCEPT ![p] = m] => /\ mem' \in [Proc -> Mem] /\ mem'[p] = m
                                              /\ \A q \in Proc \ {p} : mem'[q] = mem[q]
BY DEF DrawInv, DrawTypes, Goto

LEMMA SameDraws ==
    ASSUME DrawInv, draws' = draws, DOMAIN pools \subseteq DOMAIN pools'
    PROVE  Later(draws') /\ \A d \in DOMAIN draws' : draws'[d].pool \in DOMAIN pools'
BY DEF DrawInv, DrawTypes, PoolsKnown, Later

LEMMA PoolsGrow ==
    ASSUME Inv, NEW pool, pools' = pools \/ pools' = Append(pools, pool)
    PROVE  DOMAIN pools \subseteq DOMAIN pools'
BY DEF Inv

LEMMA FreezeGrows ==
    ASSUME Inv, Freeze \/ pools' = pools
    PROVE  DOMAIN pools \subseteq DOMAIN pools'
<1>1. CASE Freeze
  BY <1>1, PoolsGrow DEF Freeze
<1> QED BY <1>1

\* A worker goes to a step, the draws being what they were or later.
LEMMA WorkerGoes ==
    ASSUME DrawInv, NEW p \in Proc, NEW step \in Step, NEW m \in Mem,
           Goto(p, step), mem' = mem \/ mem' = [mem EXCEPT ![p] = m],
           Later(draws'), \A d \in DOMAIN draws' : draws'[d].pool \in DOMAIN pools',
           UNCHANGED <<results, drawLock>>,
           step \in {"executing", "redrawing", "forfeiting"} => Knows(p)'
    PROVE  DrawInv'
<1>1. pc' \in [Proc -> Step] /\ pc'[p] = step /\ \A q \in Proc \ {p} : pc'[q] = pc[q]
  BY WorkerMoves
<1>2. mem' \in [Proc -> Mem] /\ \A q \in Proc \ {p} : mem'[q] = mem[q]
  <2>1. mem \in [Proc -> Mem]
    BY DEF DrawInv, DrawTypes
  <2> QED BY <2>1, WorkerMoves
<1>3. Knows(p)'
  BY <1>1 DEF Knows
<1> QED BY <1>1, <1>2, <1>3, QuietDraws

\* Steps that touch no draw (sweeps, grants, moves, the end of a run).
LEMMA BookSteps ==
    ASSUME Inv, DrawInv, NEW p \in Proc,
           \/ BeginSweep(p) \/ SweepAward(p) \/ SweepNumbers(p) \/ BeginGrant(p) \/ GrantTickets(p)
           \/ BeginReview(p) \/ BeginRun(p) \/ FinishRun(p)
    PROVE  DrawInv'
<1>1. /\ UNCHANGED <<draws, pools, results, drawLock>>
      /\ \E step \in Step \ {"executing", "redrawing", "forfeiting"}, m \in Mem :
            Goto(p, step) /\ (mem' = mem \/ mem' = [mem EXCEPT ![p] = m])
  <2>1. Blank \in Mem /\ [Blank EXCEPT !.frozen = Frozen] \in Mem
    <3>1. Frozen \in BOOLEAN
      BY DEF Frozen, FrozenStatus
    <3>2. \A b \in BOOLEAN : [Blank EXCEPT !.frozen = b] \in Mem
      BY DEF Blank, Mem
    <3> QED BY <3>1, <3>2, BlankMem
  <2>2. \A s \in {"sweeping", "numbering", "granting", "reviewing", "drawing", "idle"} :
           s \in Step \ {"executing", "redrawing", "forfeiting"}
    BY DEF Step
  <2>3. ASSUME BeginSweep(p) \/ BeginGrant(p) PROVE <1>1!2
    <3>1. mem' = mem /\ (Goto(p, "sweeping") \/ Goto(p, "granting"))
      BY <2>3 DEF BeginSweep, BeginGrant
    <3> QED BY <2>1, <2>2, <3>1
  <2>4. ASSUME SweepAward(p) \/ BeginRun(p) PROVE <1>1!2
    <3>1. mem' = mem /\ (Goto(p, "numbering") \/ Goto(p, "drawing"))
      BY <2>4 DEF SweepAward, BeginRun
    <3> QED BY <2>1, <2>2, <3>1
  <2>5. ASSUME SweepNumbers(p) \/ GrantTickets(p) \/ FinishRun(p) PROVE <1>1!2
    <3>1. mem' = [mem EXCEPT ![p] = Blank] /\ Goto(p, "idle")
      BY <2>5 DEF SweepNumbers, GrantTickets, FinishRun, Done
    <3> QED BY <2>1, <2>2, <3>1
  <2>6. ASSUME BeginReview(p) PROVE <1>1!2
    <3>1. mem' = [mem EXCEPT ![p] = [Blank EXCEPT !.frozen = Frozen]] /\ Goto(p, "reviewing")
      BY <2>6 DEF BeginReview, Keep
    <3> QED BY <2>1, <2>2, <3>1
  <2>7. UNCHANGED <<draws, pools, results, drawLock>>
    BY DEF BeginSweep, SweepAward, SweepNumbers, BeginGrant, GrantTickets, BeginReview, BeginRun,
           FinishRun, book, drawn, locks
  <2> QED BY <2>3, <2>4, <2>5, <2>6, <2>7
<1>2. PICK step \in Step \ {"executing", "redrawing", "forfeiting"}, m \in Mem :
         Goto(p, step) /\ (mem' = mem \/ mem' = [mem EXCEPT ![p] = m])
  BY <1>1
<1>3. Later(draws') /\ \A d \in DOMAIN draws' : draws'[d].pool \in DOMAIN pools'
  BY <1>1, SameDraws
<1> QED BY <1>1, <1>2, <1>3, WorkerGoes

\* A step that leaves the workers, the results and the locks alone.
LEMMA OthersIdle ==
    ASSUME DrawInv, UNCHANGED <<results, drawLock, pc, mem>>, Later(draws'),
           \A d \in DOMAIN draws' : draws'[d].pool \in DOMAIN pools'
    PROVE  DrawInv'
<1>1. pc' \in [Proc -> Step] /\ mem' \in [Proc -> Mem]
  BY DEF DrawInv, DrawTypes
<1> QED BY <1>1, QuietDraws

LEMMA MoveStep ==
    ASSUME Inv, DrawInv, NEW p \in Proc, NEW to \in Status, MoveContest(p, to)
    PROVE  DrawInv'
<1>1. UNCHANGED <<draws, results, drawLock, pc, mem>> /\ (Freeze \/ pools' = pools)
  BY DEF MoveContest, drawn, locks
<1> QED BY <1>1, FreezeGrows, SameDraws, OthersIdle

LEMMA EligibilityStep ==
    ASSUME Inv, DrawInv, NEW pilot \in Fickle, Eligibility(pilot)
    PROVE  DrawInv'
<1>1. UNCHANGED <<draws, results, drawLock, pc, mem, pools>>
  BY DEF Eligibility, drawn, locks, book
<1> QED BY <1>1, SameDraws, OthersIdle

LEMMA ReviewStep ==
    ASSUME Inv, DrawInv, NEW p \in Proc, NEW a \in Award, NEW s \in Verdicts, ReviewEntry(p, a, s)
    PROVE  DrawInv'
<1>1. /\ UNCHANGED <<results, drawLock>> /\ Goto(p, "idle") /\ mem' = [mem EXCEPT ![p] = Blank]
      /\ \/ pools' = Append(pools, PoolOf(ledger')) /\ draws' = Stale(draws)
         \/ pools' = pools /\ draws' = draws
  BY DEF ReviewEntry, Done, locks
<1>2. DOMAIN pools \subseteq DOMAIN pools'
  BY <1>1, PoolsGrow
<1>3. Later(draws') /\ \A d \in DOMAIN draws' : draws'[d].pool \in DOMAIN pools'
  <2>1. CASE draws' = draws
    BY <1>2, <2>1, SameDraws
  <2>2. CASE draws' = Stale(draws)
    BY <1>2, <2>2, StaleLater DEF DrawInv, PoolsKnown
  <2> QED BY <1>1, <2>1, <2>2
<1>4. "idle" \in Step
  BY DEF Step
<1> QED BY <1>1, <1>3, <1>4, BlankMem, WorkerGoes

LEMMA PrepareSteps ==
    ASSUME Inv, DrawInv, NEW p \in Proc, NEW seed \in Seeds,
           PrepareDraw(p, seed) \/ PrepareRun(p, seed)
    PROVE  DrawInv'
<1>1. Prepare(seed) /\ UNCHANGED <<results, drawLock>>
  BY DEF PrepareDraw, PrepareRun, locks
<1>2. /\ Later(draws') /\ Len(draws') \in DOMAIN draws'
      /\ \A d \in DOMAIN draws' : draws'[d].pool \in DOMAIN pools'
  BY <1>1, PreparedLater DEF Prepare
<1>3. CASE PrepareDraw(p, seed)
  BY <1>1, <1>2, <1>3, OthersIdle DEF PrepareDraw
<1>4. CASE PrepareRun(p, seed)
  <2> DEFINE n == Len(draws')
             m == [Blank EXCEPT !.draw = n]
  <2>1. n \in Nat
    BY <1>2 DEF Later
  <2>2. m \in Mem /\ m.draw = n /\ "executing" \in Step
    BY <2>1 DEF Blank, Mem, Step
  <2>3. Goto(p, "executing") /\ mem' = [mem EXCEPT ![p] = m]
    BY <1>4 DEF PrepareRun, Keep
  <2> HIDE DEF m
  <2>4. pc'[p] = "executing" /\ mem'[p] = m
    BY <2>2, <2>3, WorkerMoves
  <2>5. Knows(p)'
    BY <1>2, <2>2, <2>4 DEF Knows
  <2> QED BY <1>1, <1>2, <2>2, <2>3, <2>5, WorkerGoes
<1> QED BY <1>3, <1>4

LEMMA CheckStep ==
    ASSUME Inv, DrawInv, NEW p \in Proc, CheckDraws(p)
    PROVE  DrawInv'
<1> DEFINE d == Latest(Committed)
<1>0. Committed \in SUBSET (DOMAIN draws) /\ 0 \notin DOMAIN draws /\ DOMAIN draws \subseteq Nat
  BY DEF Committed, DrawInv, DrawTypes
<1>1. d # 0 => d \in DOMAIN draws /\ draws[d].status = "committed"
  <2>1. d \in Committed \cup {0}
    BY <1>0, LatestIs
  <2> QED BY <2>1 DEF Committed
<1>2. UNCHANGED <<results, drawLock, pools>>
  BY DEF CheckDraws, book
<1>3. "idle" \in Step /\ "executing" \in Step /\ "preparing" \in Step
  BY DEF Step
<1>4. CASE Done(p) /\ UNCHANGED draws
  <2>1. Later(draws') /\ \A e \in DOMAIN draws' : draws'[e].pool \in DOMAIN pools'
    BY <1>2, <1>4, SameDraws
  <2> QED BY <1>2, <1>3, <1>4, <2>1, BlankMem, WorkerGoes DEF Done
<1>5. CASE d # 0 /\ Keep(p, "executing", [Blank EXCEPT !.draw = d]) /\ UNCHANGED draws
  <2> DEFINE m == [Blank EXCEPT !.draw = d]
  <2>1. Later(draws') /\ \A e \in DOMAIN draws' : draws'[e].pool \in DOMAIN pools'
    BY <1>2, <1>5, SameDraws
  <2>2. d \in Nat
    BY <1>0, <1>1, <1>5
  <2>3. m \in Mem /\ m.draw = d
    <3> HIDE DEF d
    <3> QED BY <2>2 DEF Blank, Mem
  <2>4. Goto(p, "executing") /\ mem' = [mem EXCEPT ![p] = m]
    BY <1>5 DEF Keep
  <2> HIDE DEF m, d
  <2>5. pc'[p] = "executing" /\ mem'[p] = m
    BY <1>3, <2>3, <2>4, WorkerMoves
  <2>6. Knows(p)'
    BY <1>1, <1>5, <2>3, <2>5 DEF Knows
  <2> QED BY <1>2, <1>3, <2>1, <2>3, <2>4, <2>6, WorkerGoes
<1>6. CASE d # 0 /\ draws' = [draws EXCEPT ![d].status = "failed"] /\ Goto(p, "preparing") /\ mem' = mem
  <2> HIDE DEF d
  <2>1. d \in DOMAIN draws /\ draws[d].status = "committed" /\ draws \in Seq(Draw)
        /\ Len(draws) <= MaxDraws
    BY <1>1, <1>6 DEF DrawInv, DrawTypes
  <2>2. draws[d] \in Draw /\ [draws[d] EXCEPT !.status = "failed"] \in Draw
    <3>1. draws[d] \in Draw
      BY <2>1
    <3> QED BY <3>1 DEF Draw, DrawStatus
  <2>3. /\ draws' \in Seq(Draw) /\ Len(draws') = Len(draws) /\ DOMAIN draws' = DOMAIN draws
        /\ draws'[d] = [draws[d] EXCEPT !.status = "failed"]
        /\ \A e \in DOMAIN draws : e # d => draws'[e] = draws[e]
    BY <1>6, <2>1, <2>2
  <2>4. \A e \in DOMAIN draws : draws'[e].pos = draws[e].pos /\ draws'[e].pool = draws[e].pool
    BY <2>1, <2>2, <2>3 DEF Draw
  <2>5. Later(draws')
    BY <2>1, <2>3, <2>4 DEF Later
  <2>6. \A e \in DOMAIN draws' : draws'[e].pool \in DOMAIN pools'
    BY <1>2, <2>3, <2>4 DEF DrawInv, PoolsKnown
  <2> QED BY <1>2, <1>3, <1>6, <2>5, <2>6, BlankMem, WorkerGoes
<1>7. CASE Goto(p, "preparing") /\ mem' = mem /\ UNCHANGED draws
  <2>1. Later(draws') /\ \A e \in DOMAIN draws' : draws'[e].pool \in DOMAIN pools'
    BY <1>2, <1>7, SameDraws
  <2> QED BY <1>2, <1>3, <1>7, <2>1, BlankMem, WorkerGoes
<1> HIDE DEF d
<1>8. \/ Done(p) /\ UNCHANGED draws
      \/ d # 0 /\ Keep(p, "executing", [Blank EXCEPT !.draw = d]) /\ UNCHANGED draws
      \/ d # 0 /\ draws' = [draws EXCEPT ![d].status = "failed"] /\ Goto(p, "preparing") /\ mem' = mem
      \/ Goto(p, "preparing") /\ mem' = mem /\ UNCHANGED draws
  BY DEF CheckDraws, d
<1> QED BY <1>4, <1>5, <1>6, <1>7, <1>8

LEMMA BeginRedrawStep ==
    ASSUME Inv, DrawInv, NEW p \in Proc, BeginRedraw(p)
    PROVE  DrawInv'
<1> DEFINE d == Latest(Current(draws))
           m == [Blank EXCEPT !.draw = d]
<1>0. Current(draws) \in SUBSET (DOMAIN draws) /\ DOMAIN draws \subseteq Nat
  BY DEF Current, DrawInv, DrawTypes
<1>1. d = 0 \/ (d \in DOMAIN draws /\ draws[d].status = "completed")
  <2>1. d \in Current(draws) \cup {0}
    BY <1>0, LatestIs
  <2> QED BY <2>1 DEF Current
<1>2. UNCHANGED <<draws, results, drawLock, pools>> /\ Goto(p, "redrawing") /\ mem' = [mem EXCEPT ![p] = m]
  BY DEF BeginRedraw, book, drawn, locks, Keep
<1> HIDE DEF d
<1>3. d \in Nat
  BY <1>0, <1>1
<1>4. m \in Mem /\ m.draw = d /\ "redrawing" \in Step
  BY <1>3 DEF Blank, Mem, Step
<1> HIDE DEF m
<1>5. pc'[p] = "redrawing" /\ mem'[p] = m
  BY <1>2, <1>4, WorkerMoves
<1>6. Knows(p)'
  BY <1>1, <1>2, <1>4, <1>5 DEF Knows
<1>7. Later(draws') /\ \A e \in DOMAIN draws' : draws'[e].pool \in DOMAIN pools'
  BY <1>2, SameDraws
<1> QED BY <1>2, <1>4, <1>6, <1>7, WorkerGoes

LEMMA ExecuteRunStep ==
    ASSUME Inv, DrawInv, Inv', NEW p \in Proc, ExecuteRun(p)
    PROVE  DrawInv'
<1> DEFINE d == mem[p].draw
<1>1. d \in DOMAIN draws
  BY DEF DrawInv, Knows, ExecuteRun
<1>2. /\ UNCHANGED <<pools, drawLock>> /\ Goto(p, "finishing") /\ mem' = mem
      /\ draws' = Executed(d, draws, results).draws /\ results' = Executed(d, draws, results).results
  BY DEF ExecuteRun, book, locks
<1>3. "finishing" \in Step \ {"executing", "redrawing", "forfeiting"}
  BY DEF Step
<1>4. /\ pc' \in [Proc -> Step] /\ mem' \in [Proc -> Mem] /\ pc'[p] = "finishing"
      /\ \A q \in Proc \ {p} : pc'[q] = pc[q] /\ mem'[q] = mem[q]
  BY <1>2, <1>3, WorkerMoves, BlankMem DEF DrawInv, DrawTypes
<1>5. Later(draws) /\ \A e \in DOMAIN draws : draws[e].pool \in DOMAIN pools'
  BY <1>2 DEF DrawInv, DrawTypes, PoolsKnown, Later
<1>6. CASE draws[d].status = "committed"
  <2>1. results \in Seq(Result)
    BY DEF DrawInv, DrawTypes
  <2>2. \A q \in Proc : \/ pc'[q] \notin {"executing", "redrawing", "forfeiting"}
                        \/ pc'[q] = pc[q] /\ mem'[q] = mem[q]
    BY <1>3, <1>4
  <2> HIDE DEF d
  <2> QED BY <1>1, <1>2, <1>4, <1>5, <1>6, <2>1, <2>2, ExecuteDraws
<1>7. CASE draws[d].status # "committed"
  <2>1. draws' = draws /\ results' = results
    BY <1>2, <1>7 DEF Executed
  <2> QED BY <1>2, <1>3, <1>5, <2>1, BlankMem, WorkerGoes
<1> QED BY <1>6, <1>7

LEMMA CommitRedrawStep ==
    ASSUME Inv, DrawInv, Inv', NEW p \in Proc, NEW seed \in Seeds, CommitRedraw(p, seed)
    PROVE  DrawInv'
<1> DEFINE old == mem[p].draw
           n == Len(draws) + 1
           made == Append(Stale(draws), NewDraw(seed, AtLeast(Version, 1)))
           ds == Supersede(made, old, n)
           rs == Redrawn(results, old)
<1>1. /\ Len(draws) < MaxDraws /\ (old # 0 => drawLock[old] = Nobody)
      /\ (IF pools = <<>> THEN Freeze ELSE UNCHANGED <<nextNo, ledger, pools>>)
      /\ draws' = Executed(n, ds, rs).draws /\ results' = Executed(n, ds, rs).results
      /\ Goto(p, "idle") /\ mem' = [mem EXCEPT ![p] = Blank] /\ UNCHANGED drawLock
      /\ pc[p] = "redrawing"
  BY DEF CommitRedraw, Done, locks
<1>2. old = 0 \/ (old \in DOMAIN draws /\ draws[old].status = "completed")
  BY <1>1 DEF DrawInv, Knows
<1>3. /\ Later(made) /\ Len(made) = n /\ n \in DOMAIN made
      /\ made[n].status = "committed" /\ n \notin DOMAIN draws
      /\ \A e \in DOMAIN made : made[e].pool \in DOMAIN pools'
  <2>1. \A x : x = made => /\ Later(x) /\ Len(x) = n /\ Len(x) \in DOMAIN x
                           /\ x[Len(x)].status = "committed" /\ Len(x) \notin DOMAIN draws
                           /\ \A e \in DOMAIN x : x[e].pool \in DOMAIN pools'
    <3> SUFFICES ASSUME NEW x, x = made
                 PROVE  /\ Later(x) /\ Len(x) = n /\ Len(x) \in DOMAIN x
                        /\ x[Len(x)].status = "committed" /\ Len(x) \notin DOMAIN draws
                        /\ \A e \in DOMAIN x : x[e].pool \in DOMAIN pools'
      OBVIOUS
    <3> QED BY <1>1, PreparedLater
  <2> HIDE DEF made, n
  <2> QED BY <2>1
<1> HIDE DEF made
<1>4. /\ Later(ds) /\ DOMAIN ds = DOMAIN made /\ ds[n].status = "committed"
      /\ \A e \in DOMAIN ds : ds[e].pool \in DOMAIN pools'
  <2>1. CASE old = 0
    BY <1>3, <2>1 DEF Supersede
  <2>2. CASE old # 0
    <3>1. /\ made \in Seq(Draw) /\ Len(made) <= MaxDraws /\ DOMAIN draws \subseteq DOMAIN made
          /\ old \in DOMAIN made /\ old # n /\ n \in Nat
      <4>1. n \in Nat
        BY DEF DrawInv, DrawTypes
      <4> QED BY <1>2, <1>3, <2>2, <4>1 DEF Later
    <3> HIDE DEF old, n
    <3>2. made[old] \in Draw
      BY <3>1
    <3>3. [made[old] EXCEPT !.superseded = n] \in Draw
      BY <3>1, <3>2 DEF Draw
    <3>4. ds = [made EXCEPT ![old] = [made[old] EXCEPT !.superseded = n]]
      BY <2>2 DEF Supersede
    <3> HIDE DEF ds
    <3>5. /\ ds \in Seq(Draw) /\ Len(ds) = Len(made) /\ DOMAIN ds = DOMAIN made
          /\ ds[old] = [made[old] EXCEPT !.superseded = n]
          /\ \A e \in DOMAIN made : e # old => ds[e] = made[e]
      BY <3>1, <3>3, <3>4
    <3>6. \A e \in DOMAIN made : /\ ds[e].status = made[e].status /\ ds[e].pos = made[e].pos
                                 /\ ds[e].pool = made[e].pool
      BY <3>2, <3>5 DEF Draw
    <3> QED BY <1>3, <3>1, <3>5, <3>6 DEF Later
  <2> QED BY <2>1, <2>2
<1>5. /\ rs \in Seq(Result) /\ DOMAIN rs = DOMAIN results
      /\ \A r \in DOMAIN results :
            /\ rs[r] = results[r] \/ rs[r] = [results[r] EXCEPT !.status = "redrawn"]
            /\ results[r].draw # old => rs[r] = results[r]
  <2> HIDE DEF old
  <2>1. results \in Seq(Result) /\ Len(results) \in Nat /\ DOMAIN results = 1..Len(results)
    BY DEF DrawInv, DrawTypes
  <2>2. ASSUME NEW r \in 1..Len(results)
        PROVE  /\ rs[r] = results[r] \/ rs[r] = [results[r] EXCEPT !.status = "redrawn"]
               /\ results[r].draw # old => rs[r] = results[r]
               /\ rs[r] \in Result
    <3>1. results[r] \in Result
      BY <2>1
    <3>2. [results[r] EXCEPT !.status = "redrawn"] \in Result
      BY <3>1 DEF Result
    <3>3. rs[r] = IF r \in LiveOf(results, old) THEN [results[r] EXCEPT !.status = "redrawn"] ELSE results[r]
      BY <2>1 DEF Redrawn
    <3> HIDE DEF rs
    <3> QED BY <3>1, <3>2, <3>3 DEF LiveOf
  <2>3. rs = [r \in 1..Len(results) |-> rs[r]]
    BY <2>1 DEF Redrawn
  <2> HIDE DEF rs
  <2> QED BY <2>1, <2>2, <2>3
<1>6. "idle" \in Step
  BY DEF Step
<1>7. /\ pc' \in [Proc -> Step] /\ mem' \in [Proc -> Mem] /\ pc'[p] = "idle"
      /\ \A q \in Proc \ {p} : pc'[q] = pc[q] /\ mem'[q] = mem[q]
  BY <1>1, <1>6, WorkerMoves, BlankMem
<1>8. ASSUME NEW q \in Proc, pc[q] = "forfeiting" PROVE rs[mem[q].result] = results[mem[q].result]
  <2>1. Holds(q)
    BY <1>8 DEF DrawInv, Knows
  <2>2. mem[q].draw \in DOMAIN draws /\ mem[q].draw # 0
    BY <2>1 DEF Holds, DrawInv, ResultsOfCompleted, DrawTypes
  <2>3. mem[q].draw # old
    BY <1>1, <2>1, <2>2, WorkerAssumption DEF Holds
  <2> HIDE DEF rs, old
  <2> QED BY <1>5, <2>1, <2>3 DEF Holds
<1> HIDE DEF ds, rs, old, n
<1>9. n \in DOMAIN ds
  BY <1>3, <1>4
<1>10. \A r \in DOMAIN results : rs[r] = results[r] \/ rs[r] = [results[r] EXCEPT !.status = "redrawn"]
  BY <1>5
<1>11. \A q \in Proc :
          \/ pc'[q] \notin {"executing", "redrawing", "forfeiting"}
          \/ /\ pc'[q] = pc[q] /\ mem'[q] = mem[q]
             /\ pc[q] = "forfeiting" => rs[mem[q].result] = results[mem[q].result]
  BY <1>7, <1>8
<1> QED BY <1>1, <1>4, <1>5, <1>7, <1>9, <1>10, <1>11, ExecuteDraws

-----------------------------------------------------------------------------

\* A forfeit takes the lock of a draw nobody holds and reads its chain.
LEMMA BeginForfeitStep ==
    ASSUME Inv, DrawInv, NEW p \in Proc, NEW r \in DOMAIN results, BeginForfeit(p, r)
    PROVE  DrawInv'
<1> DEFINE d == results[r].draw
           m == [Blank EXCEPT !.result = r, !.draw = d, !.pos = draws[d].pos, !.barred = Barred(r)]
<1>1. /\ results[r].status = "won" /\ drawLock[d] = Nobody
      /\ drawLock' = [drawLock EXCEPT ![d] = p] /\ UNCHANGED <<draws, results, pools>>
      /\ Goto(p, "forfeiting") /\ mem' = [mem EXCEPT ![p] = m]
  BY DEF BeginForfeit, DrawHeld, Keep, book, drawn
<1>2. /\ draws \in Seq(Draw) /\ Len(draws) <= MaxDraws /\ results \in Seq(Result)
      /\ drawLock \in [1..MaxDraws -> Proc \cup {Nobody}]
      /\ d \in DOMAIN draws /\ Len(draws) \in Nat /\ DOMAIN draws = 1..Len(draws)
      /\ \A s \in DOMAIN results : results[s] \in Result
  BY DEF DrawInv, DrawTypes, ResultsOfCompleted
<1>3. draws[d] \in Draw /\ d \in 1..MaxDraws /\ d \in Nat /\ r \in Nat
  BY <1>2, BoundAssumption
<1>4. Barred(r) \in SUBSET Pilot
  <2>1. \A s \in DOMAIN results : results[s].who \in Pilot
    BY <1>2 DEF Result
  <2> QED BY <2>1 DEF Barred, LiveOf
<1> HIDE DEF d
<1>5. m \in Mem /\ m.result = r /\ m.draw = d /\ m.pos = draws[d].pos /\ m.barred = Barred(r)
  BY <1>3, <1>4 DEF Blank, Mem, Draw
<1> HIDE DEF m
<1>6. /\ pc' \in [Proc -> Step] /\ mem' \in [Proc -> Mem] /\ pc'[p] = "forfeiting" /\ mem'[p] = m
      /\ \A q \in Proc \ {p} : pc'[q] = pc[q] /\ mem'[q] = mem[q]
  <2>1. "forfeiting" \in Step
    BY DEF Step
  <2> QED BY <1>1, <1>5, <2>1, WorkerMoves
<1>7. /\ drawLock' \in [1..MaxDraws -> Proc \cup {Nobody}] /\ drawLock'[d] = p
      /\ \A e \in 1..MaxDraws : e # d => drawLock'[e] = drawLock[e]
  BY <1>1, <1>2, <1>3
<1>8. DrawTypes' /\ PoolsKnown' /\ ResultsOfCompleted' /\ ChainUsedOnce' /\ OneWinEach'
  BY <1>1, <1>6, <1>7 DEF DrawInv, DrawTypes, PoolsKnown, ResultsOfCompleted, ChainUsedOnce,
                          OneWinEach, LiveOf
<1>9. Knows(p)'
  <2>1. ASSUME OnePer, NEW s \in LiveOf(results, d) \ {r} PROVE results[s].who \in Barred(r)
    BY <2>1 DEF Barred, d
  <2>2. Holds(p)'
    BY <1>1, <1>5, <1>6, <1>7, <2>1 DEF Holds, d, LiveOf
  <2> QED BY <1>6, <2>2 DEF Knows
<1>10. ASSUME NEW q \in Proc \ {p} PROVE Knows(q)'
  <2>1. Knows(q) /\ pc'[q] = pc[q] /\ mem'[q] = mem[q]
    BY <1>6 DEF DrawInv
  <2>2. ASSUME Holds(q) PROVE Holds(q)'
    <3>1. mem[q].draw # d
      BY <1>1, <2>2, WorkerAssumption DEF Holds
    <3>2. mem[q].draw \in 1..MaxDraws
      BY <1>2, <2>2, BoundAssumption DEF Holds, DrawInv, ResultsOfCompleted
    <3> QED BY <1>1, <1>7, <2>1, <2>2, <3>1, <3>2 DEF Holds, LiveOf
  <2> QED BY <1>1, <2>1, <2>2 DEF Knows
<1> QED BY <1>8, <1>9, <1>10 DEF DrawInv

\* A forfeit and its replacement, from the draw's next roll on.
LEMMA ForfeitStep ==
    ASSUME Inv, DrawInv, NEW p \in Proc, NEW replace \in BOOLEAN, Forfeit(p, replace)
    PROVE  DrawInv'
<1> DEFINE r == mem[p].result
           d == mem[p].draw
           pool == pools[draws[d].pool]
           hits == Hits(pool, draws[d].seed, mem[p].pos, (Owners(pool) \cap eligible) \ mem[p].barred)
           i == Smallest(hits)
           hit == Hit(pool, draws[d].seed, i)
           out == [results EXCEPT ![r].status = "forfeited"]
           new == [draw |-> d, prize |-> results[r].prize, who |-> hit.who,
                   ticket |-> hit.ticket, pos |-> i, status |-> "won", replaces |-> r]
           won == replace /\ hits # {}
           at == IF hits # {} THEN i + 1 ELSE mem[p].pos + Budget
           n == Len(results)
<1>1. /\ pc[p] = "forfeiting" /\ results' = (IF won THEN Append(out, new) ELSE out)
      /\ draws' = (IF ~replace THEN draws ELSE [draws EXCEPT ![d].pos = at])
      /\ drawLock' = [drawLock EXCEPT ![d] = Nobody] /\ pools' = pools
      /\ Goto(p, "idle") /\ mem' = [mem EXCEPT ![p] = Blank]
  BY DEF Forfeit, Done, book
<1>2. Holds(p)
  BY <1>1 DEF DrawInv, Knows
<1>3. /\ draws \in Seq(Draw) /\ Len(draws) <= MaxDraws /\ results \in Seq(Result)
      /\ drawLock \in [1..MaxDraws -> Proc \cup {Nobody}]
      /\ Len(draws) \in Nat /\ DOMAIN draws = 1..Len(draws)
      /\ n \in Nat /\ DOMAIN results = 1..n /\ \A s \in 1..n : results[s] \in Result
      /\ DOMAIN draws \subseteq 1..MaxDraws
  BY BoundAssumption DEF DrawInv, DrawTypes
<1>4. /\ r \in 1..n /\ results[r].draw = d /\ results[r].status = "won" /\ d \in DOMAIN draws
      /\ drawLock[d] = p /\ mem[p].pos = draws[d].pos /\ draws[d] \in Draw /\ draws[d].pos \in Nat
      /\ draws[d].status = "completed" /\ d \in 1..MaxDraws /\ d \in Nat
  <2>1. /\ r \in 1..n /\ results[r].draw = d /\ results[r].status = "won" /\ d \in DOMAIN draws
        /\ drawLock[d] = p /\ mem[p].pos = draws[d].pos /\ draws[d].status = "completed"
    BY <1>2, <1>3 DEF Holds, DrawInv, ResultsOfCompleted
  <2> HIDE DEF r, d, pool, i, hit, out, new, hits
  <2>2. draws[d] \in Draw /\ d \in 1..MaxDraws /\ d \in Nat
    BY <1>3, <2>1
  <2> QED BY <2>1, <2>2 DEF Draw
<1>5. pool \in Pool /\ Lined(pool) /\ draws[d].seed \in Seeds
  <2>1. pool \in Pool /\ Agrees(pool, ledger)
    BY <1>4 DEF Inv, DrawInv, PoolsKnown
  <2> QED BY <1>4, <2>1, PoolLined DEF Inv, Draw
<1> HIDE DEF r, d, pool, i, hit
<1>6. ASSUME hits # {}
      PROVE  /\ i \in Nat /\ i >= draws[d].pos
             /\ hit.who \in Pilot /\ hit.who \notin mem[p].barred /\ hit.ticket \in Int
  <2>1. hits \in SUBSET Nat /\ \A j \in hits : j >= draws[d].pos
    BY <1>4, DrawAssumption DEF Hits
  <2>2. i \in hits
    <3> HIDE DEF hits
    <3> QED BY <1>6, <2>1, SmallestIs DEF i
  <2> DEFINE o == Roll(draws[d].seed, i, Size(pool))
  <2>3. OwnerAt(pool, o) \in Owners(pool) /\ OwnerAt(pool, o) \notin mem[p].barred
    BY <2>2 DEF Hits
  <2>4. pool.entries # {}
    BY <2>3 DEF Owners
  <2>5. hit.who = OwnerAt(pool, o) /\ hit.ticket = TicketNo(pool, o)
    BY DEF Hit, hit
  <2> HIDE DEF hits
  <2>6. i \in Nat
    BY <2>1, <2>2
  <2>7. Owners(pool) \subseteq Pilot /\ TicketNo(pool, o) \in Int
    BY <1>5, <2>4, <2>6, RollHits
  <2> QED BY <2>1, <2>2, <2>3, <2>5, <2>6, <2>7
<1> HIDE DEF hits
<1>7. at \in Nat /\ at > draws[d].pos
  BY <1>4, <1>6, DrawAssumption
<1>8. won => i < at
  BY <1>6
<1>9. won => new \in Result
  <2> SUFFICES ASSUME won PROVE new \in Result
    OBVIOUS
  <2>1. results[r] \in Result /\ r \in Nat /\ hits # {}
    BY <1>3, <1>4
  <2>2. results[r].prize \in Nat
    BY <2>1 DEF Result
  <2> HIDE DEF won
  <2> QED BY <1>4, <1>6, <2>1, <2>2 DEF Result
<1>10. /\ out \in Seq(Result) /\ Len(out) = n /\ DOMAIN out = 1..n
       /\ out[r] = [results[r] EXCEPT !.status = "forfeited"]
       /\ \A s \in 1..n : s # r => out[s] = results[s]
  <2>1. results[r] \in Result
    BY <1>3, <1>4
  <2>2. [results[r] EXCEPT !.status = "forfeited"] \in Result
    BY <2>1 DEF Result
  <2>3. out = [results EXCEPT ![r] = [results[r] EXCEPT !.status = "forfeited"]]
    OBVIOUS
  <2> HIDE DEF out
  <2> QED BY <1>3, <1>4, <2>2, <2>3
<1>11. new.draw = d /\ new.prize = results[r].prize /\ new.who = hit.who /\ new.pos = i
  OBVIOUS
<1> HIDE DEF out, new, at
<1>12. /\ results' \in Seq(Result)
       /\ \A s \in 1..n : results'[s] = out[s]
       /\ IF won THEN DOMAIN results' = 1..(n + 1) /\ results'[n + 1] = new
                 ELSE DOMAIN results' = 1..n
  <2>1. CASE won
    <3>1. results' = Append(out, new) /\ new \in Result
      BY <1>1, <1>9, <2>1
    <3>2. /\ results' \in Seq(Result) /\ Len(results') = n + 1 /\ results'[n + 1] = new
          /\ \A s \in 1..n : results'[s] = out[s]
      BY <1>10, <3>1, AppendProperties
    <3>3. DOMAIN results' = 1..(n + 1)
      BY <3>2
    <3> QED BY <2>1, <3>2, <3>3
  <2>2. CASE ~won
    BY <1>1, <1>10, <2>2
  <2> QED BY <2>1, <2>2
<1>13. ASSUME NEW s \in 1..n
       PROVE  /\ results'[s].draw = results[s].draw /\ results'[s].prize = results[s].prize
              /\ results'[s].who = results[s].who /\ results'[s].pos = results[s].pos
              /\ results'[s].status = "won" => results[s].status = "won" /\ s # r
              /\ s # r => results'[s] = results[s]
  <2>1. results[s] \in Result /\ results[r] \in Result
    BY <1>3, <1>4
  <2>2. results'[s] = IF s = r THEN [results[r] EXCEPT !.status = "forfeited"] ELSE results[s]
    BY <1>10, <1>12
  <2> QED BY <2>1, <2>2 DEF Result
<1>14. \A s \in DOMAIN results' : s \in 1..n \/ (s = n + 1 /\ won /\ results'[s] = new)
  BY <1>3, <1>12
<1>15. 1..n \subseteq DOMAIN results' /\ n + 1 \notin 1..n
  BY <1>3, <1>12
<1> HIDE DEF n, won
<1>16. /\ draws' \in Seq(Draw) /\ Len(draws') = Len(draws) /\ DOMAIN draws' = DOMAIN draws
       /\ draws'[d].pos = IF replace THEN at ELSE draws[d].pos
       /\ \A e \in DOMAIN draws : /\ draws'[e].pool = draws[e].pool
                                  /\ draws'[e].status = draws[e].status
                                  /\ e # d => draws'[e] = draws[e]
  <2>1. CASE ~replace
    BY <1>1, <1>3, <2>1
  <2>2. CASE replace
    <3>1. draws' = [draws EXCEPT ![d] = [draws[d] EXCEPT !.pos = at]]
      BY <1>1, <2>2
    <3>2. [draws[d] EXCEPT !.pos = at] \in Draw
      BY <1>4, <1>7 DEF Draw
    <3>3. /\ draws' \in Seq(Draw) /\ Len(draws') = Len(draws) /\ DOMAIN draws' = DOMAIN draws
          /\ draws'[d] = [draws[d] EXCEPT !.pos = at]
          /\ \A e \in DOMAIN draws : e # d => draws'[e] = draws[e]
      BY <1>3, <1>4, <3>1, <3>2
    <3> QED BY <1>4, <2>2, <3>3 DEF Draw
  <2> QED BY <2>1, <2>2
<1>17. /\ drawLock' \in [1..MaxDraws -> Proc \cup {Nobody}]
       /\ \A e \in 1..MaxDraws : e # d => drawLock'[e] = drawLock[e]
  BY <1>1, <1>3, <1>4
<1>18. /\ pc' \in [Proc -> Step] /\ mem' \in [Proc -> Mem] /\ pc'[p] = "idle"
       /\ \A q \in Proc \ {p} : pc'[q] = pc[q] /\ mem'[q] = mem[q]
  <2>1. "idle" \in Step
    BY DEF Step
  <2> QED BY <1>1, <2>1, BlankMem, WorkerMoves
<1>19. DrawTypes' /\ PoolsKnown'
  BY <1>1, <1>3, <1>12, <1>16, <1>17, <1>18 DEF DrawInv, DrawTypes, PoolsKnown
<1>20. ResultsOfCompleted'
  <2> SUFFICES ASSUME NEW s \in DOMAIN results'
               PROVE  /\ results'[s].draw \in DOMAIN draws'
                      /\ draws'[results'[s].draw].status = "completed"
    BY DEF ResultsOfCompleted
  <2>1. CASE s \in 1..n
    BY <1>3, <1>13, <1>16, <2>1 DEF DrawInv, ResultsOfCompleted
  <2>2. CASE results'[s] = new
    BY <1>4, <1>11, <1>16, <2>2
  <2> QED BY <1>14, <2>1, <2>2
<1>21. ChainUsedOnce'
  <2>1. ASSUME NEW s \in 1..n
        PROVE  /\ results[s].draw \in DOMAIN draws /\ results[s].pos \in Nat
               /\ results[s].pos < draws[results[s].draw].pos
               /\ results[s].draw = d => results[s].pos < draws[d].pos
    <3>1. results[s] \in Result
      BY <1>3
    <3> QED BY <1>3, <3>1 DEF DrawInv, ChainUsedOnce, ResultsOfCompleted, Result
  <2>2. ASSUME NEW s \in DOMAIN results' PROVE results'[s].pos < draws'[results'[s].draw].pos
    <3>1. CASE s \in 1..n
      <4>1. CASE results[s].draw = d
        BY <1>4, <1>7, <1>13, <1>16, <2>1, <3>1, <4>1
      <4>2. CASE results[s].draw # d
        BY <1>13, <1>16, <2>1, <3>1, <4>2
      <4> QED BY <4>1, <4>2
    <3>2. CASE won /\ results'[s] = new
      BY <1>8, <1>11, <1>16, <3>2 DEF won
    <3> QED BY <1>14, <3>1, <3>2
  <2>3. ASSUME NEW s \in DOMAIN results', NEW t \in DOMAIN results', s # t,
               results'[s].draw = results'[t].draw
        PROVE  results'[s].pos # results'[t].pos
    <3>1. CASE s \in 1..n /\ t \in 1..n
      BY <1>3, <1>13, <2>3, <3>1 DEF DrawInv, ChainUsedOnce
    <3>2. ASSUME NEW x \in 1..n, NEW y \in DOMAIN results', won, results'[y] = new,
                 results'[x].draw = results'[y].draw
          PROVE  results'[x].pos # results'[y].pos
      <4>1. results[x].pos \in Nat /\ results[x].pos < draws[d].pos /\ results'[x].pos = results[x].pos
        BY <1>11, <1>13, <2>1, <3>2
      <4>2. i \in Nat /\ i >= draws[d].pos /\ results'[y].pos = i
        BY <1>6, <1>11, <3>2 DEF won
      <4> QED BY <1>4, <4>1, <4>2
    <3> QED BY <1>14, <2>3, <3>1, <3>2
  <2> QED BY <2>2, <2>3 DEF ChainUsedOnce
<1>22. OneWinEach'
  <2> SUFFICES ASSUME NEW e \in DOMAIN draws', NEW s \in LiveOf(results', e),
                      NEW t \in LiveOf(results', e), s # t
               PROVE  /\ results'[s].prize # results'[t].prize
                      /\ OnePer => results'[s].who # results'[t].who
    BY DEF OneWinEach, LiveOf
  <2>0. /\ s \in DOMAIN results' /\ results'[s].draw = e /\ results'[s].status = "won"
        /\ t \in DOMAIN results' /\ results'[t].draw = e /\ results'[t].status = "won"
    BY DEF LiveOf
  <2>1. ASSUME NEW x \in 1..n, results'[x].status = "won"
        PROVE  x \in LiveOf(results, results'[x].draw) \ {r}
    BY <1>3, <1>13, <2>1 DEF LiveOf
  <2>2. CASE s \in 1..n /\ t \in 1..n
    <3>1. s \in LiveOf(results, e) /\ t \in LiveOf(results, e) /\ e \in DOMAIN draws
      BY <1>16, <2>0, <2>1, <2>2
    <3> QED BY <1>13, <2>2, <3>1 DEF DrawInv, OneWinEach
  <2>3. ASSUME NEW x \in 1..n, results'[x].status = "won", results'[x].draw = d, won
        PROVE  results'[x].prize # new.prize /\ (OnePer => results'[x].who # new.who)
    <3>1. x \in LiveOf(results, d) \ {r} /\ r \in LiveOf(results, d)
      BY <1>3, <1>4, <2>1, <2>3 DEF LiveOf
    <3>2. results[x].prize # results[r].prize
      BY <1>4, <3>1 DEF DrawInv, OneWinEach
    <3>3. OnePer => results[x].who \in mem[p].barred
      BY <1>2, <3>1 DEF Holds, r, d
    <3>4. hit.who \notin mem[p].barred
      BY <1>6, <2>3 DEF won
    <3> QED BY <1>11, <1>13, <3>2, <3>3, <3>4
  <2> QED BY <1>11, <1>14, <2>0, <2>2, <2>3
<1>23. ASSUME NEW q \in Proc PROVE Knows(q)'
  <2>1. CASE q = p
    BY <1>18, <2>1 DEF Knows
  <2>2. CASE q # p
    <3>1. Knows(q) /\ pc'[q] = pc[q] /\ mem'[q] = mem[q]
      BY <1>18, <2>2 DEF DrawInv
    <3>2. ASSUME Holds(q) PROVE Holds(q)'
      <4>1. mem[q].draw # d /\ mem[q].result \in 1..n /\ results[mem[q].result].draw = mem[q].draw
        BY <1>3, <1>4, <2>2, <3>2 DEF Holds
      <4>2. mem[q].result # r
        BY <1>4, <4>1
      <4>3. mem[q].draw \in DOMAIN draws /\ mem[q].draw \in 1..MaxDraws
        BY <1>3, <4>1 DEF DrawInv, ResultsOfCompleted
      <4>4. results'[mem[q].result] = results[mem[q].result] /\ mem[q].result \in DOMAIN results'
        BY <1>13, <1>15, <4>1, <4>2
      <4>5. ASSUME OnePer, NEW s \in LiveOf(results', mem[q].draw) \ {mem[q].result}
            PROVE  results'[s].who \in mem[q].barred
        <5>1. s \in DOMAIN results' /\ results'[s].draw = mem[q].draw /\ results'[s].status = "won"
          BY DEF LiveOf
        <5>2. s \in 1..n
          BY <1>11, <1>14, <4>1, <5>1
        <5>3. s \in LiveOf(results, mem[q].draw) \ {mem[q].result}
          BY <1>3, <1>13, <5>1, <5>2 DEF LiveOf
        <5> QED BY <1>13, <3>2, <4>5, <5>2, <5>3 DEF Holds
      <4> QED BY <1>16, <1>17, <3>1, <3>2, <4>1, <4>3, <4>4, <4>5 DEF Holds
    <3> QED BY <1>16, <3>1, <3>2 DEF Knows
  <2> QED BY <2>1, <2>2
<1> QED BY <1>19, <1>20, <1>21, <1>22, <1>23 DEF DrawInv

-----------------------------------------------------------------------------

LEMMA StepDraws == Inv /\ DrawInv /\ [Next]_vars => DrawInv'
<1> SUFFICES ASSUME Inv, DrawInv, [Next]_vars PROVE DrawInv'
  OBVIOUS
<1>0. Inv'
  BY StepInv
<1>1. CASE UNCHANGED vars
  <2>1. UNCHANGED <<draws, results, drawLock, pc, mem, pools>>
    BY <1>1 DEF vars
  <2> QED BY <2>1, SameDraws, OthersIdle
<1>2. ASSUME NEW p \in Proc,
             \/ BeginSweep(p) \/ SweepAward(p) \/ SweepNumbers(p) \/ BeginGrant(p) \/ GrantTickets(p)
             \/ BeginReview(p) \/ BeginRun(p) \/ FinishRun(p)
      PROVE  DrawInv'
  BY <1>2, BookSteps
<1>3. ASSUME NEW p \in Proc, NEW to \in Status, MoveContest(p, to) PROVE DrawInv'
  BY <1>3, MoveStep
<1>4. ASSUME NEW p \in Proc, NEW a \in Award, NEW s \in Verdicts, ReviewEntry(p, a, s) PROVE DrawInv'
  BY <1>4, ReviewStep
<1>5. ASSUME NEW p \in Proc, NEW seed \in Seeds, PrepareDraw(p, seed) \/ PrepareRun(p, seed)
      PROVE  DrawInv'
  BY <1>5, PrepareSteps
<1>6. ASSUME NEW p \in Proc, NEW seed \in Seeds, CommitRedraw(p, seed) PROVE DrawInv'
  BY <1>0, <1>6, CommitRedrawStep
<1>7. ASSUME NEW p \in Proc, CheckDraws(p) PROVE DrawInv'
  BY <1>7, CheckStep
<1>8. ASSUME NEW p \in Proc, ExecuteRun(p) PROVE DrawInv'
  BY <1>0, <1>8, ExecuteRunStep
<1>9. ASSUME NEW p \in Proc, BeginRedraw(p) PROVE DrawInv'
  BY <1>9, BeginRedrawStep
<1>10. ASSUME NEW p \in Proc, NEW r \in DOMAIN results, BeginForfeit(p, r) PROVE DrawInv'
  BY <1>10, BeginForfeitStep
<1>11. ASSUME NEW p \in Proc, NEW replace \in BOOLEAN, Forfeit(p, replace) PROVE DrawInv'
  BY <1>11, ForfeitStep
<1>12. ASSUME NEW pilot \in Fickle, Eligibility(pilot) PROVE DrawInv'
  BY <1>12, EligibilityStep
<1> QED BY <1>1, <1>2, <1>3, <1>4, <1>5, <1>6, <1>7, <1>8, <1>9, <1>10, <1>11, <1>12 DEF Next

LEMMA InitDraws == Init => DrawInv
<1> SUFFICES ASSUME Init PROVE DrawInv
  OBVIOUS
<1>1. draws = <<>> /\ results = <<>> /\ pc = [p \in Proc |-> "idle"] /\ mem = [p \in Proc |-> Blank]
      /\ drawLock = [d \in 1..MaxDraws |-> Nobody]
  BY DEF Init
<1>2. DrawTypes
  BY <1>1, BlankMem, BoundAssumption DEF DrawTypes, Step
<1>3. PoolsKnown /\ ResultsOfCompleted /\ ChainUsedOnce /\ OneWinEach /\ \A p \in Proc : Knows(p)
  BY <1>1 DEF PoolsKnown, ResultsOfCompleted, ChainUsedOnce, OneWinEach, Knows
<1> QED BY <1>2, <1>3 DEF DrawInv

\* A forfeit in progress holds its draw and knows its winners, a draw that has
\* results is never executed again, and both draw properties hold.
THEOREM DrawsHold == Spec => []DrawInv
<1> QED BY NumbersHold, InitDraws, StepDraws, PTL DEF Spec

\* However runs, redraws, forfeits and reviews interleave, no roll of a draw's
\* chain decides two results, and a roll that decided one is consumed.
THEOREM ChainNeverReused == Spec => []ChainUsedOnce
<1>1. DrawInv => ChainUsedOnce
  BY DEF DrawInv
<1> QED BY <1>1, DrawsHold, PTL

\* A prize of a draw has one live winner, and under one_prize_per_pilot a pilot
\* one live prize, for any chains, budgets and pools.
THEOREM WinnersApart == Spec => []OneWinEach
<1>1. DrawInv => OneWinEach
  BY DEF DrawInv
<1> QED BY <1>1, DrawsHold, PTL
=============================================================================
