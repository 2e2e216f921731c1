------------------------ MODULE PurchaseOrdersProofs ------------------------
(***************************************************************************)
(* Proofs about PurchaseOrders for any orders, lines, contracts, wallet    *)
(* entries, people and workers: that what is received is received once and *)
(* that complete evidence closes an order.                                 *)
(*                                                                         *)
(* A line's automatic receipts are bounded by the contract of its order,   *)
(* so the invariant says besides that an order without a contract has none *)
(* (Unmatched); that an order is closed follows from the top of the ladder *)
(* being the state complete evidence derives.                              *)
(***************************************************************************)
EXTENDS PurchaseOrders, TLAPS

Status == {"draft", "submitted", "cancelled", "disputed", "overdue", "approved",
           "contract_expected", "contract_available", "accepted", "partial",
           "delivered", "reconciled"}
Working == {"matching", "confirming", "rereading", "landing", "refreshing", "settling"}
Saw == {"outstanding", "finished", "deleted", None}
Memory == [order : Order \cup {None}, contract : Contract \cup {None}, saw : Saw,
           entry : Entry \cup {None}]

Tables ==
    /\ status \in [Order -> Status]
    /\ match \in [Order -> Contract \cup {None}] /\ paid \in [Order -> Entry \cup {None}]
    /\ seen \in [Order -> Saw] /\ snapshot \in [Contract -> Saw]
    /\ received \in [Line -> Nat] /\ auto \in [Line -> Nat]
    /\ manual \in [Line -> Nat] /\ stock \in [Line -> Nat]
Workers ==
    /\ pc \in [Proc -> Working \cup {"idle"}] /\ mem \in [Proc -> Memory]
    /\ \A p \in Proc :
          /\ pc[p] \in Working => mem[p].order \in Order
          /\ pc[p] \in {"matching", "confirming"} => mem[p].contract \in Contract
          /\ pc[p] = "settling" => mem[p].entry \in Entry
TypeInv == Tables /\ Workers

\* A line of an order without a contract has no automatic receipts.
Unmatched == \A l \in Line : match[OrderOf[l]] = None => auto[l] = 0

-----------------------------------------------------------------------------
(* The ladder                                                              *)

LEMMA LadderTop ==
    /\ DOMAIN Ladder = 1..7 /\ Ladder[7] = "reconciled"
    /\ \A i \in 1..6 : Ladder[i] # "reconciled"
    /\ \A i \in 1..7 : Ladder[i] \in Status
BY DEF Ladder, Status

LEMMA TopRank == Rank("reconciled") = 7 /\ \A s : Rank(s) \in Nat /\ Rank(s) <= 7
<1>1. ASSUME NEW s PROVE Rank(s) \in Nat /\ Rank(s) <= 7
  <2>1. CASE \E i \in 1..7 : Ladder[i] = s
    <3>1. (CHOOSE i \in 1..7 : Ladder[i] = s) \in 1..7
      BY <2>1
    <3> QED BY <2>1, <3>1, LadderTop DEF Rank
  <2>2. CASE ~ \E i \in 1..7 : Ladder[i] = s
    BY <2>2, LadderTop DEF Rank
  <2> QED BY <2>1, <2>2
<1>2. Rank("reconciled") = 7
  <2>1. \A i \in 1..7 : Ladder[i] = "reconciled" => i = 7
    BY LadderTop
  <2>2. \E i \in 1..7 : Ladder[i] = "reconciled"
    BY LadderTop
  <2>3. (CHOOSE i \in 1..7 : Ladder[i] = "reconciled") = 7
    BY <2>1, <2>2
  <2> QED BY <2>2, <2>3, LadderTop DEF Rank
<1> QED BY <1>1, <1>2

LEMMA DerivedStatus ==
    ASSUME NEW o, NEW now \in Status, NEW c, NEW cs, NEW e, NEW got
    PROVE  /\ Derived(o, now, c, cs, e, got) \in Status
           /\ Advanced(o, now, c, cs, e, got) \in Status
BY DEF Derived, Advanced, Status

\* Complete evidence derives the top of the ladder, and nothing outranks it.
LEMMA CompleteCloses ==
    ASSUME NEW o, NEW now, NEW c, NEW cs, NEW e, NEW got,
           FullyReceived(o, got), e # None
    PROVE  /\ Derived(o, now, c, cs, e, got) = "reconciled"
           /\ Advanced(o, now, c, cs, e, got) \in {"reconciled", "disputed"}
<1>1. Derived(o, now, c, cs, e, got) = "reconciled"
  BY DEF Derived
<1>2. Rank(now) \in Nat /\ Rank(now) <= 7 /\ Rank("reconciled") = 7
  BY TopRank
<1>3. ~ (Rank("reconciled") < Rank(now))
  BY <1>2
<1> QED BY <1>1, <1>3 DEF Advanced

\* What an order has received depends on its own lines only.
LEMMA OwnLines ==
    ASSUME NEW o, NEW f, NEW g, \A l \in LinesOf(o) : f[l] = g[l]
    PROVE  FullyReceived(o, f) <=> FullyReceived(o, g)
<1>1. [l \in LinesOf(o) |-> f[l]] = [l \in LinesOf(o) |-> g[l]]
  OBVIOUS
<1> QED BY <1>1 DEF FullyReceived, SumOf

-----------------------------------------------------------------------------
(* Receipts                                                                *)

Inv == TypeInv /\ ReceivedOnce /\ Unmatched /\ EvidenceCloses

\* A receipt within what is outstanding, against lines of one order.
Fitting(o, qty) ==
    /\ qty \in [Line -> Nat]
    /\ \A l \in Line : /\ received[l] + qty[l] <= Ordered[l]
                       /\ qty[l] # 0 => l \in LinesOf(o)

LEMMA ReceiptKeeps ==
    ASSUME Inv, NEW o \in Order, NEW qty, Fitting(o, qty), Receive(o, qty),
           UNCHANGED <<evidence, world>>
    PROVE  /\ received' \in [Line -> Nat] /\ stock' \in [Line -> Nat]
           /\ status' \in [Order -> Status]
           /\ \A l \in Line : /\ received'[l] = received[l] + qty[l]
                              /\ stock'[l] = stock[l] + qty[l]
           /\ EvidenceCloses'
<1>1. /\ received' = [l \in Line |-> received[l] + qty[l]]
      /\ stock' = [l \in Line |-> stock[l] + qty[l]]
  BY DEF Receive, Add
<1>2. received' \in [Line -> Nat] /\ stock' \in [Line -> Nat]
  BY <1>1 DEF Inv, TypeInv, Tables, Fitting
<1>3. /\ status' = [status EXCEPT ![o] =
              Advanced(o, status[o], match[o], seen[o], paid[o], received')]
      /\ status[o] \in Status
  BY DEF Receive, Set, Inv, TypeInv, Tables
<1>4. status' \in [Order -> Status]
  BY <1>3, DerivedStatus DEF Inv, TypeInv, Tables
<1>5. ASSUME NEW q \in Order, FullyReceived(q, received'), paid[q] # None
      PROVE  status'[q] \in {"reconciled", "disputed", "cancelled"}
  <2>1. CASE q = o
    <3>1. status'[q] = Advanced(o, status[o], match[o], seen[o], paid[o], received')
      BY <1>3, <2>1 DEF Inv, TypeInv, Tables
    <3> QED BY <3>1, <2>1, <1>5, CompleteCloses
  <2>2. CASE q # o
    <3>1. \A l \in LinesOf(q) : received'[l] = received[l]
      BY <1>1, <2>2 DEF LinesOf, Fitting, Inv, TypeInv, Tables
    <3>2. FullyReceived(q, received)
      BY <3>1, <1>5, OwnLines
    <3>3. status'[q] = status[q]
      BY <1>3, <2>2 DEF Inv, TypeInv, Tables
    <3> QED BY <3>2, <3>3, <1>5 DEF Inv, EvidenceCloses
  <2> QED BY <2>1, <2>2
<1>6. paid' = paid
  BY DEF evidence
<1>7. EvidenceCloses'
  BY <1>5, <1>6 DEF EvidenceCloses
<1> QED BY <1>1, <1>2, <1>4, <1>7

-----------------------------------------------------------------------------
(* The inductive invariant                                                 *)

Complete(o) == FullyReceived(o, received) /\ paid[o] # None

\* The typed parts that an action leaves alone stay typed.
LEMMA Quiet ==
    ASSUME Inv, UNCHANGED vars
    PROVE  Inv'
<1>1. TypeInv'
  BY DEF Inv, TypeInv, Tables, Workers, vars
<1>2. ReceivedOnce' /\ Unmatched'
  BY DEF Inv, ReceivedOnce, Unmatched, vars
<1>3. EvidenceCloses'
  BY DEF Inv, EvidenceCloses, FullyReceived, SumOf, vars
<1> QED BY <1>1, <1>2, <1>3 DEF Inv

\* A request that changes the status of one order and nothing else.
LEMMA StatusOnly ==
    ASSUME Inv, NEW o \in Order, NEW s \in Status, Set(o, s),
           UNCHANGED <<evidence, goods, world, pc, mem>>,
           Complete(o) => s \in {"reconciled", "disputed", "cancelled"}
    PROVE  Inv'
<1>1. status' = [status EXCEPT ![o] = s]
  BY DEF Set
<1>2. TypeInv'
  BY <1>1 DEF Inv, TypeInv, Tables, Workers, evidence, goods, world
<1>3. ReceivedOnce' /\ Unmatched'
  BY DEF Inv, ReceivedOnce, Unmatched, evidence, goods
<1>4. ASSUME NEW q \in Order, FullyReceived(q, received), paid[q] # None
      PROVE  status'[q] \in {"reconciled", "disputed", "cancelled"}
  <2>1. CASE q = o
    BY <1>1, <1>4, <2>1 DEF Complete, Inv, TypeInv, Tables
  <2>2. CASE q # o
    BY <1>1, <1>4, <2>2 DEF Inv, TypeInv, Tables, EvidenceCloses
  <2> QED BY <2>1, <2>2
<1>5. EvidenceCloses'
  <2>1. received' = received /\ paid' = paid
    BY DEF goods, evidence
  <2> QED BY <1>4, <2>1 DEF EvidenceCloses
<1> QED BY <1>2, <1>3, <1>5 DEF Inv

\* An order whose evidence is complete is closed or in dispute.
LEMMA OpenIncomplete ==
    ASSUME Inv, NEW o \in Order, status[o] \notin {"reconciled", "disputed", "cancelled"}
    PROVE  ~ Complete(o)
BY DEF Complete, Inv, EvidenceCloses

LEMMA RequestKeeps ==
    ASSUME Inv, NEW o \in Order,
           \/ SubmitPo(o) \/ MarkContractExpected(o) \/ DisputePo(o) \/ MarkReconciled(o)
           \/ SweepOverdue(o)
           \/ \E who \in Officer : ApprovePo(o, who) \/ CancelPo(o, who) \/ ResolveDispute(o, who)
    PROVE  Inv'
<1>1. CASE SubmitPo(o)
  <2>1. ~ Complete(o)
    BY <1>1, OpenIncomplete DEF SubmitPo
  <2>2. "submitted" \in Status
    BY DEF Status
  <2> QED BY <1>1, <2>1, <2>2, StatusOnly DEF SubmitPo, Resting
<1>2. CASE MarkContractExpected(o)
  <2>1. ~ Complete(o)
    BY <1>2, OpenIncomplete DEF MarkContractExpected
  <2>2. "contract_expected" \in Status
    BY DEF Status
  <2> QED BY <1>2, <2>1, <2>2, StatusOnly DEF MarkContractExpected, Resting
<1>3. CASE DisputePo(o)
  <2>1. "disputed" \in Status
    BY DEF Status
  <2> QED BY <1>3, <2>1, StatusOnly DEF DisputePo, Resting
<1>4. CASE MarkReconciled(o)
  <2>1. "reconciled" \in Status
    BY DEF Status
  <2> QED BY <1>4, <2>1, StatusOnly DEF MarkReconciled, Resting
<1>5. CASE SweepOverdue(o)
  <2>1. ~ Complete(o)
    BY <1>5, OpenIncomplete DEF SweepOverdue, Sweepable
  <2>2. "overdue" \in Status
    BY DEF Status
  <2> QED BY <1>5, <2>1, <2>2, StatusOnly DEF SweepOverdue, Resting
<1>6. ASSUME NEW who \in Officer, ApprovePo(o, who) PROVE Inv'
  <2>1. ~ Complete(o)
    BY <1>6, OpenIncomplete DEF ApprovePo
  <2>2. "approved" \in Status
    BY DEF Status
  <2> QED BY <1>6, <2>1, <2>2, StatusOnly DEF ApprovePo, Resting
<1>7. ASSUME NEW who \in Officer, CancelPo(o, who) PROVE Inv'
  <2>1. "cancelled" \in Status
    BY DEF Status
  <2> QED BY <1>7, <2>1, StatusOnly DEF CancelPo, Resting
<1>8. ASSUME NEW who \in Officer, ResolveDispute(o, who) PROVE Inv'
  <2> DEFINE d == Derived(o, "disputed", match[o], seen[o], paid[o], received)
  <2>1. "reconciled" \in Status /\ "cancelled" \in Status /\ "disputed" \in Status
    BY DEF Status
  <2>2. d \in Status
    BY <2>1, DerivedStatus
  <2>3. Complete(o) => d = "reconciled"
    BY CompleteCloses DEF Complete
  <2>4. UNCHANGED <<evidence, goods, world, pc, mem>>
    BY <1>8 DEF ResolveDispute, Resting
  <2>5. Set(o, "reconciled") \/ Set(o, "cancelled") \/ Set(o, d)
    BY <1>8 DEF ResolveDispute
  <2> HIDE DEF d
  <2> QED BY <2>1, <2>2, <2>3, <2>4, <2>5, StatusOnly
<1> QED BY <1>1, <1>2, <1>3, <1>4, <1>5, <1>6, <1>7, <1>8

\* Steps that change neither an order's state nor its evidence or goods: a
\* worker reads, a contract or the agreement moves.
LEMMA WorldKeeps ==
    ASSUME Inv, UNCHANGED <<status, evidence, goods>>,
           snapshot' \in [Contract -> Saw], Workers'
    PROVE  Inv'
<1>1. Tables'
  BY DEF Inv, TypeInv, Tables, evidence, goods
<1>2. ReceivedOnce' /\ Unmatched'
  BY DEF Inv, ReceivedOnce, Unmatched, evidence, goods
<1>3. EvidenceCloses'
  BY DEF Inv, EvidenceCloses, FullyReceived, SumOf, evidence, goods
<1> QED BY <1>1, <1>2, <1>3 DEF Inv, TypeInv

\* A worker goes to a step with a memory that fits it.
LEMMA GotoKeeps ==
    ASSUME Workers, NEW p \in Proc, NEW step \in Working \cup {"idle"}, NEW m \in Memory,
           Goto(p, step, m),
           step \in Working => m.order \in Order,
           step \in {"matching", "confirming"} => m.contract \in Contract,
           step = "settling" => m.entry \in Entry
    PROVE  Workers'
<1>1. pc' = [pc EXCEPT ![p] = step] /\ mem' = [mem EXCEPT ![p] = m]
  BY DEF Goto
<1>2. pc' \in [Proc -> Working \cup {"idle"}] /\ mem' \in [Proc -> Memory]
  BY <1>1 DEF Workers
<1>3. ASSUME NEW q \in Proc
      PROVE  /\ pc'[q] \in Working => mem'[q].order \in Order
             /\ pc'[q] \in {"matching", "confirming"} => mem'[q].contract \in Contract
             /\ pc'[q] = "settling" => mem'[q].entry \in Entry
  <2>1. CASE q = p
    BY <1>1, <2>1 DEF Workers
  <2>2. CASE q # p
    BY <1>1, <2>2 DEF Workers
  <2> QED BY <2>1, <2>2
<1> QED BY <1>2, <1>3 DEF Workers

LEMMA DoneKeeps ==
    ASSUME Workers, NEW p \in Proc, Done(p)
    PROVE  Workers'
<1>1. Idle \in Memory
  BY DEF Idle, Memory, Saw
<1>2. Goto(p, "idle", Idle)
  BY DEF Done
<1>3. "idle" \notin Working /\ "idle" \in Working \cup {"idle"}
  BY DEF Working
<1> QED BY <1>1, <1>2, <1>3, GotoKeeps

LEMMA BeginKeeps ==
    ASSUME Inv, NEW p \in Proc, NEW o \in Order,
           \/ BeginRefresh(p, o)
           \/ \E c \in Contract : BeginMatch(p, o, c) \/ BeginConfirm(p, o, c)
           \/ \E e \in Entry : BeginReconcile(p, o, e) \/ BeginConfirmPayment(p, o, e)
    PROVE  Inv'
<1> Workers
  BY DEF Inv, TypeInv
<1>1. snapshot \in [Contract -> Saw] /\ match \in [Order -> Contract \cup {None}]
  BY DEF Inv, TypeInv, Tables
<1>2. CASE BeginRefresh(p, o)
  <2> DEFINE m == [Idle EXCEPT !.order = o, !.saw = snapshot[match[o]]]
  <2>1. match[o] \in Contract
    BY <1>1, <1>2 DEF BeginRefresh
  <2>2. m \in Memory /\ m.order \in Order
    BY <1>1, <2>1 DEF Idle, Memory, Saw
  <2>3. Goto(p, "refreshing", m)
    BY <1>2 DEF BeginRefresh
  <2> HIDE DEF m
  <2>4. Workers'
    BY <2>2, <2>3, GotoKeeps DEF Working
  <2>5. UNCHANGED <<status, evidence, goods>> /\ snapshot' = snapshot
    BY <1>2 DEF BeginRefresh, world
  <2> QED BY <1>1, <2>4, <2>5, WorldKeeps
<1>3. ASSUME NEW c \in Contract, BeginMatch(p, o, c) \/ BeginConfirm(p, o, c) PROVE Inv'
  <2> DEFINE m == [Idle EXCEPT !.order = o, !.contract = c, !.saw = snapshot[c]]
  <2>1. m \in Memory /\ m.order \in Order /\ m.contract \in Contract
    BY <1>1 DEF Idle, Memory, Saw
  <2>2. Goto(p, "matching", m) \/ Goto(p, "confirming", m)
    BY <1>3 DEF BeginMatch, BeginConfirm
  <2> HIDE DEF m
  <2>3. Workers'
    BY <2>1, <2>2, GotoKeeps DEF Working
  <2>4. UNCHANGED <<status, evidence, goods>> /\ snapshot' = snapshot
    BY <1>3 DEF BeginMatch, BeginConfirm, world
  <2> QED BY <1>1, <2>3, <2>4, WorldKeeps
<1>4. ASSUME NEW e \in Entry, BeginReconcile(p, o, e) \/ BeginConfirmPayment(p, o, e) PROVE Inv'
  <2> DEFINE m == [Idle EXCEPT !.order = o, !.entry = e]
  <2>1. m \in Memory /\ m.order \in Order /\ m.entry \in Entry
    BY DEF Idle, Memory, Saw
  <2>2. Goto(p, "settling", m)
    BY <1>4 DEF BeginReconcile, BeginConfirmPayment
  <2> HIDE DEF m
  <2>3. Workers'
    BY <2>1, <2>2, GotoKeeps DEF Working
  <2>4. UNCHANGED <<status, evidence, goods>> /\ snapshot' = snapshot
    BY <1>4 DEF BeginReconcile, BeginConfirmPayment, world
  <2> QED BY <1>1, <2>3, <2>4, WorldKeeps
<1> QED BY <1>2, <1>3, <1>4

\* A delivery is clamped to what is outstanding on its line.
LEMMA DeliveryKeeps ==
    ASSUME Inv, NEW l \in Line, NEW n \in Batch, ReceiveDelivery(l, n)
    PROVE  Inv'
<1> DEFINE o == OrderOf[l]
           qty == [k \in Line |-> IF k = l THEN AtMost(n, Outstanding(received, l)) ELSE 0]
<1>1. n \in Nat /\ o \in Order /\ l \in LinesOf(o) /\ Ordered \in [Line -> Nat]
  BY OrderAssumption DEF LinesOf
<1>2. received \in [Line -> Nat] /\ manual \in [Line -> Nat] /\ \A k \in Line : received[k] <= Ordered[k]
  BY DEF Inv, TypeInv, Tables, ReceivedOnce
<1>3. /\ AtMost(n, Outstanding(received, l)) \in Nat
      /\ received[l] + AtMost(n, Outstanding(received, l)) <= Ordered[l]
  BY <1>1, <1>2 DEF ReceiveDelivery, Outstanding, AtMost
<1>4. Fitting(o, qty)
  BY <1>1, <1>2, <1>3 DEF Fitting
<1>5. /\ Receive(o, qty) /\ manual' = Add(manual, qty)
      /\ UNCHANGED <<evidence, auto, world, pc, mem>>
  BY DEF ReceiveDelivery, Resting
<1> HIDE DEF qty, o
<1>6. /\ received' \in [Line -> Nat] /\ stock' \in [Line -> Nat] /\ status' \in [Order -> Status]
      /\ \A k \in Line : /\ received'[k] = received[k] + qty[k]
                         /\ stock'[k] = stock[k] + qty[k]
      /\ EvidenceCloses'
  BY <1>1, <1>4, <1>5, ReceiptKeeps
<1>7. qty \in [Line -> Nat] /\ \A k \in Line : received[k] + qty[k] <= Ordered[k]
  BY <1>4 DEF Fitting
<1>8. manual' = [k \in Line |-> manual[k] + qty[k]] /\ manual' \in [Line -> Nat]
  BY <1>2, <1>5, <1>7 DEF Add
<1>9. TypeInv'
  BY <1>5, <1>6, <1>8 DEF Inv, TypeInv, Tables, Workers, evidence, world
<1>10. Unmatched'
  BY <1>5 DEF Inv, Unmatched, evidence
<1>11. ReceivedOnce'
  <2> SUFFICES ASSUME NEW k \in Line
               PROVE  /\ received'[k] = auto'[k] + manual'[k] /\ stock'[k] = received'[k]
                      /\ received'[k] <= Ordered[k]
                      /\ auto'[k] > 0 => auto'[k] <= Landed[match'[OrderOf[k]]][k]
    BY DEF ReceivedOnce
  <2>1. /\ received[k] = auto[k] + manual[k] /\ stock[k] = received[k]
        /\ auto[k] > 0 => auto[k] <= Landed[match[OrderOf[k]]][k]
    BY DEF Inv, ReceivedOnce
  <2>2. /\ received[k] \in Nat /\ auto[k] \in Nat /\ manual[k] \in Nat /\ qty[k] \in Nat
        /\ manual'[k] = manual[k] + qty[k] /\ auto'[k] = auto[k] /\ match' = match
    BY <1>5, <1>7, <1>8 DEF Inv, TypeInv, Tables, evidence
  <2> QED BY <2>1, <2>2, <1>6, <1>7
<1> QED BY <1>6, <1>9, <1>10, <1>11 DEF Inv

\* A contract's items are posted up to what it landed, less what was posted.
LEMMA LandingKeeps ==
    ASSUME Inv, NEW p \in Proc, AutoReceive(p)
    PROVE  Inv'
<1> DEFINE o == mem[p].order
           due == [l \in Line |->
                     IF l \in LinesOf(o) \ FitLine
                     THEN AtLeast(0, AtMost(LandedAnew(o, l), Outstanding(received, l))) ELSE 0]
<1>1. o \in Order /\ Workers' /\ UNCHANGED <<evidence, world>>
  <2>1. Workers /\ pc[p] = "landing" /\ Done(p)
    BY DEF Inv, TypeInv, AutoReceive
  <2>2. o \in Order
    BY <2>1 DEF Workers, Working
  <2> QED BY <2>1, <2>2, DoneKeeps DEF AutoReceive
<1>2. CASE UNCHANGED <<status, goods>>
  <2>1. snapshot' \in [Contract -> Saw]
    BY <1>1 DEF world, Inv, TypeInv, Tables
  <2> QED BY <1>1, <1>2, <2>1, WorldKeeps
<1>3. CASE match[o] # None /\ Receive(o, due) /\ auto' = Add(auto, due) /\ UNCHANGED manual
  <2>1. match[o] \in Contract /\ received \in [Line -> Nat] /\ auto \in [Line -> Nat]
    BY <1>1, <1>3 DEF Inv, TypeInv, Tables
  <2>2. \A l \in Line : received[l] <= Ordered[l] /\ Ordered[l] \in Nat /\ Landed[match[o]][l] \in Nat
    BY <2>1, OrderAssumption DEF Inv, ReceivedOnce
  <2>3. ASSUME NEW l \in Line
        PROVE  /\ due[l] \in Nat /\ received[l] + due[l] <= Ordered[l]
               /\ due[l] # 0 => l \in LinesOf(o) /\ auto[l] + due[l] <= Landed[match[o]][l]
    <3>1. received[l] \in Nat /\ auto[l] \in Nat
      BY <2>1
    <3>2. CASE l \in LinesOf(o) \ FitLine
      <4>1. due[l] = AtLeast(0, AtMost(LandedAnew(o, l), Outstanding(received, l)))
        BY <3>2
      <4> HIDE DEF due, o
      <4> QED BY <4>1, <2>2, <3>1, <3>2 DEF AtLeast, AtMost, LandedAnew, Outstanding
    <3>3. CASE l \notin LinesOf(o) \ FitLine
      <4>1. due[l] = 0
        BY <3>3
      <4> QED BY <4>1, <2>2, <3>1
    <3> QED BY <3>2, <3>3
  <2>4. Fitting(o, due)
    BY <2>3 DEF Fitting
  <2>5. \A l \in LinesOf(o) : OrderOf[l] = o
    BY DEF LinesOf
  <2> HIDE DEF due, o
  <2>6. /\ received' \in [Line -> Nat] /\ stock' \in [Line -> Nat] /\ status' \in [Order -> Status]
        /\ \A k \in Line : /\ received'[k] = received[k] + due[k]
                           /\ stock'[k] = stock[k] + due[k]
        /\ EvidenceCloses'
    BY <1>1, <1>3, <2>4, ReceiptKeeps
  <2>7. auto' = [k \in Line |-> auto[k] + due[k]] /\ auto' \in [Line -> Nat]
    BY <1>3, <2>1, <2>3 DEF Add
  <2>8. Tables'
    BY <1>1, <1>3, <2>6, <2>7 DEF Inv, TypeInv, Tables, evidence, world
  <2>9. ASSUME NEW k \in Line
        PROVE  /\ received'[k] = auto'[k] + manual'[k] /\ stock'[k] = received'[k]
               /\ received'[k] <= Ordered[k]
               /\ auto'[k] > 0 => auto'[k] <= Landed[match'[OrderOf[k]]][k]
               /\ match'[OrderOf[k]] = None => auto'[k] = 0
    <3>1. /\ received[k] = auto[k] + manual[k] /\ stock[k] = received[k]
          /\ auto[k] > 0 => auto[k] <= Landed[match[OrderOf[k]]][k]
          /\ match[OrderOf[k]] = None => auto[k] = 0
      BY DEF Inv, ReceivedOnce, Unmatched
    <3>2. /\ received[k] \in Nat /\ auto[k] \in Nat /\ manual[k] \in Nat /\ due[k] \in Nat
          /\ auto'[k] = auto[k] + due[k] /\ manual'[k] = manual[k] /\ match' = match
      BY <1>1, <1>3, <2>1, <2>3, <2>7 DEF Inv, TypeInv, Tables, evidence
    <3>3. CASE due[k] = 0
      <4>1. auto'[k] = auto[k]
        BY <3>2, <3>3
      <4> QED BY <3>1, <3>2, <3>3, <4>1, <2>6, <2>3
    <3>4. CASE due[k] # 0
      <4>1. OrderOf[k] = o /\ auto[k] + due[k] <= Landed[match[o]][k]
        BY <3>4, <2>3, <2>5
      <4> QED BY <3>1, <3>2, <4>1, <1>3, <2>6, <2>3
    <3> QED BY <3>3, <3>4
  <2>10. ReceivedOnce' /\ Unmatched'
    BY <2>9 DEF ReceivedOnce, Unmatched
  <2> QED BY <1>1, <2>6, <2>8, <2>10 DEF Inv, TypeInv
<1>4. \/ UNCHANGED <<status, goods>>
      \/ match[o] # None /\ Receive(o, due) /\ auto' = Add(auto, due) /\ UNCHANGED manual
  BY DEF AutoReceive
<1> QED BY <1>2, <1>3, <1>4

\* New evidence about one order: no contract is taken away, and the status of
\* the order is what apply_derived_state makes of it.
LEMMA EvidenceKeeps ==
    ASSUME Inv, NEW o \in Order, UNCHANGED <<goods, world>>, Workers', Tables',
           \A q \in Order : match[q] # None => match'[q] = match[q],
           \A q \in Order \ {o} : status'[q] = status[q] /\ paid'[q] = paid[q],
           \E c, cs, e : e = paid'[o] /\ status'[o] = Advanced(o, status[o], c, cs, e, received)
    PROVE  Inv'
<1>1. received' = received /\ auto' = auto /\ manual' = manual /\ stock' = stock
  BY DEF goods
<1>2. OrderOf \in [Line -> Order] /\ auto \in [Line -> Nat]
  BY OrderAssumption DEF Inv, TypeInv, Tables
<1>3. ASSUME NEW l \in Line
      PROVE  /\ match'[OrderOf[l]] = None => auto[l] = 0
             /\ auto[l] > 0 => auto[l] <= Landed[match'[OrderOf[l]]][l]
  <2>1. CASE match[OrderOf[l]] = None
    BY <1>2, <2>1 DEF Inv, Unmatched
  <2>2. CASE match[OrderOf[l]] # None
    BY <1>2, <2>2 DEF Inv, Unmatched, ReceivedOnce
  <2> QED BY <2>1, <2>2
<1>4. ReceivedOnce' /\ Unmatched'
  BY <1>1, <1>3 DEF Inv, ReceivedOnce, Unmatched
<1>5. ASSUME NEW q \in Order, FullyReceived(q, received), paid'[q] # None
      PROVE  status'[q] \in {"reconciled", "disputed", "cancelled"}
  <2>1. CASE q = o
    BY <1>5, <2>1, CompleteCloses
  <2>2. CASE q # o
    BY <1>5, <2>2 DEF Inv, EvidenceCloses
  <2> QED BY <2>1, <2>2
<1>6. EvidenceCloses'
  BY <1>1, <1>5 DEF EvidenceCloses
<1> QED BY <1>4, <1>6 DEF Inv, TypeInv

LEMMA MatchKeeps ==
    ASSUME Inv, NEW p \in Proc, ApplyMatch(p)
    PROVE  Inv'
<1> DEFINE o == mem[p].order
           c == mem[p].contract
           saw == mem[p].saw
<1>1. /\ Workers /\ pc[p] \in {"matching", "confirming"} /\ p \in Proc
      /\ UNCHANGED <<goods, world>>
  BY DEF Inv, TypeInv, ApplyMatch
<1>2. o \in Order /\ c \in Contract /\ saw \in Saw
  BY <1>1 DEF Workers, Working, Memory
<1>3. Workers'
  <2> DEFINE m == [Idle EXCEPT !.order = o]
  <2>1. m \in Memory /\ m.order \in Order
    BY <1>2 DEF Idle, Memory, Saw
  <2>2. Goto(p, "rereading", m) \/ Done(p)
    BY DEF ApplyMatch
  <2> HIDE DEF m
  <2> QED BY <1>1, <2>1, <2>2, GotoKeeps, DoneKeeps DEF Working
<1>4. CASE UNCHANGED <<status, evidence>>
  <2>1. snapshot' \in [Contract -> Saw]
    BY <1>1 DEF world, Inv, TypeInv, Tables
  <2> QED BY <1>1, <1>3, <1>4, <2>1, WorldKeeps
<1>5. CASE match[o] = None /\ Evidence(o, c, saw)
  <2>1. /\ match' = [match EXCEPT ![o] = c] /\ seen' = [seen EXCEPT ![o] = saw] /\ paid' = paid
        /\ status' = [status EXCEPT ![o] = Advanced(o, status[o], c, saw, paid[o], received)]
    BY <1>5 DEF Evidence, Set
  <2>2. Advanced(o, status[o], c, saw, paid[o], received) \in Status
    BY <1>2, DerivedStatus DEF Inv, TypeInv, Tables
  <2>3. Tables'
    BY <1>1, <1>2, <2>1, <2>2 DEF Inv, TypeInv, Tables, goods, world
  <2>4. \A q \in Order : match[q] # None => match'[q] = match[q]
    BY <1>5, <2>1 DEF Inv, TypeInv, Tables
  <2>5. \A q \in Order \ {o} : status'[q] = status[q] /\ paid'[q] = paid[q]
    BY <2>1 DEF Inv, TypeInv, Tables
  <2>6. status'[o] = Advanced(o, status[o], c, saw, paid[o], received) /\ paid'[o] = paid[o]
    BY <1>2, <2>1 DEF Inv, TypeInv, Tables
  <2> HIDE DEF o, c, saw
  <2> QED BY <1>1, <1>2, <1>3, <2>3, <2>4, <2>5, <2>6, EvidenceKeeps
<1>6. UNCHANGED <<status, evidence>> \/ (match[o] = None /\ Evidence(o, c, saw))
  BY DEF ApplyMatch
<1> QED BY <1>4, <1>5, <1>6

\* The order a run reads again is the one it applied its match to.
LEMMA RereadKeeps ==
    ASSUME Inv, NEW p \in Proc, Reread(p)
    PROVE  Inv'
<1> DEFINE m == [Idle EXCEPT !.order = mem[p].order]
<1>1. Workers /\ pc[p] = "rereading" /\ UNCHANGED <<status, evidence, goods, world>>
  BY DEF Inv, TypeInv, Reread
<1>2. mem[p].order \in Order
  BY <1>1 DEF Workers, Working
<1>3. m \in Memory /\ m.order \in Order
  BY <1>2 DEF Idle, Memory, Saw
<1>4. Goto(p, "landing", m) \/ Done(p)
  BY DEF Reread
<1> HIDE DEF m
<1>5. Workers'
  BY <1>1, <1>3, <1>4, GotoKeeps, DoneKeeps DEF Working
<1>6. snapshot' \in [Contract -> Saw]
  BY <1>1 DEF world, Inv, TypeInv, Tables
<1> QED BY <1>1, <1>5, <1>6, WorldKeeps

LEMMA RefreshKeeps ==
    ASSUME Inv, NEW p \in Proc, CommitRefresh(p)
    PROVE  Inv'
<1> DEFINE o == mem[p].order
           saw == mem[p].saw
<1>1. Workers /\ pc[p] = "refreshing" /\ Done(p) /\ UNCHANGED <<match, paid, goods, world>>
  BY DEF Inv, TypeInv, CommitRefresh
<1>2. o \in Order /\ saw \in Saw /\ Workers'
  BY <1>1, DoneKeeps DEF Workers, Working, Memory
<1>3. /\ seen' = [seen EXCEPT ![o] = saw]
      /\ status' = [status EXCEPT ![o] = Advanced(o, status[o], match[o], seen'[o], paid[o], received)]
  BY DEF CommitRefresh, Set
<1>4. Advanced(o, status[o], match[o], seen'[o], paid[o], received) \in Status
  BY <1>2, DerivedStatus DEF Inv, TypeInv, Tables
<1>5. Tables'
  BY <1>1, <1>2, <1>3, <1>4 DEF Inv, TypeInv, Tables, goods, world
<1>6. \A q \in Order \ {o} : status'[q] = status[q] /\ paid'[q] = paid[q]
  BY <1>1, <1>3 DEF Inv, TypeInv, Tables
<1>7. /\ status'[o] = Advanced(o, status[o], match[o], seen'[o], paid[o], received)
      /\ paid'[o] = paid[o] /\ \A q \in Order : match'[q] = match[q]
  BY <1>1, <1>2, <1>3 DEF Inv, TypeInv, Tables
<1> HIDE DEF o, saw
<1> QED BY <1>1, <1>2, <1>5, <1>6, <1>7, EvidenceKeeps

LEMMA SettleKeeps ==
    ASSUME Inv, NEW p \in Proc, Settle(p)
    PROVE  Inv'
<1> DEFINE o == mem[p].order
           e == mem[p].entry
<1>1. Workers /\ pc[p] = "settling" /\ Done(p) /\ UNCHANGED <<match, seen, goods, world>>
  BY DEF Inv, TypeInv, Settle
<1>2. o \in Order /\ e \in Entry /\ Workers'
  BY <1>1, DoneKeeps DEF Workers, Working
<1>3. CASE UNCHANGED <<status, paid>>
  <2>1. snapshot' \in [Contract -> Saw] /\ UNCHANGED <<status, evidence, goods>>
    BY <1>1, <1>3 DEF world, evidence, Inv, TypeInv, Tables
  <2> QED BY <1>2, <2>1, WorldKeeps
<1>4. CASE /\ paid' = [paid EXCEPT ![o] = e]
           /\ Set(o, Advanced(o, status[o], match[o], seen[o], paid'[o], received))
  <2>1. Advanced(o, status[o], match[o], seen[o], paid'[o], received) \in Status
    BY <1>2, DerivedStatus DEF Inv, TypeInv, Tables
  <2>2. Tables'
    BY <1>1, <1>2, <1>4, <2>1 DEF Inv, TypeInv, Tables, goods, world, Set
  <2>3. \A q \in Order \ {o} : status'[q] = status[q] /\ paid'[q] = paid[q]
    BY <1>4 DEF Inv, TypeInv, Tables, Set
  <2>4. /\ status'[o] = Advanced(o, status[o], match[o], seen[o], paid'[o], received)
        /\ \A q \in Order : match'[q] = match[q]
    BY <1>1, <1>2, <1>4 DEF Inv, TypeInv, Tables, Set
  <2> HIDE DEF o, e
  <2> QED BY <1>1, <1>2, <2>2, <2>3, <2>4, EvidenceKeeps
<1> QED BY <1>3, <1>4 DEF Settle

-----------------------------------------------------------------------------
(* The theorems                                                            *)

LEMMA InitInv == Init => Inv
<1> SUFFICES ASSUME Init PROVE Inv
  OBVIOUS
<1>1. Idle \in Memory
  BY DEF Idle, Memory, Saw
<1>2. Tables
  BY DEF Init, Tables, Status, Saw
<1>3. Workers
  BY <1>1 DEF Init, Workers, Working
<1>4. /\ \A l \in Line : received[l] = 0 /\ auto[l] = 0 /\ manual[l] = 0 /\ stock[l] = 0
      /\ \A o \in Order : paid[o] = None
  BY DEF Init
<1>5. \A l \in Line : 0 <= Ordered[l]
  BY OrderAssumption
<1>6. ReceivedOnce /\ Unmatched /\ EvidenceCloses
  BY <1>4, <1>5 DEF ReceivedOnce, Unmatched, EvidenceCloses
<1> QED BY <1>2, <1>3, <1>6 DEF Inv, TypeInv

LEMMA StepInv == Inv /\ [Next]_vars => Inv'
<1> SUFFICES ASSUME Inv, [Next]_vars PROVE Inv'
  OBVIOUS
<1>1. CASE UNCHANGED vars
  BY <1>1, Quiet
<1>2. ASSUME NEW o \in Order,
             \/ SubmitPo(o) \/ MarkContractExpected(o) \/ DisputePo(o) \/ MarkReconciled(o)
             \/ SweepOverdue(o)
             \/ \E who \in Officer : ApprovePo(o, who) \/ CancelPo(o, who) \/ ResolveDispute(o, who)
      PROVE  Inv'
  BY <1>2, RequestKeeps
<1>3. ASSUME ExpireAgreement \/ \E c \in Contract, s \in {"finished", "deleted"} : ContractMoves(c, s)
      PROVE  Inv'
  <2>1. UNCHANGED <<status, evidence, goods, pc, mem>>
    BY <1>3 DEF ExpireAgreement, ContractMoves, Resting
  <2>2. snapshot' \in [Contract -> Saw]
    BY <1>3 DEF ExpireAgreement, ContractMoves, Inv, TypeInv, Tables, Saw
  <2>3. Workers'
    BY <2>1 DEF Inv, TypeInv, Workers
  <2> QED BY <2>1, <2>2, <2>3, WorldKeeps
<1>4. ASSUME NEW l \in Line, NEW n \in Batch, ReceiveDelivery(l, n) PROVE Inv'
  BY <1>4, DeliveryKeeps
<1>5. ASSUME NEW p \in Proc,
             AutoReceive(p) \/ ApplyMatch(p) \/ Reread(p) \/ CommitRefresh(p) \/ Settle(p)
      PROVE  Inv'
  BY <1>5, LandingKeeps, MatchKeeps, RereadKeeps, RefreshKeeps, SettleKeeps
<1>6. ASSUME NEW p \in Proc, NEW o \in Order,
             \/ BeginRefresh(p, o)
             \/ \E c \in Contract : BeginMatch(p, o, c) \/ BeginConfirm(p, o, c)
             \/ \E e \in Entry : BeginReconcile(p, o, e) \/ BeginConfirmPayment(p, o, e)
      PROVE  Inv'
  BY <1>6, BeginKeeps
<1> QED BY <1>1, <1>2, <1>3, <1>4, <1>5, <1>6 DEF Next

\* Every reachable state satisfies the inductive invariant.
THEOREM InvHolds == Spec => []Inv
<1> QED BY InitInv, StepInv, PTL DEF Spec

\* Orders, evidence, receipts and what the workers remember keep their types.
THEOREM TypeCorrect == Spec => []TypeOK
<1>1. Inv => TypeOK
  <2> SUFFICES ASSUME Inv PROVE TypeOK
    OBVIOUS
  <2>1. Status \subseteq {"draft", "submitted", "cancelled", "disputed", "overdue"}
                         \cup {Ladder[i] : i \in DOMAIN Ladder}
    BY DEF Status, Ladder
  <2> QED BY <2>1 DEF Inv, TypeInv, Tables, TypeOK
<1> QED BY <1>1, InvHolds, PTL

\* What a line received is what was posted to stock, never more than ordered,
\* and what a contract posted is never more than it landed.
THEOREM GoodsReceivedOnce == Spec => []ReceivedOnce
<1>1. Inv => ReceivedOnce
  BY DEF Inv
<1> QED BY <1>1, InvHolds, PTL

\* Whatever order deliveries, payments and contracts come in, complete evidence
\* leaves an order reconciled unless a person disputed or cancelled it.
THEOREM CompleteEvidenceCloses == Spec => []EvidenceCloses
<1>1. Inv => EvidenceCloses
  BY DEF Inv
<1> QED BY <1>1, InvHolds, PTL
=============================================================================
