------------------------- MODULE FitInventoryProofs -------------------------
(***************************************************************************)
(* Proofs about FitInventory, for every number of locations, revisions,    *)
(* orders and workers, every bound, with and without crashes:              *)
(* the types, NoOversell and LedgerExplains, then what holds of orders and *)
(* of closed ones that nobody dies settling, then the refinement of        *)
(* FitPromise.                                                             *)
(*                                                                         *)
(* None of them is inductive alone: a commit is safe because of what its   *)
(* worker read, so the invariant says what reads under locks are worth.    *)
(***************************************************************************)
EXTENDS FitInventory, TotalsProofs

\* A row is locked only by a worker between its reads and its commit, which
\* read nothing about other rows; the rows a request writes are locked for it.
LocksMatch ==
    /\ \A p \in Proc, r \in Row : lock[r] = p => pc[p] = "locked"
    /\ \A p \in Proc, r \in Row : lock[r] # p => seenOn[p][r] = 0 /\ seenHeld[p][r] = 0
    /\ \A p \in Proc : Locked(p, "receive") \/ Locked(p, "adjust") \/ Locked(p, "revalidate")
          => lock[req[p].row] = p
    /\ \A p \in Proc : Locked(p, "revalidate")
          => lock[<<req[p].row[1], req[p].rev>>] = p

\* A worker's step is one of the steps of its request.
Fits(step, op) ==
    /\ step \in {"cas", "release"} => op = "move"
    /\ step = "check" => op = "expire"
    /\ step = "refresh" => op \in {"place", "receive", "move"}
StepsMatch == \A p \in Proc : Fits(pc[p], req[p].op)

\* The inductive invariant.
IInv == TypeOK /\ LocksMatch /\ StepsMatch /\ ReadsStayGood /\ NoOversell /\ LedgerExplains

-----------------------------------------------------------------------------
(* Types of requests and of the derived quantities                         *)

LEMMA RowFinite == IsFiniteSet(Row)
BY RowsAssumption, FS_Product DEF Row

LEMMA RequestType ==
    ASSUME NEW q \in Request
    PROVE  /\ q.op = "place" => q \in PlaceReq
           /\ q.op = "receive" => q \in ReceiveReq
           /\ q.op = "adjust" => q \in AdjustReq
           /\ q.op = "revalidate" => q \in RevalidateReq
           /\ q.op = "move" => q \in MoveReq
           /\ q.op = "expire" => q \in ExpireReq
BY DEF Request, PlaceReq, ReceiveReq, AdjustReq, RevalidateReq, MoveReq, ExpireReq, NoReq

\* The units held in a row are a natural number, at least each order's share.
LEMMA HeldType ==
    ASSUME hold \in [Order -> [Row -> Nat]], NEW r \in Row
    PROVE  Held(r) \in Nat /\ \A o \in Order : hold[o][r] <= Held(r)
<1> DEFINE f == [o \in Order |-> hold[o][r]]
<1>1. f \in [Order -> Nat]
  OBVIOUS
<1>2. IsFiniteSet(Order)
  BY KeysAssumption
<1>3. \A o \in Order : f[o] = hold[o][r]
  OBVIOUS
<1>4. Held(r) = Total(f)
  BY DEF Held
<1> HIDE DEF f
<1>5. Total(f) \in Nat /\ \A o \in Order : f[o] <= Total(f)
  BY <1>1, <1>2, TotalType, TotalTerm
<1> QED BY <1>3, <1>4, <1>5

\* If no order gains units in a row, the units held there do not grow.
LEMMA HeldShrinks ==
    ASSUME hold \in [Order -> [Row -> Nat]], hold' \in [Order -> [Row -> Nat]],
           NEW r \in Row, \A o \in Order : hold'[o][r] <= hold[o][r]
    PROVE  Held(r)' <= Held(r)
<1> DEFINE f == [o \in Order |-> hold[o][r]]
           g == [o \in Order |-> hold'[o][r]]
<1>1. f \in [Order -> Nat] /\ g \in [Order -> Nat]
  OBVIOUS
<1>2. \A o \in Order : g[o] <= f[o]
  OBVIOUS
<1>3. Held(r) = Total(f) /\ Held(r)' = Total(g)
  BY DEF Held
<1>4. IsFiniteSet(Order)
  BY KeysAssumption
<1> HIDE DEF f, g
<1>5. Total(g) <= Total(f)
  BY <1>1, <1>2, <1>4, TotalMonotone
<1> QED BY <1>3, <1>5

\* If one order's units change, the units held in a row change by as much.
LEMMA HeldChange ==
    ASSUME hold \in [Order -> [Row -> Nat]], hold' \in [Order -> [Row -> Nat]],
           NEW r \in Row, NEW o \in Order,
           \A q \in Order \ {o} : hold'[q][r] = hold[q][r]
    PROVE  Held(r)' = Held(r) - hold[o][r] + hold'[o][r]
<1> DEFINE f == [q \in Order |-> hold[q][r]]
           g == [q \in Order |-> hold'[q][r]]
<1>1. f \in [Order -> Nat] /\ g \in [Order -> Nat]
  OBVIOUS
<1>2. \A q \in Order \ {o} : g[q] = f[q]
  OBVIOUS
<1>3. Held(r) = Total(f) /\ Held(r)' = Total(g)
  BY DEF Held
<1>4. IsFiniteSet(Order)
  BY KeysAssumption
<1>5. f[o] = hold[o][r] /\ g[o] = hold'[o][r]
  OBVIOUS
<1> HIDE DEF f, g
<1>6. Total(g) = Total(f) - f[o] + g[o]
  BY <1>1, <1>2, <1>4, TotalChange
<1> QED BY <1>3, <1>5, <1>6

\* The units an order still waits for, and a location's demand, are natural.
LEMMA UnfilledType ==
    ASSUME StoreType
    PROVE  \A o \in Order : Unfilled(o) \in Nat
<1> SUFFICES ASSUME NEW o \in Order PROVE Unfilled(o) \in Nat
  OBVIOUS
<1>1. hold[o] \in [Row -> Nat] /\ used[o] \in Nat /\ terms[o].qty \in Int
  BY BoundAssumption DEF StoreType
<1>2. Total(hold[o]) \in Nat
  BY <1>1, RowFinite, TotalType
<1> QED BY <1>1, <1>2 DEF Unfilled, Covered, AtLeast

LEMMA DemandTypeNext ==
    ASSUME terms' \in [Order -> [qty : 0..MaxUnits, site : Site, back : BOOLEAN, rev : Rev]],
           hold' \in [Order -> [Row -> Nat]], used' \in [Order -> Nat], NEW k \in Site
    PROVE  Demand(k)' \in Nat
<1>1. ASSUME NEW o \in Order PROVE Unfilled(o)' \in Nat
  <2>1. hold'[o] \in [Row -> Nat] /\ used'[o] \in Nat /\ terms'[o].qty \in Int
    BY BoundAssumption
  <2>2. Total(hold'[o]) \in Nat
    BY <2>1, RowFinite, TotalType
  <2> QED BY <2>1, <2>2 DEF Unfilled, Covered, AtLeast
<1> DEFINE f == [o \in Order |-> IF Counts(o, k)' THEN Unfilled(o)' ELSE 0]
<1>2. f \in [Order -> Nat]
  BY <1>1
<1>3. Demand(k)' = Total(f)
  BY DEF Demand
<1>4. IsFiniteSet(Order)
  BY KeysAssumption
<1> HIDE DEF f
<1> QED BY <1>2, <1>3, <1>4, TotalType

-----------------------------------------------------------------------------
(* What a step has to establish                                            *)

\* A transaction ends: its locks and reads go, the other workers' stay.
LEMMA LeaveFrame ==
    ASSUME WorkerType, LocksMatch, NEW p \in Proc, NEW step \in Step \ {"locked"},
           Leave(p, step)
    PROVE  /\ WorkerType'
           /\ LocksMatch'
           /\ \A q \in Proc, r \in Row : lock'[r] = q =>
                 /\ q # p
                 /\ lock[r] = q
                 /\ seenOn'[q][r] = seenOn[q][r]
                 /\ seenHeld'[q][r] = seenHeld[q][r]
<1>1. NoReq \in Request
  BY DEF Request
<1>2. WorkerType'
  BY <1>1 DEF WorkerType, Leave, Goto
<1>3. \A q \in Proc, r \in Row : lock'[r] = q =>
         /\ q # p
         /\ lock[r] = q
         /\ seenOn'[q][r] = seenOn[q][r]
         /\ seenHeld'[q][r] = seenHeld[q][r]
  BY NoneAssumption DEF WorkerType, Leave
<1>4. pc'[p] # "locked" /\ \A q \in Proc \ {p} : pc'[q] = pc[q] /\ req'[q] = req[q]
  BY DEF WorkerType, Leave, Goto
<1>5. \A r \in Row : seenOn'[p][r] = 0 /\ seenHeld'[p][r] = 0
  BY DEF WorkerType, Leave
<1>6. \A q \in Proc \ {p}, r \in Row : lock[r] = q <=> lock'[r] = q
  BY NoneAssumption DEF WorkerType, Leave
<1>7. \A q \in Proc \ {p}, r \in Row :
         seenOn'[q][r] = seenOn[q][r] /\ seenHeld'[q][r] = seenHeld[q][r]
  BY DEF WorkerType, Leave
<1>8. \A q \in Proc : Locked(q, "revalidate") =>
         req[q].row \in Row /\ <<req[q].row[1], req[q].rev>> \in Row
  BY RequestType DEF WorkerType, Locked, RevalidateReq, Row
<1>9. \A q \in Proc : Locked(q, "receive") \/ Locked(q, "adjust") => req[q].row \in Row
  BY RequestType DEF WorkerType, Locked, ReceiveReq, AdjustReq
<1>10. LocksMatch'
  <2>1. \A q \in Proc, r \in Row : lock'[r] = q => pc'[q] = "locked"
    BY <1>3, <1>4 DEF LocksMatch
  <2>2. \A q \in Proc, r \in Row :
           lock'[r] # q => seenOn'[q][r] = 0 /\ seenHeld'[q][r] = 0
    BY <1>5, <1>6, <1>7 DEF LocksMatch
  <2>3. ASSUME NEW q \in Proc, pc'[q] = "locked" PROVE q # p /\ pc[q] = "locked"
    BY <1>4, <2>3
  <2>4. ASSUME NEW q \in Proc,
               Locked(q, "receive")' \/ Locked(q, "adjust")' \/ Locked(q, "revalidate")'
        PROVE  lock'[req'[q].row] = q
    <3>1. q # p /\ req'[q] = req[q] /\ pc[q] = "locked"
      BY <1>4, <2>3, <2>4 DEF Locked
    <3>2. Locked(q, "receive") \/ Locked(q, "adjust") \/ Locked(q, "revalidate")
      BY <2>4, <3>1 DEF Locked
    <3>3. lock[req[q].row] = q
      BY <3>2 DEF LocksMatch
    <3>4. req[q].row \in Row
      BY <1>8, <1>9, <3>2
    <3> QED BY <1>6, <3>1, <3>3, <3>4
  <2>5. ASSUME NEW q \in Proc, Locked(q, "revalidate")'
        PROVE  lock'[<<req'[q].row[1], req'[q].rev>>] = q
    <3>1. q # p /\ req'[q] = req[q] /\ Locked(q, "revalidate")
      BY <1>4, <2>3, <2>5 DEF Locked
    <3>2. lock[<<req[q].row[1], req[q].rev>>] = q
      BY <3>1 DEF LocksMatch
    <3> QED BY <1>6, <1>8, <3>1, <3>2
  <2> QED BY <2>1, <2>2, <2>4, <2>5 DEF LocksMatch
<1> QED BY <1>2, <1>3, <1>10

LEMMA LeaveFits ==
    ASSUME WorkerType, StepsMatch, NEW p \in Proc, NEW step \in Step,
           Leave(p, step), Fits(step, req[p].op)
    PROVE  StepsMatch'
<1>1. pc'[p] = step /\ (step # "idle" => req'[p] = req[p])
  BY DEF WorkerType, Leave, Goto
<1>2. \A q \in Proc \ {p} : pc'[q] = pc[q] /\ req'[q] = req[q]
  BY DEF WorkerType, Leave, Goto
<1>3. Fits(step, req'[p].op)
  BY <1>1 DEF Fits
<1> QED BY <1>1, <1>2, <1>3 DEF StepsMatch

\* A commit keeps the invariant if it is typed, leaves the rows it does not
\* hold alone but for holds given back, and covers the holds of those it does.
LEMMA CommitSafe ==
    ASSUME IInv, NEW p \in Proc, NEW step \in Step \ {"locked"}, Leave(p, step),
           Fits(step, req[p].op), StoreType', ledger' = onHand',
           \A r \in Row : lock[r] # p => onHand'[r] = onHand[r] /\ Held(r)' <= Held(r),
           \A r \in Row : lock[r] = p => Held(r)' <= onHand'[r]
    PROVE  IInv'
<1>1. WorkerType /\ StoreType /\ LocksMatch /\ StepsMatch /\ ReadsStayGood /\ NoOversell
  BY DEF IInv, TypeOK
<1>2. /\ WorkerType'
      /\ LocksMatch'
      /\ \A q \in Proc, r \in Row : lock'[r] = q =>
            /\ q # p
            /\ lock[r] = q
            /\ seenOn'[q][r] = seenOn[q][r]
            /\ seenHeld'[q][r] = seenHeld[q][r]
  BY <1>1, LeaveFrame
<1>3. \A r \in Row : Held(r) \in Nat
  BY <1>1, HeldType DEF StoreType
<1>4. \A r \in Row : onHand[r] \in Nat /\ onHand'[r] \in Nat
  BY <1>1 DEF StoreType
<1>5. hold' \in [Order -> [Row -> Nat]]
  BY DEF StoreType
<1>6. \A r \in Row : Held(r)' \in Nat
  <2> SUFFICES ASSUME NEW r \in Row PROVE Held(r)' \in Nat
    OBVIOUS
  <2> DEFINE f == [o \in Order |-> hold'[o][r]]
  <2>1. f \in [Order -> Nat] /\ Held(r)' = Total(f)
    BY <1>5 DEF Held
  <2>2. IsFiniteSet(Order)
    BY KeysAssumption
  <2> HIDE DEF f
  <2> QED BY <2>1, <2>2, TotalType
<1>7. NoOversell'
  <2>1. ASSUME NEW r \in Row PROVE Held(r)' <= onHand'[r]
    <3>1. CASE lock[r] = p
      BY <3>1
    <3>2. CASE lock[r] # p
      <4>1. Held(r) <= onHand[r]
        BY <1>1 DEF NoOversell
      <4> QED BY <1>3, <1>4, <1>6, <3>2, <4>1
    <3> QED BY <3>1, <3>2
  <2> QED BY <2>1 DEF NoOversell
<1>8. ReadsStayGood'
  <2>1. ASSUME NEW q \in Proc, NEW r \in Row, lock'[r] = q
        PROVE  seenOn'[q][r] = onHand'[r] /\ Held(r)' <= seenHeld'[q][r]
    <3>1. q # p /\ lock[r] = q /\ seenOn'[q][r] = seenOn[q][r]
            /\ seenHeld'[q][r] = seenHeld[q][r]
      BY <1>2, <2>1
    <3>2. onHand'[r] = onHand[r] /\ Held(r)' <= Held(r)
      BY <3>1
    <3>3. seenOn[q][r] = onHand[r] /\ Held(r) <= seenHeld[q][r]
      BY <1>1, <3>1 DEF ReadsStayGood
    <3>4. seenHeld[q][r] \in Nat
      BY <1>1 DEF WorkerType
    <3> QED BY <1>3, <1>6, <3>1, <3>2, <3>3, <3>4
  <2> QED BY <2>1 DEF ReadsStayGood
<1>9. StepsMatch'
  BY <1>1, LeaveFits
<1> QED BY <1>2, <1>7, <1>8, <1>9 DEF IInv, TypeOK, LedgerExplains

\* A step that moves no balance and no worker keeps the invariant if holds only
\* shrink.
LEMMA QuietSafe ==
    ASSUME IInv, UNCHANGED <<onHand, ledger, lock, local>>, StoreType',
           \A o \in Order, r \in Row : hold'[o][r] <= hold[o][r]
    PROVE  IInv'
<1>1. WorkerType /\ StoreType /\ LocksMatch /\ StepsMatch
        /\ ReadsStayGood /\ NoOversell /\ LedgerExplains
  BY DEF IInv, TypeOK
<1>2. WorkerType' /\ LocksMatch' /\ StepsMatch' /\ LedgerExplains'
  BY <1>1 DEF WorkerType, LocksMatch, Locked, StepsMatch, LedgerExplains, local
<1>3. hold \in [Order -> [Row -> Nat]] /\ hold' \in [Order -> [Row -> Nat]]
  BY <1>1 DEF StoreType
<1>4. \A r \in Row : Held(r)' <= Held(r) /\ Held(r) \in Nat
  BY <1>3, HeldShrinks, HeldType
<1>5. \A r \in Row : Held(r)' \in Nat
  <2> SUFFICES ASSUME NEW r \in Row PROVE Held(r)' \in Nat
    OBVIOUS
  <2> DEFINE f == [o \in Order |-> hold'[o][r]]
  <2>1. f \in [Order -> Nat] /\ Held(r)' = Total(f)
    BY <1>3 DEF Held
  <2>2. IsFiniteSet(Order)
    BY KeysAssumption
  <2> HIDE DEF f
  <2> QED BY <2>1, <2>2, TotalType
<1>6. \A r \in Row : onHand[r] \in Nat
  BY <1>1 DEF StoreType
<1>7. NoOversell'
  <2>1. ASSUME NEW r \in Row PROVE Held(r)' <= onHand[r]
    <3>1. Held(r) <= onHand[r]
      BY <1>1 DEF NoOversell
    <3> QED BY <1>4, <1>5, <1>6, <3>1
  <2> QED BY <2>1 DEF NoOversell
<1>8. ReadsStayGood'
  <2>1. ASSUME NEW q \in Proc, NEW r \in Row, lock[r] = q
        PROVE  seenOn[q][r] = onHand[r] /\ Held(r)' <= seenHeld[q][r]
    <3>1. seenOn[q][r] = onHand[r] /\ Held(r) <= seenHeld[q][r]
      BY <1>1, <2>1 DEF ReadsStayGood
    <3>2. seenHeld[q][r] \in Nat
      BY <1>1 DEF WorkerType
    <3> QED BY <1>4, <1>5, <3>1, <3>2
  <2> QED BY <2>1 DEF ReadsStayGood, local
<1> QED BY <1>2, <1>7, <1>8 DEF IInv, TypeOK

-----------------------------------------------------------------------------
(* The steps of a worker before its commit                                 *)

LEMMA BeginSafe ==
    ASSUME IInv, NEW p \in Proc, NEW step \in Step \ {"locked"},
           NEW request \in Request, Begin(p, step, request), Fits(step, request.op)
    PROVE  IInv'
<1>1. WorkerType /\ StoreType /\ LocksMatch /\ StepsMatch
        /\ ReadsStayGood /\ NoOversell /\ LedgerExplains
  BY DEF IInv, TypeOK
<1>2. StoreType' /\ NoOversell' /\ LedgerExplains' /\ ReadsStayGood'
  BY <1>1 DEF Begin, store, StoreType, NoOversell, LedgerExplains, ReadsStayGood, Held
<1>3. WorkerType'
  BY <1>1 DEF Begin, Goto, WorkerType
<1>4. /\ pc[p] = "idle" /\ pc'[p] # "locked"
      /\ \A q \in Proc \ {p} : pc'[q] = pc[q] /\ req'[q] = req[q]
      /\ UNCHANGED <<lock, seenOn, seenHeld>>
  BY <1>1 DEF Begin, Goto, WorkerType
<1>5. LocksMatch'
  <2>1. \A q \in Proc, r \in Row : lock'[r] = q => pc'[q] = "locked"
    BY <1>1, <1>4 DEF LocksMatch
  <2>2. \A q \in Proc, r \in Row :
           lock'[r] # q => seenOn'[q][r] = 0 /\ seenHeld'[q][r] = 0
    BY <1>1, <1>4 DEF LocksMatch
  <2>3. ASSUME NEW q \in Proc, NEW op, Locked(q, op)'
        PROVE  Locked(q, op) /\ req'[q] = req[q]
    BY <1>4, <2>3 DEF Locked
  <2>4. ASSUME NEW q \in Proc,
               Locked(q, "receive")' \/ Locked(q, "adjust")' \/ Locked(q, "revalidate")'
        PROVE  lock'[req'[q].row] = q
    BY <1>1, <1>4, <2>3, <2>4 DEF LocksMatch
  <2>5. ASSUME NEW q \in Proc, Locked(q, "revalidate")'
        PROVE  lock'[<<req'[q].row[1], req'[q].rev>>] = q
    BY <1>1, <1>4, <2>3, <2>5 DEF LocksMatch
  <2> QED BY <2>1, <2>2, <2>4, <2>5 DEF LocksMatch
<1>6. StepsMatch'
  <2>1. pc'[p] = step /\ req'[p] = request
    BY <1>1 DEF Begin, Goto, WorkerType
  <2> QED BY <1>1, <1>4, <2>1 DEF StepsMatch
<1> QED BY <1>2, <1>3, <1>5, <1>6 DEF IInv, TypeOK

LEMMA StartSafe ==
    ASSUME IInv, NEW p \in Proc, Start(p)
    PROVE  IInv'
<1>1. StoreType
  BY DEF IInv, TypeOK
<1>2. {"locking", "cas", "check"} \subseteq Step \ {"locked"}
  BY DEF Step
<1>3. CASE StartPlace(p)
  <2>1. PICK site \in Dest, n \in 1..MaxUnits :
          Begin(p, "locking", [op |-> "place", rev |-> rev, site |-> site, qty |-> n])
    BY <1>3 DEF StartPlace
  <2>2. [op |-> "place", rev |-> rev, site |-> site, qty |-> n] \in Request
    BY <1>1, DestAssumption DEF Request, PlaceReq, StoreType, Site
  <2> QED BY <1>2, <2>1, <2>2, BeginSafe DEF Fits
<1>4. CASE StartReceive(p)
  <2>1. PICK loc \in Loc, n \in 1..MaxUnits, po \in BOOLEAN :
          Begin(p, "locking",
                [op |-> "receive", row |-> <<loc, rev>>, qty |-> n, po |-> po])
    BY <1>4 DEF StartReceive
  <2>2. [op |-> "receive", row |-> <<loc, rev>>, qty |-> n, po |-> po] \in Request
    BY <1>1 DEF Request, ReceiveReq, StoreType, Row
  <2> QED BY <1>2, <2>1, <2>2, BeginSafe DEF Fits
<1>5. CASE StartAdjust(p)
  <2>1. PICK r \in Rows, n \in 0..MaxUnits :
          Begin(p, "locking", [op |-> "adjust", row |-> r, qty |-> n])
    BY <1>5 DEF StartAdjust
  <2>2. [op |-> "adjust", row |-> r, qty |-> n] \in Request
    BY DEF Request, AdjustReq, Rows
  <2> QED BY <1>2, <2>1, <2>2, BeginSafe DEF Fits
<1>6. CASE StartRevalidate(p)
  <2>1. PICK r \in Rows :
          Begin(p, "locking", [op |-> "revalidate", row |-> r, rev |-> rev])
    BY <1>6 DEF StartRevalidate
  <2>2. [op |-> "revalidate", row |-> r, rev |-> rev] \in Request
    BY <1>1 DEF Request, RevalidateReq, Rows, StoreType
  <2> QED BY <1>2, <2>1, <2>2, BeginSafe DEF Fits
<1>7. CASE StartMove(p)
  <2>1a. PICK o \in Order : \E to \in {NextStatus(o), "cancelled"} \ {"none"} :
          /\ status[o] \notin {"none"} \cup Closed
          /\ Begin(p, "cas", [op |-> "move", order |-> o, from |-> status[o], to |-> to])
    BY <1>7 DEF StartMove
  <2>1. PICK to \in {NextStatus(o), "cancelled"} \ {"none"} :
          /\ status[o] \notin {"none"} \cup Closed
          /\ Begin(p, "cas", [op |-> "move", order |-> o, from |-> status[o], to |-> to])
    BY <2>1a
  <2>2. status[o] \in Status \ {"none"} /\ to \in Status \ {"none"}
    BY <1>1, <2>1 DEF StoreType, NextStatus, Status, Open, Closed
  <2>3. [op |-> "move", order |-> o, from |-> status[o], to |-> to] \in Request
    BY <2>2 DEF Request, MoveReq
  <2> QED BY <1>2, <2>1, <2>3, BeginSafe DEF Fits
<1>8. CASE StartExpire(p)
  <2>1. PICK o \in Order : Begin(p, "check", [op |-> "expire", order |-> o])
    BY <1>8 DEF StartExpire
  <2>2. [op |-> "expire", order |-> o] \in Request
    BY DEF Request, ExpireReq
  <2> QED BY <1>2, <2>1, <2>2, BeginSafe DEF Fits
<1> QED BY <1>3, <1>4, <1>5, <1>6, <1>7, <1>8 DEF Start

LEMMA AcquireSafe ==
    ASSUME IInv, NEW p \in Proc, Acquire(p)
    PROVE  IInv'
<1>1. WorkerType /\ StoreType /\ LocksMatch /\ StepsMatch
        /\ ReadsStayGood /\ NoOversell /\ LedgerExplains
  BY DEF IInv, TypeOK
<1>2. UNCHANGED <<rev, rank, onHand, ledger, status, terms, hold, used, need, req>>
  BY DEF Acquire, store
<1>3. StoreType' /\ NoOversell' /\ LedgerExplains' /\ \A r \in Row : Held(r)' = Held(r)
  BY <1>1, <1>2 DEF StoreType, NoOversell, LedgerExplains, Held
<1>4. \A r \in Row : Held(r) \in Nat /\ onHand[r] \in Nat
  BY <1>1, HeldType DEF StoreType
<1>5. WorkerType'
  <2>1. "locked" \in Step
    BY DEF Step
  <2> QED BY <1>1, <1>2, <1>4, <2>1 DEF Acquire, Goto, WorkerType
<1>6. /\ pc[p] = "locking" /\ pc'[p] = "locked"
      /\ \A q \in Proc \ {p} : /\ pc'[q] = pc[q]
                               /\ seenOn'[q] = seenOn[q]
                               /\ seenHeld'[q] = seenHeld[q]
  BY <1>1 DEF Acquire, Goto, WorkerType
<1>7. \A r \in Row : lock[r] # p
  BY <1>1, <1>6 DEF LocksMatch
<1>8. \A r \in Row : IF r \in LockSet(p)
          THEN /\ lock[r] = NoProc /\ lock'[r] = p
               /\ seenOn'[p][r] = onHand[r] /\ seenHeld'[p][r] = Held(r)
          ELSE lock'[r] = lock[r] /\ seenOn'[p][r] = 0 /\ seenHeld'[p][r] = 0
  BY <1>1 DEF Acquire, Granted, WorkerType
<1>9. \A q \in Proc \ {p}, r \in Row : lock'[r] = q <=> lock[r] = q
  BY <1>8, NoneAssumption
<1>10. ReadsStayGood'
  <2>1. ASSUME NEW q \in Proc, NEW r \in Row, lock'[r] = q
        PROVE  seenOn'[q][r] = onHand[r] /\ Held(r) <= seenHeld'[q][r]
    <3>1. CASE q = p
      BY <1>4, <1>7, <1>8, <2>1, <3>1
    <3>2. CASE q # p
      BY <1>1, <1>6, <1>9, <2>1, <3>2 DEF ReadsStayGood
    <3> QED BY <3>1, <3>2
  <2> QED BY <1>2, <1>3, <2>1 DEF ReadsStayGood
<1>11. LocksMatch'
  <2>1. \A q \in Proc, r \in Row : lock'[r] = q => pc'[q] = "locked"
    BY <1>1, <1>6, <1>9 DEF LocksMatch
  <2>2. \A q \in Proc, r \in Row :
           lock'[r] # q => seenOn'[q][r] = 0 /\ seenHeld'[q][r] = 0
    BY <1>1, <1>6, <1>8, <1>9 DEF LocksMatch
  <2>3. ASSUME NEW q \in Proc \ {p}, NEW op, Locked(q, op)'
        PROVE  Locked(q, op) /\ req'[q] = req[q]
    BY <1>2, <1>6, <2>3 DEF Locked
  <2>4. ASSUME NEW q \in Proc,
               Locked(q, "receive")' \/ Locked(q, "adjust")' \/ Locked(q, "revalidate")'
        PROVE  lock'[req'[q].row] = q
    <3>1. req[q].row \in Row
      BY <1>1, <1>2, <2>4, RequestType
      DEF WorkerType, Locked, ReceiveReq, AdjustReq, RevalidateReq
    <3>2. CASE q = p
      <4>1. req[p].row \in LockSet(p)
        BY <1>2, <2>4, <3>2 DEF LockSet, Locked
      <4> QED BY <1>2, <1>8, <3>1, <3>2, <4>1
    <3>3. CASE q # p
      <4>1. lock[req[q].row] = q
        BY <1>1, <2>3, <2>4, <3>3 DEF LocksMatch
      <4> QED BY <1>2, <1>9, <3>1, <3>3, <4>1
    <3> QED BY <3>2, <3>3
  <2>5. ASSUME NEW q \in Proc, Locked(q, "revalidate")'
        PROVE  lock'[<<req'[q].row[1], req'[q].rev>>] = q
    <3>1. <<req[q].row[1], req[q].rev>> \in Row
      BY <1>1, <1>2, <2>5, RequestType DEF WorkerType, Locked, RevalidateReq, Row
    <3>2. CASE q = p
      <4>1. <<req[p].row[1], req[p].rev>> \in LockSet(p)
        BY <1>2, <2>5, <3>2 DEF LockSet, Locked
      <4> QED BY <1>2, <1>8, <3>1, <3>2, <4>1
    <3>3. CASE q # p
      <4>1. lock[<<req[q].row[1], req[q].rev>>] = q
        BY <1>1, <2>3, <2>5, <3>3 DEF LocksMatch
      <4> QED BY <1>2, <1>9, <3>1, <3>3, <4>1
    <3> QED BY <3>2, <3>3
  <2> QED BY <2>1, <2>2, <2>4, <2>5 DEF LocksMatch
<1>12. StepsMatch'
  BY <1>1, <1>2, <1>6 DEF StepsMatch, Fits
<1> QED BY <1>3, <1>5, <1>10, <1>11, <1>12 DEF IInv, TypeOK

-----------------------------------------------------------------------------
(* The commits                                                             *)

\* What a worker may promise from a row: nothing of a row it has not locked,
\* and of one it has, no more than what is free there as it commits.
LEMMA FreeIsFree ==
    ASSUME IInv, NEW p \in Proc, NEW r \in Row
    PROVE  /\ Free(p, r) \in Nat
           /\ lock[r] # p => Free(p, r) = 0
           /\ lock[r] = p => Held(r) + Free(p, r) <= onHand[r]
<1>1. seenOn[p][r] \in Nat /\ seenHeld[p][r] \in Nat /\ onHand[r] \in Nat
  BY DEF IInv, TypeOK, WorkerType, StoreType
<1>2. Held(r) \in Nat /\ Held(r) <= onHand[r]
  BY HeldType DEF IInv, TypeOK, StoreType, NoOversell
<1>3. lock[r] # p => seenOn[p][r] = 0 /\ seenHeld[p][r] = 0
  BY DEF IInv, LocksMatch
<1>4. lock[r] = p => seenOn[p][r] = onHand[r] /\ Held(r) <= seenHeld[p][r]
  BY DEF IInv, ReadsStayGood
<1> QED BY <1>1, <1>2, <1>3, <1>4 DEF Free, AtLeast

LEMMA PlaceSafe ==
    ASSUME IInv, NEW p \in Proc, Place(p)
    PROVE  IInv'
<1> DEFINE free == [r \in Row |-> Free(p, r)]
           take(force) == IF force THEN 0 ELSE AtMost(req[p].qty, Total(free))
           back(force) == req[p].qty - take(force) > 0
<1>1. WorkerType /\ StoreType /\ LedgerExplains
  BY DEF IInv, TypeOK
<1>2. PICK o \in Order, force \in BOOLEAN :
        /\ status' = [status EXCEPT ![o] = "open"]
        /\ terms' = [terms EXCEPT ![o] =
             [qty |-> req[p].qty, site |-> req[p].site, back |-> back(force),
              rev |-> req[p].rev]]
        /\ \E g \in Greedy(free, take(force)) : hold' = [hold EXCEPT ![o] = g]
        /\ UNCHANGED used
        /\ IF back(force) THEN Refresh(req[p].site) ELSE UNCHANGED need
        /\ Leave(p, IF back(force) THEN "refresh" ELSE "idle")
  BY DEF Place
<1>3. UNCHANGED <<rev, rank, onHand, ledger>> /\ Locked(p, "place")
  BY DEF Place
<1>4. req[p] \in PlaceReq
  BY <1>1, <1>3, RequestType DEF WorkerType, Locked
<1>5. PICK g \in Greedy(free, take(force)) : hold' = [hold EXCEPT ![o] = g]
  BY <1>2
<1>6. g \in [Row -> Nat] /\ \A r \in Row : g[r] <= Free(p, r)
  BY DEF Greedy
<1>7. hold' \in [Order -> [Row -> Nat]]
  BY <1>1, <1>5, <1>6 DEF StoreType
<1>8. used' \in [Order -> Nat]
      /\ terms' \in [Order -> [qty : 0..MaxUnits, site : Site, back : BOOLEAN, rev : Rev]]
  <2>1. req[p].qty \in 0..MaxUnits /\ req[p].site \in Site /\ req[p].rev \in Rev
          /\ back(force) \in BOOLEAN
    BY <1>4, BoundAssumption DEF PlaceReq
  <2> QED BY <1>1, <1>2, <2>1 DEF StoreType
<1>9. need' \in [Site -> Nat]
  <2>1. CASE back(force)
    <3>1. PICK k \in {req[p].site} : need' = [need EXCEPT ![k] = Demand(k)']
      BY <1>2, <2>1 DEF Refresh
    <3>2. k \in Site
      BY <1>4, <3>1 DEF PlaceReq
    <3>3. Demand(k)' \in Nat
      BY <1>7, <1>8, <3>2, DemandTypeNext
    <3> QED BY <1>1, <3>1, <3>2, <3>3 DEF StoreType
  <2>2. CASE ~back(force)
    BY <1>1, <1>2, <2>2 DEF StoreType
  <2> QED BY <2>1, <2>2
<1>10. StoreType'
  BY <1>1, <1>2, <1>3, <1>7, <1>8, <1>9 DEF StoreType, Status, Open
<1>11. \A r \in Row : Held(r)' <= Held(r) + g[r]
  <2>1. ASSUME NEW r \in Row PROVE Held(r)' <= Held(r) + g[r]
    <3>1. Held(r)' = Held(r) - hold[o][r] + hold'[o][r]
      BY <1>1, <1>5, <1>7, HeldChange DEF StoreType
    <3>2. hold'[o][r] = g[r] /\ hold[o][r] \in Nat /\ g[r] \in Nat /\ Held(r) \in Nat
      BY <1>1, <1>5, <1>6, HeldType DEF StoreType
    <3> QED BY <3>1, <3>2
  <2> QED BY <2>1
<1>12. \A r \in Row : Held(r)' \in Int /\ Held(r) \in Nat /\ onHand[r] \in Nat
  <2>1. ASSUME NEW r \in Row PROVE Held(r)' \in Int
    <3>1. Held(r)' = Held(r) - hold[o][r] + hold'[o][r]
      BY <1>1, <1>5, <1>7, HeldChange DEF StoreType
    <3>2. hold'[o][r] \in Nat /\ hold[o][r] \in Nat /\ Held(r) \in Nat
      BY <1>1, <1>7, HeldType DEF StoreType
    <3> QED BY <3>1, <3>2
  <2> QED BY <1>1, <2>1, HeldType DEF StoreType
<1>13. \A r \in Row : lock[r] # p => onHand'[r] = onHand[r] /\ Held(r)' <= Held(r)
  <2>1. ASSUME NEW r \in Row, lock[r] # p PROVE Held(r)' <= Held(r)
    <3>1. g[r] = 0
      BY <1>6, <2>1, FreeIsFree
    <3> QED BY <1>11, <1>12, <3>1
  <2> QED BY <1>3, <2>1
<1>14. \A r \in Row : lock[r] = p => Held(r)' <= onHand'[r]
  <2>1. ASSUME NEW r \in Row, lock[r] = p PROVE Held(r)' <= onHand[r]
    <3>1. Held(r) + Free(p, r) <= onHand[r] /\ Free(p, r) \in Nat
      BY <2>1, FreeIsFree
    <3>2. g[r] <= Free(p, r) /\ g[r] \in Nat
      BY <1>6
    <3> QED BY <1>11, <1>12, <3>1, <3>2
  <2> QED BY <1>3, <2>1
<1>15. ledger' = onHand'
  BY <1>1, <1>3 DEF LedgerExplains
<1>16. PICK step \in Step \ {"locked"} : Leave(p, step) /\ Fits(step, req[p].op)
  <2>1. (IF back(force) THEN "refresh" ELSE "idle") \in Step \ {"locked"}
    BY DEF Step
  <2>2. Fits(IF back(force) THEN "refresh" ELSE "idle", req[p].op)
    BY <1>3 DEF Fits, Locked
  <2> QED BY <1>2, <2>1, <2>2
<1> HIDE DEF free, take, back
<1> QED BY <1>10, <1>13, <1>14, <1>15, <1>16, CommitSafe

\* A transaction, or a request, that ends without writing anything.
LEMMA EndSafe ==
    ASSUME IInv, NEW p \in Proc, NEW step \in Step \ {"locked"}, Leave(p, step),
           Fits(step, req[p].op), UNCHANGED <<onHand, ledger>>, StoreType',
           \A o \in Order, r \in Row : hold'[o][r] <= hold[o][r]
    PROVE  IInv'
<1>1. hold \in [Order -> [Row -> Nat]] /\ hold' \in [Order -> [Row -> Nat]]
  BY DEF IInv, TypeOK, StoreType
<1>2. \A r \in Row : Held(r)' <= Held(r) /\ Held(r) \in Nat
  BY <1>1, HeldShrinks, HeldType
<1>3. ledger' = onHand'
  BY DEF IInv, LedgerExplains
<1>4. \A r \in Row : Held(r)' <= onHand'[r]
  <2>1. ASSUME NEW r \in Row PROVE Held(r)' <= onHand[r]
    <3> DEFINE f == [o \in Order |-> hold'[o][r]]
    <3>1. f \in [Order -> Nat] /\ Held(r)' = Total(f)
      BY <1>1 DEF Held
    <3>2. IsFiniteSet(Order)
      BY KeysAssumption
    <3> HIDE DEF f
    <3>3. Held(r)' \in Nat
      BY <3>1, <3>2, TotalType
    <3>4. Held(r) <= onHand[r] /\ onHand[r] \in Nat
      BY DEF IInv, NoOversell, TypeOK, StoreType
    <3> QED BY <1>2, <3>3, <3>4
  <2> QED BY <2>1
<1> QED BY <1>2, <1>3, <1>4, CommitSafe

LEMMA DeclineSafe ==
    ASSUME IInv, NEW p \in Proc, Decline(p) \/ ReleaseDone(p) \/ Crash(p)
    PROVE  IInv'
<1>1. UNCHANGED <<rev, rank, onHand, ledger, status, terms, hold, used, need>>
  BY DEF Decline, ReleaseDone, Crash, store
<1>2. PICK step \in {"idle", "refresh"} : Leave(p, step) /\ Fits(step, req[p].op)
  <2>1. pc[p] = "release" => req[p].op = "move"
    BY DEF IInv, StepsMatch, Fits
  <2> QED BY <2>1 DEF Decline, ReleaseDone, Crash, Fits
<1>3. step \in Step \ {"locked"}
  BY DEF Step
<1>4. StoreType'
  BY <1>1 DEF IInv, TypeOK, StoreType
<1>5. \A o \in Order, r \in Row : hold'[o][r] <= hold[o][r]
  BY <1>1 DEF IInv, TypeOK, StoreType
<1> QED BY <1>1, <1>2, <1>3, <1>4, <1>5, EndSafe

\* What a receipt hands out of a row goes to typed orders and adds up to no more
\* than what is free there.
LEMMA ShareType ==
    ASSUME StoreType, NEW loc, NEW free \in Nat, NEW g \in OldestFirst(loc, free)
    PROVE  g \in [Order -> Nat] /\ Total(g) \in Nat /\ Total(g) <= free
<1>1. g \in [Order -> Nat] /\ Total(g) = AtMost(free, Total(Wanting(loc)))
  BY DEF OldestFirst
<1>2. \A o \in Order : Unfilled(o) \in Nat
  BY UnfilledType
<1>3. Wanting(loc) \in [Order -> Nat]
  BY <1>2 DEF Wanting
<1>4. IsFiniteSet(Order)
  BY KeysAssumption
<1>5. Total(Wanting(loc)) \in Nat /\ Total(g) \in Nat
  BY <1>1, <1>3, <1>4, TotalType
<1> QED BY <1>1, <1>5 DEF AtMost

LEMMA ReceiveSafe ==
    ASSUME IInv, NEW p \in Proc, Receive(p)
    PROVE  IInv'
<1>1. WorkerType /\ StoreType /\ LedgerExplains /\ NoOversell
  BY DEF IInv, TypeOK
<1>2. req[p] \in ReceiveReq
  BY <1>1, RequestType DEF Receive, Locked, WorkerType
<1>2a. PICK row \in Row : row = req[p].row
  BY <1>2 DEF ReceiveReq
<1> DEFINE balance == seenOn[p][row] + req[p].qty
           free == AtLeast(balance - seenHeld[p][row], 0)
<1>3. row \in Row /\ req[p].qty \in Nat /\ row[1] \in Loc
  BY <1>2, BoundAssumption DEF ReceiveReq, Row
<1>4. lock[row] = p
  BY <1>2a DEF IInv, LocksMatch, Receive
<1>5. seenOn[p][row] = onHand[row] /\ Held(row) <= seenHeld[p][row]
  BY <1>3, <1>4 DEF IInv, ReadsStayGood
<1>6. /\ seenHeld[p][row] \in Nat /\ onHand[row] \in Nat
      /\ \A r \in Row : Held(r) \in Nat /\ Held(r) <= onHand[r]
  BY <1>1, <1>3, HeldType DEF WorkerType, StoreType, NoOversell
<1>7. balance \in Nat /\ free \in Nat /\ Held(row) + free <= balance
  BY <1>1, <1>3, <1>5, <1>6 DEF AtLeast
<1>8. onHand' = [onHand EXCEPT ![row] = balance] /\ rank' = Create({row})
      /\ ledger' = [ledger EXCEPT ![row] = ledger[row] + req[p].qty]
  BY <1>2a DEF Receive
<1>9. PICK g \in [Order -> Nat] :
         /\ Total(g) <= free /\ Total(g) \in Nat
         /\ hold' = [o \in Order |-> [hold[o] EXCEPT ![row] = hold[o][row] + g[o]]]
  <2>1. CASE UNCHANGED hold
    <3> DEFINE z == [o \in Order |-> 0]
    <3>1. z \in [Order -> Nat] /\ Total(z) = 0
      BY TotalZero
    <3>2. hold = [o \in Order |-> [hold[o] EXCEPT ![row] = hold[o][row] + z[o]]]
      BY <1>1, <1>3 DEF StoreType
    <3>3. Total(z) <= free /\ Total(z) \in Nat
      BY <1>7, <3>1
    <3> HIDE DEF free
    <3> WITNESS z \in [Order -> Nat]
    <3> QED BY <2>1, <3>2, <3>3
  <2>2. CASE \E g \in OldestFirst(row[1], free) :
                hold' = [o \in Order |-> [hold[o] EXCEPT ![row] = hold[o][row] + g[o]]]
    <3> HIDE DEF free, balance
    <3> QED BY <1>1, <1>7, <2>2, ShareType
  <2> QED BY <1>2a, <2>1, <2>2 DEF Receive
<1> HIDE DEF balance, free
<1>10. hold' \in [Order -> [Row -> Nat]]
  BY <1>1, <1>3, <1>9 DEF StoreType
<1>11. \A r \in Row \ {row} : Held(r)' <= Held(r)
  <2>1. ASSUME NEW r \in Row \ {row} PROVE Held(r)' <= Held(r)
    <3>1. \A o \in Order : hold'[o][r] <= hold[o][r]
      BY <1>1, <1>9 DEF StoreType
    <3> QED BY <1>1, <1>10, <3>1, HeldShrinks DEF StoreType
  <2> QED BY <2>1
<1>12. Held(row)' = Held(row) + Total(g)
  <2> DEFINE f == [o \in Order |-> hold[o][row]]
             h == [o \in Order |-> hold'[o][row]]
  <2>1. f \in [Order -> Nat] /\ h \in [Order -> Nat]
    BY <1>1, <1>3, <1>10 DEF StoreType
  <2>2. \A o \in Order : h[o] = f[o] + g[o]
    BY <1>1, <1>3, <1>9 DEF StoreType
  <2>3. Held(row) = Total(f) /\ Held(row)' = Total(h)
    BY DEF Held
  <2>4. IsFiniteSet(Order)
    BY KeysAssumption
  <2> HIDE DEF f, h
  <2> QED BY <1>9, <2>1, <2>2, <2>3, <2>4, TotalPlus
<1>13. \A r \in Row : lock[r] # p => onHand'[r] = onHand[r] /\ Held(r)' <= Held(r)
  BY <1>1, <1>4, <1>8, <1>11 DEF StoreType
<1>14. \A r \in Row : lock[r] = p => Held(r)' <= onHand'[r]
  <2>1. ASSUME NEW r \in Row \ {row} PROVE Held(r)' <= onHand'[r]
    <3> DEFINE h == [o \in Order |-> hold'[o][r]]
    <3>1. h \in [Order -> Nat] /\ Held(r)' = Total(h)
      BY <1>10 DEF Held
    <3>2. IsFiniteSet(Order)
      BY KeysAssumption
    <3> HIDE DEF h
    <3>3. Held(r)' \in Nat
      BY <3>1, <3>2, TotalType
    <3>4. onHand'[r] = onHand[r] /\ onHand[r] \in Nat
      BY <1>1, <1>8 DEF StoreType
    <3> QED BY <1>6, <1>11, <3>3, <3>4
  <2>2. Held(row)' <= onHand'[row]
    <3>1. onHand'[row] = balance
      BY <1>1, <1>3, <1>8 DEF StoreType
    <3> QED BY <1>3, <1>6, <1>7, <1>9, <1>12, <3>1
  <2> QED BY <2>1, <2>2
<1>15. ledger' = onHand'
  <2>1. ledger[row] + req[p].qty = balance
    BY <1>1, <1>5 DEF LedgerExplains, balance
  <2> QED BY <1>1, <1>8, <2>1 DEF LedgerExplains
<1>16. StoreType'
  <2>1. rank' \in [Row -> Nat]
    <3>1. Cardinality(Rows) \in Nat
      BY RowFinite, FS_Subset, FS_CardinalityType DEF Rows
    <3> QED BY <1>1, <1>8, <3>1 DEF Create, StoreType
  <2>2. onHand' \in [Row -> Nat] /\ ledger' \in [Row -> Nat]
    BY <1>1, <1>3, <1>7, <1>8, <1>15 DEF StoreType
  <2>3. UNCHANGED <<rev, status, terms, used, need>>
    BY DEF Receive
  <2> QED BY <1>1, <1>10, <2>1, <2>2, <2>3 DEF StoreType
<1>17. PICK step \in Step \ {"locked"} : Leave(p, step) /\ Fits(step, req[p].op)
  <2>1. (IF req[p].po THEN "idle" ELSE "refresh") \in Step \ {"locked"}
    BY DEF Step
  <2>3. Fits(IF req[p].po THEN "idle" ELSE "refresh", req[p].op)
    BY DEF Fits, Receive, Locked
  <2>2. Leave(p, IF req[p].po THEN "idle" ELSE "refresh")
    BY DEF Receive
  <2> QED BY <2>1, <2>2, <2>3
<1> QED BY <1>13, <1>14, <1>15, <1>16, <1>17, CommitSafe

LEMMA AdjustSafe ==
    ASSUME IInv, NEW p \in Proc, Adjust(p)
    PROVE  IInv'
<1> DEFINE row == req[p].row
           delta == IF req[p].qty < seenHeld[p][row] THEN 0
                    ELSE req[p].qty - seenOn[p][row]
<1>1. WorkerType /\ StoreType /\ LedgerExplains /\ NoOversell
  BY DEF IInv, TypeOK
<1>2. req[p] \in AdjustReq
  BY <1>1, RequestType DEF Adjust, Locked, WorkerType
<1>3. row \in Row /\ req[p].qty \in Nat
  BY <1>2, BoundAssumption DEF AdjustReq
<1>4. lock[row] = p
  BY DEF IInv, LocksMatch, Adjust
<1>5. seenOn[p][row] = onHand[row] /\ Held(row) <= seenHeld[p][row]
  BY <1>3, <1>4 DEF IInv, ReadsStayGood
<1>6. /\ seenHeld[p][row] \in Nat /\ onHand[row] \in Nat
      /\ \A r \in Row : Held(r) \in Nat /\ Held(r) <= onHand[r]
  BY <1>1, <1>3, HeldType DEF WorkerType, StoreType, NoOversell
<1>7. onHand' = [onHand EXCEPT ![row] = seenOn[p][row] + delta]
      /\ ledger' = [ledger EXCEPT ![row] = ledger[row] + delta]
      /\ UNCHANGED <<rev, rank, status, terms, hold, used, need>> /\ Leave(p, "idle")
  BY DEF Adjust
<1>8. seenOn[p][row] + delta \in Nat /\ Held(row) <= seenOn[p][row] + delta
  BY <1>3, <1>5, <1>6
<1>9. ledger' = onHand'
  <2> HIDE DEF delta
  <2> QED BY <1>1, <1>5, <1>7 DEF LedgerExplains
<1> HIDE DEF delta
<1>10. StoreType'
  BY <1>1, <1>3, <1>7, <1>8, <1>9 DEF StoreType
<1>11. \A r \in Row : Held(r)' = Held(r)
  BY <1>7 DEF Held
<1>12. \A r \in Row : lock[r] # p => onHand'[r] = onHand[r] /\ Held(r)' <= Held(r)
  BY <1>1, <1>4, <1>6, <1>7, <1>11 DEF StoreType
<1>13. \A r \in Row : lock[r] = p => Held(r)' <= onHand'[r]
  BY <1>1, <1>3, <1>6, <1>7, <1>8, <1>11 DEF StoreType
<1>14. "idle" \in Step \ {"locked"} /\ Fits("idle", req[p].op)
  BY DEF Step, Fits
<1> QED BY <1>7, <1>9, <1>10, <1>12, <1>13, <1>14, CommitSafe

LEMMA RevalidateSafe ==
    ASSUME IInv, NEW p \in Proc, Revalidate(p)
    PROVE  IInv'
<1> DEFINE row == req[p].row
           target == <<row[1], req[p].rev>>
           moved == Movable(p)
<1>1. WorkerType /\ StoreType /\ LedgerExplains /\ NoOversell
  BY DEF IInv, TypeOK
<1>2. req[p] \in RevalidateReq
  BY <1>1, RequestType DEF Revalidate, Locked, WorkerType
<1>3. row \in Row /\ target \in Row
  BY <1>2 DEF RevalidateReq, Row
<1>4. lock[row] = p /\ lock[target] = p
  BY DEF IInv, LocksMatch, Revalidate
<1>5. seenOn[p][row] = onHand[row] /\ seenOn[p][target] = onHand[target]
  BY <1>3, <1>4 DEF IInv, ReadsStayGood
<1>6. \A r \in Row : Held(r) \in Nat /\ Held(r) <= onHand[r] /\ onHand[r] \in Nat
  BY <1>1, HeldType DEF StoreType, NoOversell
<1>7. moved \in Nat /\ Held(row) + moved <= onHand[row]
  BY <1>3, <1>4, FreeIsFree DEF Movable
<1>8. /\ rank' = IF moved > 0 THEN Create({target}) ELSE rank
      /\ onHand' = [onHand EXCEPT ![row] = seenOn[p][row] - moved,
                                  ![target] = seenOn[p][target] + moved]
      /\ ledger' = [ledger EXCEPT ![row] = ledger[row] - moved,
                                  ![target] = ledger[target] + moved]
      /\ UNCHANGED <<rev, status, terms, hold, used, need>> /\ Leave(p, "idle")
  BY DEF Revalidate
<1> HIDE DEF moved
<1>9. ledger' = onHand'
  BY <1>1, <1>5, <1>8 DEF LedgerExplains
<1> HIDE DEF row, target
<1>10. /\ onHand'[row] \in Nat /\ Held(row) <= onHand'[row]
       /\ onHand'[target] \in Nat /\ Held(target) <= onHand'[target]
       /\ \A r \in Row \ {row, target} : onHand'[r] = onHand[r]
  <2>1. onHand \in [Row -> Nat]
    BY <1>1 DEF StoreType
  <2>2. onHand'[target] = onHand[target] + moved
    BY <1>3, <1>5, <1>8, <2>1
  <2>3. row # target => onHand'[row] = onHand[row] - moved
    BY <1>3, <1>5, <1>8, <2>1
  <2>4. \A r \in Row \ {row, target} : onHand'[r] = onHand[r]
    BY <1>8, <2>1
  <2> QED BY <1>3, <1>6, <1>7, <2>2, <2>3, <2>4
<1>11. onHand' \in [Row -> Nat]
  <2>1. DOMAIN onHand' = Row /\ onHand' = [r \in Row |-> onHand'[r]]
    BY <1>1, <1>8 DEF StoreType
  <2>2. \A r \in Row : onHand'[r] \in Nat
    BY <1>6, <1>10
  <2> QED BY <2>1, <2>2
<1>12. StoreType'
  <2>1. Cardinality(Rows) \in Nat
    BY RowFinite, FS_Subset, FS_CardinalityType DEF Rows
  <2>2. rank' \in [Row -> Nat]
    BY <1>1, <1>8, <2>1 DEF Create, StoreType
  <2> QED BY <1>1, <1>8, <1>9, <1>11, <2>2 DEF StoreType
<1>13. \A r \in Row : Held(r)' = Held(r)
  BY <1>8 DEF Held
<1>14. \A r \in Row : lock[r] # p => onHand'[r] = onHand[r] /\ Held(r)' <= Held(r)
  BY <1>4, <1>6, <1>10, <1>13
<1>15. \A r \in Row : lock[r] = p => Held(r)' <= onHand'[r]
  BY <1>6, <1>10, <1>13
<1>16. "idle" \in Step \ {"locked"} /\ Fits("idle", req[p].op)
  BY DEF Step, Fits
<1> QED BY <1>8, <1>9, <1>12, <1>14, <1>15, <1>16, CommitSafe

LEMMA ConsumeSafe ==
    ASSUME IInv, NEW p \in Proc, Consume(p)
    PROVE  IInv'
<1> DEFINE o == req[p].order
           out == [r \in Row |-> IF lock[r] = p THEN hold[o][r] ELSE 0]
<1>1. WorkerType /\ StoreType /\ LedgerExplains /\ NoOversell
  BY DEF IInv, TypeOK
<1>2. o \in Order
  BY <1>1, RequestType DEF Consume, Locked, WorkerType, MoveReq
<1>3. /\ onHand' = [r \in Row |-> IF lock[r] = p THEN seenOn[p][r] - out[r] ELSE onHand[r]]
      /\ ledger' = [r \in Row |-> ledger[r] - out[r]]
      /\ hold' = [hold EXCEPT ![o] = [r \in Row |-> hold[o][r] - out[r]]]
      /\ used' = [used EXCEPT ![o] = used[o] + Total(out)]
      /\ UNCHANGED <<rev, rank, status, terms, need>> /\ Leave(p, "idle")
  BY DEF Consume
<1>4. out \in [Row -> Nat] /\ \A r \in Row : out[r] <= hold[o][r]
  BY <1>1, <1>2 DEF StoreType
<1>5. \A r \in Row : /\ Held(r) \in Nat /\ Held(r) <= onHand[r] /\ onHand[r] \in Nat
                     /\ hold[o][r] <= Held(r) /\ hold[o][r] \in Nat
  BY <1>1, <1>2, HeldType DEF StoreType, NoOversell
<1>6. \A r \in Row : lock[r] = p => seenOn[p][r] = onHand[r]
  BY DEF IInv, ReadsStayGood
<1>7. \A r \in Row : lock[r] # p => out[r] = 0
  OBVIOUS
<1> HIDE DEF out, o
<1>8. \A r \in Row : onHand'[r] = onHand[r] - out[r] /\ onHand'[r] \in Nat
  BY <1>3, <1>4, <1>5, <1>6, <1>7
<1>9. onHand' \in [Row -> Nat]
  BY <1>3, <1>8
<1>10. ledger' = onHand'
  <2>1. \A r \in Row : ledger'[r] = onHand'[r]
    BY <1>1, <1>3, <1>8 DEF LedgerExplains
  <2>2. ledger' = [r \in Row |-> ledger'[r]] /\ onHand' = [r \in Row |-> onHand'[r]]
    BY <1>3
  <2> QED BY <2>1, <2>2
<1>11. hold' \in [Order -> [Row -> Nat]]
  <2>1. [r \in Row |-> hold[o][r] - out[r]] \in [Row -> Nat]
    BY <1>4, <1>5
  <2> QED BY <1>1, <1>3, <2>1 DEF StoreType
<1>12. used' \in [Order -> Nat]
  <2>1. Total(out) \in Nat
    BY <1>4, RowFinite, TotalType
  <2> QED BY <1>1, <1>2, <1>3, <2>1 DEF StoreType
<1>13. StoreType'
  BY <1>1, <1>3, <1>9, <1>10, <1>11, <1>12 DEF StoreType
<1>14. \A r \in Row : Held(r)' = Held(r) - out[r]
  <2>1. ASSUME NEW r \in Row PROVE Held(r)' = Held(r) - out[r]
    <3>1. hold'[o][r] = hold[o][r] - out[r]
            /\ \A q \in Order \ {o} : hold'[q][r] = hold[q][r]
      BY <1>1, <1>2, <1>3 DEF StoreType
    <3>2. Held(r)' = Held(r) - hold[o][r] + hold'[o][r]
      BY <1>1, <1>2, <1>11, <3>1, HeldChange DEF StoreType
    <3> QED BY <1>4, <1>5, <3>1, <3>2
  <2> QED BY <2>1
<1>15. \A r \in Row : lock[r] # p => onHand'[r] = onHand[r] /\ Held(r)' <= Held(r)
  BY <1>5, <1>7, <1>8, <1>14
<1>16. \A r \in Row : lock[r] = p => Held(r)' <= onHand'[r]
  BY <1>4, <1>5, <1>8, <1>14
<1>17. "idle" \in Step \ {"locked"} /\ Fits("idle", req[p].op)
  BY DEF Step, Fits
<1> QED BY <1>3, <1>10, <1>13, <1>15, <1>16, <1>17, CommitSafe

-----------------------------------------------------------------------------
(* Steps outside the row locks                                             *)

LEMMA SwapSafe ==
    ASSUME IInv, NEW p \in Proc, Swap(p)
    PROVE  IInv'
<1>1. WorkerType /\ StoreType
  BY DEF IInv, TypeOK
<1>2. /\ UNCHANGED <<rev, rank, onHand, ledger, terms, hold, used, need>>
      /\ Leave(p, IF Won(p) THEN Settle(req[p].to) ELSE "idle")
      /\ status' = IF Won(p) THEN [status EXCEPT ![req[p].order] = req[p].to] ELSE status
  BY DEF Swap
<1>3. req[p].op = "move"
  BY DEF Swap, IInv, StepsMatch, Fits
<1>4. PICK step \in Step \ {"locked"} : Leave(p, step) /\ Fits(step, req[p].op)
  <2>1. (IF Won(p) THEN Settle(req[p].to) ELSE "idle") \in Step \ {"locked"}
    BY DEF Settle, Step
  <2>2. Fits(IF Won(p) THEN Settle(req[p].to) ELSE "idle", req[p].op)
    BY <1>3 DEF Settle, Fits
  <2> QED BY <1>2, <2>1, <2>2
<1>5. req[p].to \in Status
  BY <1>1, <1>3, RequestType DEF WorkerType, MoveReq
<1>6. StoreType'
  BY <1>1, <1>2, <1>5 DEF StoreType
<1>7. \A o \in Order, r \in Row : hold'[o][r] <= hold[o][r]
  BY <1>1, <1>2 DEF StoreType
<1> QED BY <1>2, <1>4, <1>6, <1>7, EndSafe

LEMMA RefreshNeedSafe ==
    ASSUME IInv, NEW p \in Proc, RefreshNeed(p)
    PROVE  IInv'
<1>1. WorkerType /\ StoreType
  BY DEF IInv, TypeOK
<1>2. UNCHANGED <<rev, rank, onHand, ledger, status, terms, hold, used>> /\ Leave(p, "idle")
  BY DEF RefreshNeed
<1>3. req[p].op \in {"place", "receive", "move"}
  BY DEF RefreshNeed, IInv, StepsMatch, Fits
<1>4. SiteOf(p) \in Site
  <2>1. CASE req[p].op = "place"
    BY <1>1, <2>1, RequestType DEF SiteOf, WorkerType, PlaceReq
  <2>2. CASE req[p].op = "receive"
    BY <1>1, <2>2, RequestType DEF SiteOf, WorkerType, ReceiveReq, Row, Site
  <2>3. CASE req[p].op = "move"
    <3>1. req[p].order \in Order
      BY <1>1, <2>3, RequestType DEF WorkerType, MoveReq
    <3> QED BY <1>1, <2>3, <3>1 DEF SiteOf, StoreType
  <2> QED BY <1>3, <2>1, <2>2, <2>3
<1>5. PICK k \in Site : need' = [need EXCEPT ![k] = Demand(k)']
  BY <1>4 DEF RefreshNeed, Refresh
<1>6. Demand(k)' \in Nat
  <2>1. /\ hold' \in [Order -> [Row -> Nat]] /\ used' \in [Order -> Nat]
        /\ terms' \in [Order -> [qty : 0..MaxUnits, site : Site, back : BOOLEAN, rev : Rev]]
    BY <1>1, <1>2 DEF StoreType
  <2> QED BY <2>1, DemandTypeNext
<1>7. StoreType'
  BY <1>1, <1>2, <1>5, <1>6 DEF StoreType
<1>8. \A o \in Order, r \in Row : hold'[o][r] <= hold[o][r]
  BY <1>1, <1>2 DEF StoreType
<1>9. "idle" \in Step \ {"locked"} /\ Fits("idle", req[p].op)
  BY DEF Step, Fits
<1> QED BY <1>2, <1>7, <1>8, <1>9, EndSafe

LEMMA ExpireSafe ==
    ASSUME IInv, NEW p \in Proc, Expire(p)
    PROVE  IInv'
<1>1. WorkerType /\ StoreType
  BY DEF IInv, TypeOK
<1>2. req[p].op = "expire"
  BY DEF Expire, IInv, StepsMatch, Fits
<1>3. PICK o \in Order : o = req[p].order
  BY <1>1, <1>2, RequestType DEF WorkerType, ExpireReq
<1>4. "idle" \in Step \ {"locked"} /\ Fits("idle", req[p].op) /\ Leave(p, "idle")
  BY DEF Step, Fits, Expire
<1>5. CASE UNCHANGED store
  <2>1. StoreType' /\ UNCHANGED <<onHand, ledger, hold>>
    BY <1>1, <1>5 DEF store, StoreType
  <2>2. \A q \in Order, r \in Row : hold'[q][r] <= hold[q][r]
    BY <1>1, <2>1 DEF StoreType
  <2> QED BY <1>4, <2>1, <2>2, EndSafe
<1>6. CASE /\ hold' = [hold EXCEPT ![o] = [r \in Row |-> 0]]
           /\ \E end \in {"open", "cancelled"} : status' = [status EXCEPT ![o] = end]
           /\ UNCHANGED <<rev, rank, onHand, ledger, terms, used>>
           /\ Refresh(terms[o].site)
  <2>1. hold' \in [Order -> [Row -> Nat]]
    BY <1>1, <1>6 DEF StoreType
  <2>2. PICK k \in Site : need' = [need EXCEPT ![k] = Demand(k)']
    <3>1. terms[o].site \in Site
      BY <1>1 DEF StoreType
    <3> QED BY <1>6, <3>1 DEF Refresh
  <2>3. Demand(k)' \in Nat
    <3>1. /\ used' \in [Order -> Nat]
          /\ terms' \in [Order -> [qty : 0..MaxUnits, site : Site, back : BOOLEAN, rev : Rev]]
      BY <1>1, <1>6 DEF StoreType
    <3> QED BY <2>1, <3>1, DemandTypeNext
  <2>4. StoreType'
    BY <1>1, <1>6, <2>1, <2>2, <2>3 DEF StoreType, Status, Open, Closed
  <2>5. \A q \in Order, r \in Row : hold'[q][r] <= hold[q][r]
    BY <1>1, <1>6 DEF StoreType
  <2> QED BY <1>4, <1>6, <2>4, <2>5, EndSafe
<1> QED BY <1>3, <1>5, <1>6 DEF Expire

\* Steps of no worker's, and a release of one row's units.
LEMMA ReleaseRowSafe ==
    ASSUME IInv, NEW p \in Proc, ReleaseRow(p)
    PROVE  IInv'
<1>1. WorkerType /\ StoreType
  BY DEF IInv, TypeOK
<1>2. PICK r \in Row : hold' = [hold EXCEPT ![req[p].order][r] = 0]
  BY DEF ReleaseRow
<1>3. UNCHANGED <<rev, rank, onHand, ledger, status, terms, used, need, lock, local>>
  BY DEF ReleaseRow
<1>4. StoreType'
  BY <1>1, <1>2, <1>3 DEF StoreType
<1>5. \A q \in Order, t \in Row : hold'[q][t] <= hold[q][t]
  BY <1>1, <1>2 DEF StoreType
<1> QED BY <1>3, <1>4, <1>5, QuietSafe

LEMMA OutsideSafe ==
    ASSUME IInv, EditFit \/ \E o \in Order : Claim(o) \/ Unclaim(o)
    PROVE  IInv'
<1>1. StoreType
  BY DEF IInv, TypeOK
<1>2. UNCHANGED <<rank, onHand, ledger, terms, hold, used, need, lock, local>>
  BY DEF EditFit, Claim, Unclaim
<1>3. rev' \in Rev /\ status' \in [Order -> Status]
  BY <1>1 DEF EditFit, Claim, Unclaim, StoreType, Status, Open
<1>4. StoreType'
  BY <1>1, <1>2, <1>3 DEF StoreType
<1>5. \A q \in Order, t \in Row : hold'[q][t] <= hold[q][t]
  BY <1>1, <1>2 DEF StoreType
<1> QED BY <1>2, <1>4, <1>5, QuietSafe

-----------------------------------------------------------------------------
(* The theorems                                                            *)

LEMMA InitIInv == Init => IInv
<1> SUFFICES ASSUME Init PROVE IInv
  OBVIOUS
<1>1. StoreType
  <2>1. NoTerms \in [qty : 0..MaxUnits, site : Site, back : BOOLEAN, rev : Rev]
    <3>1. (CHOOSE v \in Rev : TRUE) \in Rev
      BY DEF Init
    <3> QED BY <3>1, BoundAssumption DEF NoTerms, Site
  <2> QED BY <2>1 DEF Init, StoreType, Status
<1>2. WorkerType
  BY DEF Init, WorkerType, Step, Request
<1>3. LocksMatch /\ ReadsStayGood
  BY NoneAssumption DEF Init, LocksMatch, ReadsStayGood, Locked
<1>4. StepsMatch
  BY DEF Init, StepsMatch, Fits
<1>5. NoOversell
  <2>1. ASSUME NEW r \in Row PROVE Held(r) <= onHand[r]
    <3> DEFINE f == [o \in Order |-> hold[o][r]]
    <3>1. f \in [Order -> Nat] /\ \A o \in Order : f[o] = 0
      BY DEF Init
    <3>2. Held(r) = Total(f)
      BY DEF Held
    <3> HIDE DEF f
    <3>3. Held(r) = 0
      BY <3>1, <3>2, TotalZero
    <3> QED BY <3>3 DEF Init
  <2> QED BY <2>1 DEF NoOversell
<1>6. LedgerExplains
  BY DEF Init, LedgerExplains
<1> QED BY <1>1, <1>2, <1>3, <1>4, <1>5, <1>6 DEF IInv, TypeOK

LEMMA NextIInv == IInv /\ [Next]_vars => IInv'
<1> SUFFICES ASSUME IInv, [Next]_vars PROVE IInv'
  OBVIOUS
<1>1. CASE UNCHANGED vars
  BY <1>1 DEF vars, IInv, TypeOK, StoreType, WorkerType, LocksMatch, StepsMatch,
              ReadsStayGood, NoOversell, LedgerExplains, Locked, Held
<1>2. ASSUME NEW p \in Proc, Start(p) PROVE IInv'
  BY <1>2, StartSafe
<1>3. ASSUME NEW p \in Proc, Acquire(p) PROVE IInv'
  BY <1>3, AcquireSafe
<1>4. ASSUME NEW p \in Proc, Work(p) PROVE IInv'
  BY <1>4, PlaceSafe, DeclineSafe, ReceiveSafe, AdjustSafe, RevalidateSafe, ConsumeSafe,
     SwapSafe, ReleaseRowSafe, RefreshNeedSafe, ExpireSafe DEF Work
<1>5. ASSUME NEW p \in Proc, Crash(p) PROVE IInv'
  BY <1>5, DeclineSafe
<1>6. CASE EditFit \/ \E o \in Order : Claim(o) \/ Unclaim(o)
  BY <1>6, OutsideSafe
<1> QED BY <1>1, <1>2, <1>3, <1>4, <1>5, <1>6 DEF Next

\* The invariant the others rest on.
THEOREM Invariance == Spec => []IInv
BY InitIInv, NextIInv, PTL DEF Spec

\* The tables and the workers keep their types.
THEOREM TypesHold == Spec => []TypeOK
<1>1. IInv => TypeOK
  BY DEF IInv
<1> QED BY <1>1, Invariance, PTL

\* No row ever promises more units than it has.
THEOREM NeverOversold == Spec => []NoOversell
<1>1. IInv => NoOversell
  BY DEF IInv
<1> QED BY <1>1, Invariance, PTL

\* Every balance is explained by its ledger: no update is ever lost.
THEOREM LedgerHolds == Spec => []LedgerExplains
<1>1. IInv => LedgerExplains
  BY DEF IInv
<1> QED BY <1>1, Invariance, PTL

\* What a worker reads under its locks holds until it commits.
THEOREM ReadsHold == Spec => []ReadsStayGood
<1>1. IInv => ReadsStayGood
  BY DEF IInv
<1> QED BY <1>1, Invariance, PTL

-----------------------------------------------------------------------------
(* Orders: what they ask for, hold and receive                             *)

\* An order that does not exist yet asks for nothing.
UnbornAskNothing == \A o \in Order : status[o] = "none" => terms[o].qty = 0

\* A worker on its way through transition_order: between its read and its swap,
\* or settling what it has swapped.
Moving(p) == req[p].op = "move" /\ pc[p] \in {"cas", "locking", "locked", "release"}
Delivering(p, o) ==
    req[p].op = "move" /\ req[p].order = o /\ pc[p] \in {"locking", "locked"}

\* A swap starts from a status that may still move, and one that gives an order
\* back to those that wait takes it from them; a delivery or a release is
\* settled of an order delivered or cancelled for good.
MovesMade ==
    \A p \in Proc : Moving(p) =>
        /\ pc[p] = "cas" => /\ req[p].from \notin Closed \cup {"none"}
                            /\ req[p].to \in Open => req[p].from \in Open
        /\ pc[p] \in {"locking", "locked"} => status[req[p].order] = "delivered"
        /\ pc[p] = "release" => status[req[p].order] = "cancelled"

\* One worker delivers an order, and it has received nothing before.
OneDelivery ==
    /\ \A o \in Order : used[o] # 0 => status[o] = "delivered"
    /\ \A p \in Proc, o \in Order : Delivering(p, o) =>
          used[o] = 0 /\ \A q \in Proc : Delivering(q, o) => q = p

OrdersInv ==
    UnbornAskNothing /\ MovesMade /\ OneDelivery /\ NeverOverfilled /\ NeedCoversDemand

\* What a step may do to an order: the three step properties at once.
HonestTo(o) ==
    /\ status[o] \in Closed => /\ status'[o] = status[o]
                               /\ \A r \in Row : hold'[o][r] <= hold[o][r]
    /\ \A r \in Row : hold'[o][r] < hold[o][r] => status[o] \in {"open"} \cup Closed
    /\ used'[o] # used[o] =>
         /\ used[o] = 0
         /\ status[o] = "delivered"
         /\ \A r \in Row : onHand[r] - onHand'[r] = hold[o][r] - hold'[o][r]
Honest == \A o \in Order : HonestTo(o)

-----------------------------------------------------------------------------
(* Sums over an order and over the orders that wait                        *)

\* The units an order holds and has received, and those it still waits for.
LEMMA CoveredType ==
    ASSUME StoreType, NEW o \in Order
    PROVE  /\ Total(hold[o]) \in Nat /\ used[o] \in Nat /\ terms[o].qty \in Nat
           /\ Covered(o) = Total(hold[o]) + used[o]
           /\ Unfilled(o) = AtLeast(terms[o].qty - Covered(o), 0)
<1>1. hold[o] \in [Row -> Nat] /\ used[o] \in Nat /\ terms[o].qty \in Nat
  BY BoundAssumption DEF StoreType
<1>2. Total(hold[o]) \in Nat
  BY <1>1, RowFinite, TotalType
<1> QED BY <1>1, <1>2 DEF Covered, Unfilled

LEMMA CoveredTypeNext ==
    ASSUME StoreType', NEW o \in Order
    PROVE  /\ Total(hold'[o]) \in Nat /\ used'[o] \in Nat /\ terms'[o].qty \in Nat
           /\ Covered(o)' = Total(hold'[o]) + used'[o]
           /\ Unfilled(o)' = AtLeast(terms'[o].qty - Covered(o)', 0)
<1>1. hold'[o] \in [Row -> Nat] /\ used'[o] \in Nat /\ terms'[o].qty \in Nat
  BY BoundAssumption DEF StoreType
<1>2. Total(hold'[o]) \in Nat
  BY <1>1, RowFinite, TotalType
<1> QED BY <1>1, <1>2 DEF Covered, Unfilled

\* An order that gains no units in any row is covered no better.
LEMMA CoveredShrinks ==
    ASSUME StoreType, StoreType', NEW o \in Order, used'[o] = used[o],
           \A r \in Row : hold'[o][r] <= hold[o][r]
    PROVE  Covered(o)' <= Covered(o)
<1>1. hold[o] \in [Row -> Nat] /\ hold'[o] \in [Row -> Nat]
  BY DEF StoreType
<1>2. Total(hold'[o]) <= Total(hold[o])
  BY <1>1, RowFinite, TotalMonotone
<1> QED BY <1>2, CoveredType, CoveredTypeNext

\* No order that counts towards a location waits for more than before.
Eased(k) ==
    \A o \in Order : Counts(o, k)' =>
        (Counts(o, k) /\ Unfilled(o)' <= Unfilled(o)) \/ Unfilled(o)' = 0

LEMMA DemandShrinks ==
    ASSUME StoreType, StoreType', NEW k \in Site, Eased(k)
    PROVE  Demand(k)' <= Demand(k) /\ Demand(k)' \in Nat /\ Demand(k) \in Nat
<1> DEFINE f == [o \in Order |-> IF Counts(o, k) THEN Unfilled(o) ELSE 0]
           g == [o \in Order |-> IF Counts(o, k)' THEN Unfilled(o)' ELSE 0]
<1>1. \A o \in Order : Unfilled(o) \in Nat
  BY UnfilledType
<1>2. \A o \in Order : Unfilled(o)' \in Nat
  <2> SUFFICES ASSUME NEW o \in Order PROVE Unfilled(o)' \in Nat
    OBVIOUS
  <2> QED BY CoveredTypeNext DEF AtLeast
<1>3. f \in [Order -> Nat] /\ g \in [Order -> Nat]
  BY <1>1, <1>2
<1>4. \A o \in Order : g[o] <= f[o]
  BY <1>1, <1>2 DEF Eased
<1>5. Demand(k) = Total(f) /\ Demand(k)' = Total(g)
  BY DEF Demand
<1>6. IsFiniteSet(Order)
  BY KeysAssumption
<1> HIDE DEF f, g
<1> QED BY <1>3, <1>4, <1>5, <1>6, TotalMonotone, TotalType

\* The need keeps covering a demand that eases, or is set to it.
LEMMA NeedKept ==
    ASSUME StoreType, StoreType', NeedCoversDemand,
           \A k \in Site : need'[k] = Demand(k)' \/ (need'[k] = need[k] /\ Eased(k))
    PROVE  NeedCoversDemand'
<1> SUFFICES ASSUME NEW k \in Site PROVE need'[k] >= Demand(k)'
  BY DEF NeedCoversDemand
<1>1. CASE need'[k] = Demand(k)'
  <2>1. need'[k] \in Nat
    BY DEF StoreType
  <2> QED BY <1>1, <2>1
<1>2. CASE need'[k] = need[k] /\ Eased(k)
  <2>1. need[k] >= Demand(k) /\ need[k] \in Nat
    BY DEF NeedCoversDemand, StoreType
  <2> QED BY <1>2, <2>1, DemandShrinks
<1> QED BY <1>1, <1>2

\* A demand whose orders are left alone eases.
LEMMA LeftAloneEases ==
    ASSUME StoreType, NEW k \in Site, UNCHANGED <<terms, hold, used>>,
           \A o \in Order : status'[o] \in Open => status[o] \in Open
    PROVE  Eased(k)
<1>1. \A o \in Order : Unfilled(o)' = Unfilled(o) /\ Unfilled(o) \in Nat
  BY UnfilledType DEF Unfilled, Covered
<1>2. \A o \in Order : Counts(o, k)' => Counts(o, k)
  BY DEF Counts
<1> QED BY <1>1, <1>2 DEF Eased

-----------------------------------------------------------------------------
(* What a step has to establish                                            *)

\* A worker that goes on with its move as before, or makes none.
GoesOn(q) ==
    \/ ~Moving(q)'
    \/ UNCHANGED <<req[q], pc[q]>>
    \/ UNCHANGED req[q] /\ {pc[q], pc'[q]} \subseteq {"locking", "locked"}

\* What is known of workers on the move stays true if they go on, closed orders
\* stay closed and deliveries of others are left alone.
LEMMA MovesKept ==
    ASSUME StoreType, WorkerType, MovesMade, OneDelivery,
           \A q \in Proc : GoesOn(q),
           \A o \in Order : status[o] \in Closed => status'[o] = status[o],
           \A o \in Order : used'[o] # used[o] =>
               status'[o] = "delivered" /\ \A q \in Proc : ~Delivering(q, o)'
    PROVE  MovesMade' /\ OneDelivery'
<1>1. ASSUME NEW q \in Proc, Moving(q)'
      PROVE  /\ Moving(q) /\ req'[q] = req[q] /\ req[q] \in MoveReq
             /\ pc'[q] = pc[q] \/ {pc[q], pc'[q]} \subseteq {"locking", "locked"}
  <2>1. Moving(q) /\ req'[q] = req[q]
          /\ (pc'[q] = pc[q] \/ {pc[q], pc'[q]} \subseteq {"locking", "locked"})
    BY <1>1 DEF GoesOn, Moving
  <2>2. req[q] \in MoveReq
    BY <2>1, RequestType DEF WorkerType, Moving
  <2> QED BY <2>1, <2>2
<1>2. MovesMade'
  <2> SUFFICES ASSUME NEW q \in Proc, Moving(q)'
               PROVE  /\ pc'[q] = "cas" => /\ req'[q].from \notin Closed \cup {"none"}
                                           /\ req'[q].to \in Open => req'[q].from \in Open
                      /\ pc'[q] \in {"locking", "locked"} => status'[req'[q].order] = "delivered"
                      /\ pc'[q] = "release" => status'[req'[q].order] = "cancelled"
    BY DEF MovesMade
  <2>1. req[q].order \in Order
    BY <1>1 DEF MoveReq
  <2>2. CASE pc'[q] = "cas"
    BY <1>1, <2>2 DEF MovesMade
  <2>3. CASE pc'[q] \in {"locking", "locked"}
    <3>1. pc[q] \in {"locking", "locked"}
      BY <1>1, <2>3
    <3>2. status[req[q].order] = "delivered"
      BY <1>1, <3>1 DEF MovesMade
    <3> QED BY <1>1, <2>1, <2>3, <3>2 DEF Closed
  <2>4. CASE pc'[q] = "release"
    <3>1. status[req[q].order] = "cancelled"
      BY <1>1, <2>4 DEF MovesMade
    <3> QED BY <1>1, <2>1, <2>4, <3>1 DEF Closed
  <2> QED BY <2>2, <2>3, <2>4 DEF Moving
<1>3. ASSUME NEW q \in Proc, NEW o \in Order, Delivering(q, o)' PROVE Delivering(q, o)
  <2>1. Moving(q)'
    BY <1>3 DEF Delivering, Moving
  <2> QED BY <1>1, <1>3, <2>1 DEF Delivering
<1>4. OneDelivery'
  <2>1. ASSUME NEW o \in Order, used'[o] # 0 PROVE status'[o] = "delivered"
    <3>1. CASE used'[o] = used[o]
      BY <2>1, <3>1 DEF OneDelivery, Closed
    <3> QED BY <3>1
  <2>2. ASSUME NEW q \in Proc, NEW o \in Order, Delivering(q, o)'
        PROVE  used'[o] = 0 /\ \A t \in Proc : Delivering(t, o)' => t = q
    <3>1. used'[o] = used[o] /\ Delivering(q, o)
      BY <1>3, <2>2
    <3> QED BY <1>3, <3>1 DEF OneDelivery
  <2> QED BY <2>1, <2>2 DEF OneDelivery
<1> QED BY <1>2, <1>4

\* The other workers go on when one leaves its transaction or begins a request.
LEMMA OthersGoOn ==
    ASSUME WorkerType, NEW p \in Proc, NEW step \in {"idle", "refresh"}, Leave(p, step)
    PROVE  \A q \in Proc : GoesOn(q) /\ (q # p => UNCHANGED <<req[q], pc[q]>>) /\ ~Moving(p)'
<1>1. \A q \in Proc \ {p} : pc'[q] = pc[q] /\ req'[q] = req[q]
  BY DEF WorkerType, Leave, Goto
<1>2. pc'[p] = step
  BY DEF WorkerType, Leave, Goto
<1>3. ~Moving(p)'
  BY <1>2 DEF Moving
<1> QED BY <1>1, <1>3 DEF GoesOn

\* A step that leaves every order alone.
LEMMA QuietKeeps ==
    ASSUME IInv, StoreType', OrdersInv, \A q \in Proc : GoesOn(q),
           UNCHANGED <<status, terms, hold, used, need>>
    PROVE  OrdersInv' /\ Honest
<1>1. StoreType /\ WorkerType
  BY DEF IInv, TypeOK
<1>2. MovesMade' /\ OneDelivery'
  BY <1>1, MovesKept DEF OrdersInv
<1>3. UnbornAskNothing' /\ NeverOverfilled' /\ NeedCoversDemand'
  BY DEF OrdersInv, UnbornAskNothing, NeverOverfilled, NeedCoversDemand,
         Covered, Demand, Counts, Unfilled
<1>4. Honest
  <2>1. \A o \in Order, r \in Row : hold[o][r] \in Nat
    BY <1>1 DEF StoreType
  <2> QED BY <2>1 DEF Honest, HonestTo
<1> QED BY <1>2, <1>3, <1>4 DEF OrdersInv

-----------------------------------------------------------------------------
(* The steps                                                               *)

LEMMA StartKeeps ==
    ASSUME IInv, IInv', OrdersInv, NEW p \in Proc, Start(p)
    PROVE  OrdersInv' /\ Honest
<1>1. StoreType /\ StoreType' /\ WorkerType
  BY DEF IInv, TypeOK
<1>2. ASSUME NEW step, NEW request, Begin(p, step, request)
      PROVE  /\ UNCHANGED <<status, terms, hold, used, need>>
             /\ req'[p] = request /\ pc'[p] = step
             /\ \A q \in Proc \ {p} : GoesOn(q)
  BY <1>1, <1>2 DEF Begin, Goto, store, GoesOn, WorkerType
<1>3. ASSUME NEW step, NEW request, Begin(p, step, request), request.op # "move"
      PROVE  OrdersInv' /\ Honest
  <2>1. GoesOn(p)
    BY <1>2, <1>3 DEF GoesOn, Moving
  <2> QED BY <1>1, <1>2, <1>3, <2>1, QuietKeeps
<1>4. CASE StartPlace(p) \/ StartReceive(p) \/ StartAdjust(p) \/ StartRevalidate(p)
             \/ StartExpire(p)
  BY <1>3, <1>4 DEF StartPlace, StartReceive, StartAdjust, StartRevalidate, StartExpire
<1>5. CASE StartMove(p)
  <2>1. PICK o \in Order : \E to \in {NextStatus(o), "cancelled"} \ {"none"} :
          /\ status[o] \notin {"none"} \cup Closed
          /\ Begin(p, "cas", [op |-> "move", order |-> o, from |-> status[o], to |-> to])
    BY <1>5 DEF StartMove
  <2>2. PICK to \in {NextStatus(o), "cancelled"} \ {"none"} :
          /\ status[o] \notin {"none"} \cup Closed
          /\ Begin(p, "cas", [op |-> "move", order |-> o, from |-> status[o], to |-> to])
    BY <2>1
  <2>3. to \in Open => status[o] \in Open
    BY <2>2 DEF NextStatus, Open
  <2>4. /\ UNCHANGED <<status, terms, hold, used, need>>
        /\ req'[p] = [op |-> "move", order |-> o, from |-> status[o], to |-> to]
        /\ pc'[p] = "cas"
        /\ \A q \in Proc \ {p} : GoesOn(q)
    BY <1>2, <2>2
  <2>5. UnbornAskNothing' /\ NeverOverfilled' /\ NeedCoversDemand'
    BY <2>4 DEF OrdersInv, UnbornAskNothing, NeverOverfilled, NeedCoversDemand,
                Covered, Demand, Counts, Unfilled
  <2>6. ASSUME NEW q \in Proc, Moving(q)', q # p
        PROVE  /\ Moving(q) /\ req'[q] = req[q]
               /\ pc'[q] = pc[q] \/ {pc[q], pc'[q]} \subseteq {"locking", "locked"}
    BY <2>4, <2>6 DEF GoesOn, Moving
  <2>7. MovesMade'
    <3> SUFFICES ASSUME NEW q \in Proc, Moving(q)'
                 PROVE  /\ pc'[q] = "cas" => /\ req'[q].from \notin Closed \cup {"none"}
                                             /\ req'[q].to \in Open => req'[q].from \in Open
                        /\ pc'[q] \in {"locking", "locked"} => status'[req'[q].order] = "delivered"
                        /\ pc'[q] = "release" => status'[req'[q].order] = "cancelled"
      BY DEF MovesMade
    <3>1. CASE q = p
      BY <2>2, <2>3, <2>4, <3>1
    <3>2. CASE q # p
      <4>1. pc[q] = "cas" => /\ req[q].from \notin Closed \cup {"none"}
                             /\ req[q].to \in Open => req[q].from \in Open
        BY <2>6, <3>2 DEF OrdersInv, MovesMade
      <4>2. /\ pc[q] \in {"locking", "locked"} => status[req[q].order] = "delivered"
            /\ pc[q] = "release" => status[req[q].order] = "cancelled"
        BY <2>6, <3>2 DEF OrdersInv, MovesMade
      <4> QED BY <2>4, <2>6, <3>2, <4>1, <4>2
    <3> QED BY <3>1, <3>2
  <2>8. OneDelivery'
    <3>1. ASSUME NEW q \in Proc, NEW k \in Order, Delivering(q, k)' PROVE Delivering(q, k)
      BY <2>4, <2>6, <3>1 DEF Delivering, Moving
    <3> QED BY <2>4, <3>1 DEF OrdersInv, OneDelivery
  <2>9. Honest
    <3>1. \A k \in Order, r \in Row : hold[k][r] \in Nat
      BY <1>1 DEF StoreType
    <3> QED BY <2>4, <3>1 DEF Honest, HonestTo
  <2> QED BY <2>5, <2>7, <2>8, <2>9 DEF OrdersInv
<1> QED BY <1>4, <1>5 DEF Start

LEMMA IdleKeeps ==
    ASSUME IInv, IInv', OrdersInv, NEW p \in Proc,
           Acquire(p) \/ Decline(p) \/ Adjust(p) \/ Revalidate(p) \/ ReleaseDone(p) \/ Crash(p)
    PROVE  OrdersInv' /\ Honest
<1>1. StoreType' /\ WorkerType
  BY DEF IInv, TypeOK
<1>2. CASE Acquire(p)
  <2>1. UNCHANGED <<status, terms, hold, used, need, req>>
    BY <1>2 DEF Acquire, store
  <2>2. /\ \A q \in Proc \ {p} : pc'[q] = pc[q]
        /\ pc[p] = "locking" /\ pc'[p] = "locked"
    BY <1>1, <1>2 DEF Acquire, Goto, WorkerType
  <2>3. \A q \in Proc : GoesOn(q)
    BY <2>1, <2>2 DEF GoesOn
  <2> QED BY <1>1, <2>1, <2>3, QuietKeeps
<1>3. CASE Decline(p) \/ Adjust(p) \/ Revalidate(p) \/ ReleaseDone(p) \/ Crash(p)
  <2>1. UNCHANGED <<status, terms, hold, used, need>>
    BY <1>3 DEF Decline, Adjust, Revalidate, ReleaseDone, Crash, store
  <2>2. Leave(p, "idle") \/ Leave(p, "refresh")
    BY <1>3 DEF Decline, Adjust, Revalidate, ReleaseDone, Crash
  <2>3. \A q \in Proc : GoesOn(q)
    BY <1>1, <2>2, OthersGoOn
  <2> QED BY <1>1, <2>1, <2>3, QuietKeeps
<1> QED BY <1>2, <1>3

LEMMA OutsideKeeps ==
    ASSUME IInv, IInv', OrdersInv, EditFit \/ \E o \in Order : Claim(o) \/ Unclaim(o)
    PROVE  OrdersInv' /\ Honest
<1>1. StoreType /\ StoreType' /\ WorkerType
  BY DEF IInv, TypeOK
<1>2. UNCHANGED <<terms, hold, used, need, pc, req>>
  BY DEF EditFit, Claim, Unclaim, local
<1>3. \A q \in Proc : GoesOn(q)
  BY <1>2 DEF GoesOn
<1>4. CASE EditFit
  <2>1. UNCHANGED status
    BY <1>4 DEF EditFit
  <2> QED BY <1>1, <1>2, <1>3, <2>1, QuietKeeps
<1>5. CASE \E o \in Order : Claim(o) \/ Unclaim(o)
  <2>1. \A o \in Order : status'[o] # status[o] => {status[o], status'[o]} \subseteq {"open", "claimed"}
    BY <1>1, <1>5 DEF Claim, Unclaim, StoreType
  <2>2. \A o \in Order : /\ status[o] \in Closed => status'[o] = status[o]
                         /\ status'[o] = "none" => status[o] = "none"
                         /\ status'[o] \in Open => status[o] \in Open
    BY <2>1 DEF Closed, Open
  <2>3. MovesMade' /\ OneDelivery'
    BY <1>1, <1>2, <1>3, <2>2, MovesKept DEF OrdersInv
  <2>4. UnbornAskNothing' /\ NeverOverfilled'
    BY <1>2, <2>2 DEF OrdersInv, UnbornAskNothing, NeverOverfilled, Covered
  <2>5. NeedCoversDemand'
    BY <1>1, <1>2, <2>2, LeftAloneEases, NeedKept DEF OrdersInv
  <2>6. Honest
    <3>1. \A k \in Order, r \in Row : hold[k][r] \in Nat
      BY <1>1 DEF StoreType
    <3> QED BY <1>2, <2>2, <3>1 DEF Honest, HonestTo
  <2> QED BY <2>3, <2>4, <2>5, <2>6 DEF OrdersInv
<1> QED BY <1>4, <1>5

LEMMA RefreshNeedKeeps ==
    ASSUME IInv, IInv', OrdersInv, NEW p \in Proc, RefreshNeed(p)
    PROVE  OrdersInv' /\ Honest
<1>1. StoreType /\ StoreType' /\ WorkerType
  BY DEF IInv, TypeOK
<1>2. UNCHANGED <<status, terms, hold, used>> /\ Leave(p, "idle")
  BY DEF RefreshNeed
<1>3. \A q \in Proc : GoesOn(q)
  BY <1>1, <1>2, OthersGoOn
<1>4. MovesMade' /\ OneDelivery'
  BY <1>1, <1>2, <1>3, MovesKept DEF OrdersInv
<1>5. UnbornAskNothing' /\ NeverOverfilled'
  BY <1>2 DEF OrdersInv, UnbornAskNothing, NeverOverfilled, Covered
<1>6. PICK site : need' = [need EXCEPT ![site] = Demand(site)']
  BY DEF RefreshNeed, Refresh
<1>7. \A k \in Site : need'[k] = Demand(k)' \/ need'[k] = need[k]
  BY <1>1, <1>6 DEF StoreType
<1>8. NeedCoversDemand'
  BY <1>1, <1>2, <1>7, LeftAloneEases, NeedKept DEF OrdersInv
<1>9. Honest
  <2>1. \A k \in Order, r \in Row : hold[k][r] \in Nat
    BY <1>1 DEF StoreType
  <2> QED BY <1>2, <2>1 DEF Honest, HonestTo
<1> QED BY <1>4, <1>5, <1>8, <1>9 DEF OrdersInv

LEMMA SwapKeeps ==
    ASSUME IInv, IInv', OrdersInv, NEW p \in Proc, Swap(p)
    PROVE  OrdersInv' /\ Honest
<1>1. StoreType /\ StoreType' /\ WorkerType
  BY DEF IInv, TypeOK
<1>2. UNCHANGED <<onHand, terms, hold, used, need>>
      /\ Leave(p, IF Won(p) THEN Settle(req[p].to) ELSE "idle")
  BY DEF Swap
<1>3. req[p].op = "move" /\ pc[p] = "cas"
  BY DEF Swap, IInv, StepsMatch, Fits
<1>4. PICK o \in Order : o = req[p].order
  BY <1>1, <1>3, RequestType DEF WorkerType, MoveReq
<1>5. CASE ~Won(p)
  <2>1. UNCHANGED status /\ Leave(p, "idle")
    BY <1>2, <1>5 DEF Swap
  <2>2. \A q \in Proc : GoesOn(q)
    BY <1>1, <2>1, OthersGoOn
  <2> QED BY <1>1, <1>2, <2>1, <2>2, QuietKeeps
<1>6. CASE Won(p)
  <2>1. /\ status[o] = req[p].from
        /\ status' = [status EXCEPT ![o] = req[p].to]
    BY <1>4, <1>6 DEF Swap, Won
  <2>2. /\ status[o] \notin Closed \cup {"none"}
        /\ req[p].to \in Open => status[o] \in Open
        /\ req[p].to # "none"
    <3>1. req[p].to # "none"
      BY <1>1, <1>3, RequestType DEF WorkerType, MoveReq
    <3> QED BY <1>3, <2>1, <3>1 DEF OrdersInv, MovesMade, Moving
  <2>3. \A q \in Order : /\ status[q] \in Closed => status'[q] = status[q]
                         /\ status'[q] = "none" => status[q] = "none"
                         /\ status'[q] \in Open => status[q] \in Open
    BY <1>1, <2>1, <2>2 DEF StoreType
  <2>4. status'[o] = req[p].to
    BY <1>1, <2>1 DEF StoreType
  <2>5. /\ \A q \in Proc \ {p} : pc'[q] = pc[q] /\ req'[q] = req[q]
        /\ pc'[p] = Settle(req[p].to)
        /\ pc'[p] # "idle" => req'[p] = req[p]
    BY <1>1, <1>2, <1>6 DEF WorkerType, Leave, Goto
  <2>6. pc'[p] \in {"idle", "locking", "release"}
        /\ (pc'[p] = "locking" => status'[o] = "delivered")
        /\ (pc'[p] = "release" => status'[o] = "cancelled")
    BY <2>4, <2>5 DEF Settle
  <2>7. used[o] = 0 /\ \A q \in Proc : ~Delivering(q, o)
    <3>1. ASSUME NEW q \in Proc, Delivering(q, o) PROVE status[o] = "delivered"
      BY <3>1 DEF OrdersInv, MovesMade, Moving, Delivering
    <3> QED BY <2>2, <3>1 DEF OrdersInv, OneDelivery, Closed
  <2>8. MovesMade'
    <3> SUFFICES ASSUME NEW q \in Proc, Moving(q)'
                 PROVE  /\ pc'[q] = "cas" => /\ req'[q].from \notin Closed \cup {"none"}
                                             /\ req'[q].to \in Open => req'[q].from \in Open
                        /\ pc'[q] \in {"locking", "locked"} => status'[req'[q].order] = "delivered"
                        /\ pc'[q] = "release" => status'[req'[q].order] = "cancelled"
      BY DEF MovesMade
    <3>1. CASE q = p
      <4>1. pc'[p] \in {"locking", "release"} => req'[p].order = o
        BY <1>4, <2>5
      <4> QED BY <2>6, <3>1, <4>1
    <3>2. CASE q # p
      <4>1. Moving(q) /\ pc'[q] = pc[q] /\ req'[q] = req[q]
        BY <2>5, <3>2 DEF Moving
      <4>2. req[q].order \in Order
        BY <1>1, <4>1, RequestType DEF WorkerType, MoveReq, Moving
      <4>3. pc[q] = "cas" => /\ req[q].from \notin Closed \cup {"none"}
                             /\ req[q].to \in Open => req[q].from \in Open
        BY <4>1 DEF OrdersInv, MovesMade
      <4>4. /\ pc[q] \in {"locking", "locked"} => status[req[q].order] = "delivered"
            /\ pc[q] = "release" => status[req[q].order] = "cancelled"
        BY <4>1 DEF OrdersInv, MovesMade
      <4>5. status[req[q].order] \in Closed => status'[req[q].order] = status[req[q].order]
        BY <2>3, <4>2
      <4> QED BY <4>1, <4>3, <4>4, <4>5 DEF Closed
    <3> QED BY <3>1, <3>2
  <2>9. OneDelivery'
    <3>1. \A q \in Proc \ {p}, k \in Order : Delivering(q, k)' <=> Delivering(q, k)
      BY <2>5 DEF Delivering
    <3>2. ASSUME NEW k \in Order, Delivering(p, k)' PROVE k = o
      BY <1>4, <2>5, <2>6, <3>2 DEF Delivering
    <3>3. \A k \in Order : used'[k] = used[k]
      BY <1>2
    <3>4. \A k \in Order : used'[k] # 0 => status'[k] = "delivered"
      BY <2>3, <3>3 DEF OrdersInv, OneDelivery, Closed
    <3>5. ASSUME NEW q \in Proc, NEW k \in Order, Delivering(q, k)'
          PROVE  used'[k] = 0 /\ \A t \in Proc : Delivering(t, k)' => t = q
      <4>1. CASE k = o
        BY <2>7, <3>1, <3>3, <3>5, <4>1
      <4>2. CASE k # o
        <5>1. q # p /\ Delivering(q, k)
          BY <3>1, <3>2, <3>5, <4>2
        <5>2. used[k] = 0 /\ \A t \in Proc : Delivering(t, k) => t = q
          BY <5>1 DEF OrdersInv, OneDelivery
        <5> QED BY <3>1, <3>2, <3>3, <4>2, <5>2
      <4> QED BY <4>1, <4>2
    <3> QED BY <3>4, <3>5 DEF OneDelivery
  <2>10. UnbornAskNothing' /\ NeverOverfilled'
    BY <1>2, <2>3 DEF OrdersInv, UnbornAskNothing, NeverOverfilled, Covered
  <2>11. NeedCoversDemand'
    BY <1>1, <1>2, <2>3, LeftAloneEases, NeedKept DEF OrdersInv
  <2>12. Honest
    <3>1. \A k \in Order, r \in Row : hold[k][r] \in Nat
      BY <1>1 DEF StoreType
    <3> QED BY <1>2, <2>3, <3>1 DEF Honest, HonestTo
  <2> QED BY <2>8, <2>9, <2>10, <2>11, <2>12 DEF OrdersInv
<1> QED BY <1>5, <1>6

LEMMA ReleaseRowKeeps ==
    ASSUME IInv, IInv', OrdersInv, NEW p \in Proc, ReleaseRow(p)
    PROVE  OrdersInv' /\ Honest
<1>1. StoreType /\ StoreType' /\ WorkerType
  BY DEF IInv, TypeOK
<1>2. req[p].op = "move" /\ pc[p] = "release"
  BY DEF ReleaseRow, IInv, StepsMatch, Fits
<1>3. PICK o \in Order : o = req[p].order
  BY <1>1, <1>2, RequestType DEF WorkerType, MoveReq
<1>4. PICK t \in Row : hold' = [hold EXCEPT ![o][t] = 0]
  BY <1>3 DEF ReleaseRow
<1>5. UNCHANGED <<onHand, status, terms, used, need, pc, req>>
  BY DEF ReleaseRow, local
<1>6. status[o] = "cancelled"
  BY <1>2, <1>3 DEF OrdersInv, MovesMade, Moving
<1>7. \A q \in Proc : GoesOn(q)
  BY <1>5 DEF GoesOn
<1>8. MovesMade' /\ OneDelivery'
  BY <1>1, <1>5, <1>7, MovesKept DEF OrdersInv
<1>9. \A q \in Order, r \in Row : hold'[q][r] <= hold[q][r]
  BY <1>1, <1>4 DEF StoreType
<1>10. \A q \in Order \ {o} : hold'[q] = hold[q]
  BY <1>1, <1>4 DEF StoreType
<1>11. UnbornAskNothing'
  BY <1>5 DEF OrdersInv, UnbornAskNothing
<1>12. NeverOverfilled'
  <2> SUFFICES ASSUME NEW q \in Order PROVE Covered(q)' <= terms'[q].qty
    BY DEF NeverOverfilled
  <2>1. Covered(q)' <= Covered(q) /\ Covered(q) <= terms[q].qty
    BY <1>1, <1>5, <1>9, CoveredShrinks DEF OrdersInv, NeverOverfilled
  <2> QED BY <1>1, <1>5, <2>1, CoveredType, CoveredTypeNext
<1>13. NeedCoversDemand'
  <2>1. ASSUME NEW k \in Site PROVE Eased(k)
    <3> SUFFICES ASSUME NEW q \in Order, Counts(q, k)'
                 PROVE  Counts(q, k) /\ Unfilled(q)' <= Unfilled(q)
      BY DEF Eased
    <3>1. Counts(q, k)
      BY <1>5 DEF Counts
    <3>2. q # o
      BY <1>6, <3>1 DEF Counts, Open
    <3>3. Unfilled(q)' = Unfilled(q)
      BY <1>5, <1>10, <3>2 DEF Unfilled, Covered
    <3> QED BY <1>1, <3>1, <3>3, UnfilledType
  <2> QED BY <1>1, <1>5, <2>1, NeedKept DEF OrdersInv
<1>14. Honest
  <2>1. \A q \in Order, r \in Row : hold'[q][r] < hold[q][r] => q = o
    BY <1>1, <1>10 DEF StoreType
  <2> QED BY <1>5, <1>6, <1>9, <2>1 DEF Honest, HonestTo, Closed
<1> QED BY <1>8, <1>11, <1>12, <1>13, <1>14 DEF OrdersInv

LEMMA ExpireKeeps ==
    ASSUME IInv, IInv', OrdersInv, NEW p \in Proc, Expire(p)
    PROVE  OrdersInv' /\ Honest
<1>1. StoreType /\ StoreType' /\ WorkerType
  BY DEF IInv, TypeOK
<1>2. req[p].op = "expire" /\ Leave(p, "idle")
  BY DEF Expire, IInv, StepsMatch, Fits
<1>3. PICK o \in Order : o = req[p].order
  BY <1>1, <1>2, RequestType DEF WorkerType, ExpireReq
<1>4. \A q \in Proc : GoesOn(q)
  BY <1>1, <1>2, OthersGoOn
<1>5. CASE UNCHANGED store
  <2>1. UNCHANGED <<status, terms, hold, used, need>>
    BY <1>5 DEF store
  <2> QED BY <1>1, <1>4, <2>1, QuietKeeps
<1>6. CASE /\ Lapsed(o)
           /\ hold' = [hold EXCEPT ![o] = [r \in Row |-> 0]]
           /\ \E end \in {"open", "cancelled"} : status' = [status EXCEPT ![o] = end]
           /\ UNCHANGED <<rev, rank, onHand, ledger, terms, used>>
           /\ Refresh(terms[o].site)
  <2>1. status[o] = "open" /\ status'[o] \in {"open", "cancelled"}
          /\ \A q \in Order \ {o} : status'[q] = status[q] /\ hold'[q] = hold[q]
    BY <1>1, <1>6 DEF Lapsed, StoreType
  <2>2. \A q \in Order, r \in Row : hold'[q][r] <= hold[q][r]
    BY <1>1, <1>6 DEF StoreType
  <2>3. \A q \in Order : /\ status[q] \in Closed => status'[q] = status[q]
                         /\ status'[q] = "none" => status[q] = "none"
                         /\ status'[q] \in Open => status[q] \in Open
    BY <2>1 DEF Closed, Open
  <2>4. UNCHANGED <<onHand, terms, used>>
    BY <1>6
  <2>5. MovesMade' /\ OneDelivery'
    BY <1>1, <1>4, <2>3, <2>4, MovesKept DEF OrdersInv
  <2>6. UnbornAskNothing'
    BY <2>3, <2>4 DEF OrdersInv, UnbornAskNothing
  <2>7. NeverOverfilled'
    <3> SUFFICES ASSUME NEW q \in Order PROVE Covered(q)' <= terms'[q].qty
      BY DEF NeverOverfilled
    <3>1. Covered(q)' <= Covered(q) /\ Covered(q) <= terms[q].qty
      BY <1>1, <2>2, <2>4, CoveredShrinks DEF OrdersInv, NeverOverfilled
    <3> QED BY <1>1, <2>4, <3>1, CoveredType, CoveredTypeNext
  <2>8. PICK site : site = terms[o].site /\ need' = [need EXCEPT ![site] = Demand(site)']
    BY <1>6 DEF Refresh
  <2>9. NeedCoversDemand'
    <3>1. ASSUME NEW k \in Site, k # site PROVE Eased(k)
      <4> SUFFICES ASSUME NEW q \in Order, Counts(q, k)'
                   PROVE  Counts(q, k) /\ Unfilled(q)' <= Unfilled(q)
        BY DEF Eased
      <4>1. q # o
        BY <2>4, <2>8, <3>1 DEF Counts
      <4>2. Counts(q, k)
        BY <2>1, <2>4, <4>1 DEF Counts
      <4>3. Unfilled(q)' = Unfilled(q)
        BY <2>1, <2>4, <4>1 DEF Unfilled, Covered
      <4> QED BY <1>1, <4>2, <4>3, UnfilledType
    <3>2. \A k \in Site : IF k = site THEN need'[k] = Demand(k)' ELSE need'[k] = need[k]
      BY <1>1, <2>8 DEF StoreType
    <3> QED BY <1>1, <3>1, <3>2, NeedKept DEF OrdersInv
  <2>10. Honest
    <3>1. \A q \in Order, r \in Row : hold'[q][r] < hold[q][r] => q = o
      BY <1>1, <2>1 DEF StoreType
    <3> QED BY <2>1, <2>2, <2>3, <2>4, <3>1 DEF Honest, HonestTo
  <2> QED BY <2>5, <2>6, <2>7, <2>9, <2>10 DEF OrdersInv
<1> QED BY <1>3, <1>5, <1>6 DEF Expire

LEMMA PlaceKeeps ==
    ASSUME IInv, IInv', OrdersInv, NEW p \in Proc, Place(p)
    PROVE  OrdersInv' /\ Honest
<1> DEFINE free == [r \in Row |-> Free(p, r)]
           take(force) == IF force THEN 0 ELSE AtMost(req[p].qty, Total(free))
           back(force) == req[p].qty - take(force) > 0
<1>1. StoreType /\ StoreType' /\ WorkerType
  BY DEF IInv, TypeOK
<1>2. PICK o \in Order, force \in BOOLEAN :
        /\ status[o] = "none"
        /\ status' = [status EXCEPT ![o] = "open"]
        /\ terms' = [terms EXCEPT ![o] =
             [qty |-> req[p].qty, site |-> req[p].site, back |-> back(force),
              rev |-> req[p].rev]]
        /\ \E g \in Greedy(free, take(force)) : hold' = [hold EXCEPT ![o] = g]
        /\ UNCHANGED used
        /\ IF back(force) THEN Refresh(req[p].site) ELSE UNCHANGED need
        /\ Leave(p, IF back(force) THEN "refresh" ELSE "idle")
  BY DEF Place
<1>3. PICK g \in Greedy(free, take(force)) : hold' = [hold EXCEPT ![o] = g]
  BY <1>2
<1>4. req[p].qty \in Nat
  <2>1. req[p] \in PlaceReq
    BY <1>1, RequestType DEF Place, WorkerType, Locked
  <2> QED BY <2>1, BoundAssumption DEF PlaceReq
<1>5. take(force) \in Nat /\ take(force) <= req[p].qty
  <2>1. free \in [Row -> Nat]
    BY FreeIsFree
  <2>2. Total(free) \in Nat
    <3> HIDE DEF free
    <3> QED BY <2>1, RowFinite, TotalType
  <2> HIDE DEF free
  <2> QED BY <1>4, <2>2 DEF AtMost
<1>6. Total(g) = take(force)
  BY DEF Greedy
<1>7. UNCHANGED onHand /\ \A q \in Order \ {o} : /\ status'[q] = status[q]
                                                 /\ terms'[q] = terms[q]
                                                 /\ hold'[q] = hold[q]
                                                 /\ used'[q] = used[q]
  BY <1>1, <1>2, <1>3 DEF Place, StoreType
<1>8. /\ status'[o] = "open" /\ hold'[o] = g /\ used'[o] = used[o]
      /\ terms'[o].qty = req[p].qty /\ terms'[o].site = req[p].site
  BY <1>1, <1>2, <1>3 DEF StoreType
<1>9. used[o] = 0 /\ \A r \in Row : hold[o][r] = 0
  <2>1. Covered(o) <= 0
    BY <1>2 DEF OrdersInv, NeverOverfilled, UnbornAskNothing
  <2>2. Total(hold[o]) = 0 /\ used[o] = 0
    BY <1>1, <2>1, CoveredType
  <2>3. hold[o] \in [Row -> Nat]
    BY <1>1 DEF StoreType
  <2> QED BY <2>2, <2>3, RowFinite, TotalZeroTerms
<1>10. \A q \in Proc : GoesOn(q)
  BY <1>1, <1>2, OthersGoOn
<1>11. MovesMade' /\ OneDelivery'
  <2>1. \A q \in Order : status[q] \in Closed => status'[q] = status[q]
    BY <1>2, <1>7 DEF Closed
  <2>2. \A q \in Order : used'[q] = used[q]
    BY <1>2
  <2> QED BY <1>1, <1>10, <2>1, <2>2, MovesKept DEF OrdersInv
<1> HIDE DEF take, free
<1>12. UnbornAskNothing'
  <2> SUFFICES ASSUME NEW q \in Order, status'[q] = "none" PROVE terms'[q].qty = 0
    BY DEF UnbornAskNothing
  <2> QED BY <1>7, <1>8 DEF OrdersInv, UnbornAskNothing
<1>13. Covered(o)' = take(force)
  BY <1>1, <1>5, <1>6, <1>8, <1>9, CoveredTypeNext
<1>14. NeverOverfilled'
  <2> SUFFICES ASSUME NEW q \in Order PROVE Covered(q)' <= terms'[q].qty
    BY DEF NeverOverfilled
  <2>1. CASE q = o
    BY <1>5, <1>8, <1>13, <2>1
  <2>2. CASE q # o
    BY <1>7, <2>2 DEF Covered, OrdersInv, NeverOverfilled
  <2> QED BY <2>1, <2>2
<1>15. NeedCoversDemand'
  <2>1. ASSUME NEW k \in Site, k # req[p].site \/ ~back(force) PROVE Eased(k)
    <3> SUFFICES ASSUME NEW q \in Order, Counts(q, k)'
                 PROVE  (Counts(q, k) /\ Unfilled(q)' <= Unfilled(q)) \/ Unfilled(q)' = 0
      BY DEF Eased
    <3>1. CASE q = o
      <4>1. ~back(force)
        BY <1>8, <2>1, <3>1 DEF Counts
      <4>2. req[p].qty - take(force) <= 0
        BY <1>4, <1>5, <4>1
      <4>3. Unfilled(o)' = AtLeast(req[p].qty - take(force), 0)
        BY <1>1, <1>8, <1>13, CoveredTypeNext
      <4>4. Unfilled(o)' = 0
        BY <1>4, <1>5, <4>2, <4>3 DEF AtLeast
      <4> QED BY <3>1, <4>4
    <3>2. CASE q # o
      <4>1. Counts(q, k)
        BY <1>7, <3>2 DEF Counts
      <4>2. Unfilled(q)' = Unfilled(q)
        BY <1>7, <3>2 DEF Unfilled, Covered
      <4> QED BY <1>1, <4>1, <4>2, UnfilledType
    <3> QED BY <3>1, <3>2
  <2>2. \A k \in Site : need'[k] = Demand(k)' \/ (need'[k] = need[k] /\ Eased(k))
    <3>1. CASE back(force)
      <4>1. PICK site : site = req[p].site /\ need' = [need EXCEPT ![site] = Demand(site)']
        BY <1>2, <3>1 DEF Refresh
      <4>2. \A k \in Site : IF k = site THEN need'[k] = Demand(k)' ELSE need'[k] = need[k]
        BY <1>1, <4>1 DEF StoreType
      <4> QED BY <2>1, <4>1, <4>2
    <3>2. CASE ~back(force)
      BY <1>2, <2>1, <3>2
    <3> QED BY <3>1, <3>2
  <2> QED BY <1>1, <2>2, NeedKept DEF OrdersInv
<1>16. Honest
  <2>1. \A q \in Order, r \in Row : hold[q][r] \in Nat /\ hold'[q][r] \in Nat
    BY <1>1 DEF StoreType
  <2>2. \A q \in Order, r \in Row : ~(hold'[q][r] < hold[q][r])
    BY <1>7, <1>9, <2>1
  <2>3. \A q \in Order : status[q] \in Closed => status'[q] = status[q] /\ hold'[q] = hold[q]
    BY <1>2, <1>7 DEF Closed
  <2>4. \A q \in Order : used'[q] = used[q]
    BY <1>2
  <2> QED BY <2>1, <2>2, <2>3, <2>4 DEF Honest, HonestTo
<1> QED BY <1>11, <1>12, <1>14, <1>15, <1>16 DEF OrdersInv

LEMMA ReceiveKeeps ==
    ASSUME IInv, IInv', OrdersInv, NEW p \in Proc, Receive(p)
    PROVE  OrdersInv' /\ Honest
<1>1. StoreType /\ StoreType' /\ WorkerType
  BY DEF IInv, TypeOK
<1>2. UNCHANGED <<status, terms, used, need>>
      /\ (Leave(p, "idle") \/ Leave(p, "refresh"))
  BY DEF Receive
<1>3. \A q \in Proc : GoesOn(q)
  BY <1>1, <1>2, OthersGoOn
<1>4. CASE UNCHANGED hold
  BY <1>1, <1>2, <1>3, <1>4, QuietKeeps
<1>5. CASE \E loc, free : \E g \in OldestFirst(loc, free) :
             hold' = [o \in Order |->
                        [hold[o] EXCEPT ![req[p].row] = hold[o][req[p].row] + g[o]]]
  <2>1. PICK loc, free : \E g \in OldestFirst(loc, free) :
             hold' = [o \in Order |->
                        [hold[o] EXCEPT ![req[p].row] = hold[o][req[p].row] + g[o]]]
    BY <1>5
  <2>2. PICK g \in OldestFirst(loc, free) :
             hold' = [o \in Order |->
                        [hold[o] EXCEPT ![req[p].row] = hold[o][req[p].row] + g[o]]]
    BY <2>1
  <2>3. PICK row \in Row : row = req[p].row
    <3>1. req[p] \in ReceiveReq
      BY <1>1, RequestType DEF Receive, Locked, WorkerType
    <3> QED BY <3>1 DEF ReceiveReq
  <2>4. \A o \in Order : g[o] \in Nat /\ g[o] <= (IF Waits(o, loc) THEN Unfilled(o) ELSE 0)
    <3>1. \A o \in Order : g[o] \in 0..free /\ g[o] <= Wanting(loc)[o]
      BY <2>2 DEF OldestFirst
    <3>2. \A o \in Order : g[o] \in Nat
      BY <3>1
    <3> QED BY <3>1, <3>2 DEF Wanting
  <2>5. \A o \in Order : hold'[o] = [hold[o] EXCEPT ![row] = hold[o][row] + g[o]]
    BY <2>2, <2>3
  <2>6. ASSUME NEW o \in Order PROVE Covered(o)' = Covered(o) + g[o]
    <3>1. hold[o] \in [Row -> Nat] /\ hold'[o] \in [Row -> Nat]
      BY <1>1 DEF StoreType
    <3>2. hold'[o][row] = hold[o][row] + g[o] /\ \A r \in Row \ {row} : hold'[o][r] = hold[o][r]
      BY <2>5, <3>1
    <3>3. Total(hold'[o]) = Total(hold[o]) - hold[o][row] + hold'[o][row]
      BY <3>1, <3>2, RowFinite, TotalChange
    <3>4. hold[o][row] \in Nat
      BY <3>1
    <3> QED BY <1>1, <1>2, <2>4, <3>2, <3>3, <3>4, CoveredType, CoveredTypeNext
  <2>7. ASSUME NEW o \in Order
        PROVE  /\ Covered(o)' <= terms'[o].qty
               /\ Unfilled(o)' <= Unfilled(o)
    <3>1. Covered(o) <= terms[o].qty
      BY DEF OrdersInv, NeverOverfilled
    <3>2. Unfilled(o) = terms[o].qty - Covered(o) /\ Covered(o) \in Nat /\ terms[o].qty \in Nat
      BY <1>1, <3>1, CoveredType DEF AtLeast
    <3>3. g[o] \in Nat /\ g[o] <= Unfilled(o)
      BY <1>1, <2>4, UnfilledType
    <3>4. Covered(o)' <= terms'[o].qty
      BY <1>2, <2>6, <3>2, <3>3
    <3>5. Unfilled(o)' = terms[o].qty - Covered(o)'
      BY <1>1, <1>2, <2>6, <3>2, <3>3, <3>4, CoveredTypeNext DEF AtLeast
    <3> QED BY <2>6, <3>2, <3>3, <3>4, <3>5
  <2>8. MovesMade' /\ OneDelivery'
    BY <1>1, <1>2, <1>3, MovesKept DEF OrdersInv
  <2>9. UnbornAskNothing' /\ NeverOverfilled'
    BY <1>2, <2>7 DEF OrdersInv, UnbornAskNothing, NeverOverfilled
  <2>10. \A k \in Site : Eased(k)
    BY <1>2, <2>7 DEF Eased, Counts
  <2>11. NeedCoversDemand'
    BY <1>1, <1>2, <2>10, NeedKept DEF OrdersInv
  <2>12. Honest
    <3>1. \A o \in Order, r \in Row : hold[o][r] \in Nat /\ hold'[o][r] \in {hold[o][r], hold[o][r] + g[o]}
      BY <1>1, <2>5 DEF StoreType
    <3>2. \A o \in Order : status[o] \in Closed => g[o] = 0
      BY <2>4 DEF Waits, Open, Closed
    <3> QED BY <1>2, <2>4, <3>1, <3>2 DEF Honest, HonestTo
  <2> QED BY <2>8, <2>9, <2>11, <2>12 DEF OrdersInv
<1> QED BY <1>4, <1>5 DEF Receive

LEMMA ConsumeKeeps ==
    ASSUME IInv, IInv', OrdersInv, NEW p \in Proc, Consume(p)
    PROVE  OrdersInv' /\ Honest
<1>1. StoreType /\ StoreType' /\ WorkerType /\ ReadsStayGood
  BY DEF IInv, TypeOK
<1>2. UNCHANGED <<status, terms, need>> /\ Locked(p, "move") /\ Leave(p, "idle")
  BY DEF Consume
<1>3. PICK o \in Order : o = req[p].order
  BY <1>1, <1>2, RequestType DEF Locked, WorkerType, MoveReq
<1>4. Delivering(p, o) /\ Moving(p)
  BY <1>2, <1>3 DEF Locked, Delivering, Moving
<1>5. status[o] = "delivered" /\ used[o] = 0
  BY <1>2, <1>3, <1>4 DEF OrdersInv, MovesMade, OneDelivery, Locked
<1> DEFINE out == [r \in Row |-> IF lock[r] = p THEN hold[o][r] ELSE 0]
<1>6. /\ onHand' = [r \in Row |-> IF lock[r] = p THEN seenOn[p][r] - out[r] ELSE onHand[r]]
      /\ hold' = [hold EXCEPT ![o] = [r \in Row |-> hold[o][r] - out[r]]]
      /\ used' = [used EXCEPT ![o] = used[o] + Total(out)]
  BY <1>3 DEF Consume
<1>7. \A q \in Order, r \in Row : hold[q][r] \in Nat /\ onHand[r] \in Nat
  BY <1>1 DEF StoreType
<1>8. out \in [Row -> Nat] /\ \A r \in Row : hold'[o][r] = hold[o][r] - out[r]
  BY <1>1, <1>6, <1>7 DEF StoreType
<1>9. \A q \in Order \ {o} : hold'[q] = hold[q] /\ used'[q] = used[q]
  BY <1>1, <1>6 DEF StoreType
<1>10. \A r \in Row : onHand[r] - onHand'[r] = out[r]
  <2>1. ASSUME NEW r \in Row PROVE onHand[r] - onHand'[r] = out[r]
    <3>1. CASE lock[r] = p
      BY <1>1, <1>6, <1>7, <3>1 DEF ReadsStayGood
    <3>2. CASE lock[r] # p
      BY <1>6, <1>7, <3>2
    <3> QED BY <3>1, <3>2
  <2> QED BY <2>1
<1> HIDE DEF out
<1>11. \A q \in Proc : GoesOn(q) /\ (q # p => UNCHANGED <<req[q], pc[q]>>)
  BY <1>1, <1>2, OthersGoOn
<1>12. ~Moving(p)'
  BY <1>1, <1>2, OthersGoOn
<1>13. \A q \in Proc : ~Delivering(q, o)'
  <2>1. ASSUME NEW q \in Proc, Delivering(q, o)' PROVE FALSE
    <3>1. q # p
      BY <1>12, <2>1 DEF Delivering, Moving
    <3>2. Delivering(q, o)
      BY <1>11, <2>1, <3>1 DEF Delivering
    <3> QED BY <1>4, <3>1, <3>2 DEF OrdersInv, OneDelivery
  <2> QED BY <2>1
<1>14. MovesMade' /\ OneDelivery'
  <2>1. \A q \in Order : used'[q] # used[q] =>
           status'[q] = "delivered" /\ \A t \in Proc : ~Delivering(t, q)'
    BY <1>2, <1>5, <1>9, <1>13
  <2> QED BY <1>1, <1>2, <1>11, <2>1, MovesKept DEF OrdersInv
<1>15. \A q \in Order : Covered(q)' = Covered(q)
  <2>1. Covered(o)' = Covered(o)
    <3>1. hold[o] \in [Row -> Nat] /\ hold'[o] \in [Row -> Nat]
      BY <1>1 DEF StoreType
    <3>2. \A r \in Row : hold[o][r] = hold'[o][r] + out[r]
      BY <1>7, <1>8
    <3>3. Total(hold[o]) = Total(hold'[o]) + Total(out)
      BY <1>8, <3>1, <3>2, RowFinite, TotalPlus
    <3>4. Total(out) \in Nat
      BY <1>8, RowFinite, TotalType
    <3>5. used'[o] = used[o] + Total(out)
      BY <1>1, <1>6 DEF StoreType
    <3> QED BY <1>1, <3>3, <3>4, <3>5, CoveredType, CoveredTypeNext
  <2>2. \A q \in Order \ {o} : Covered(q)' = Covered(q)
    BY <1>9 DEF Covered
  <2> QED BY <2>1, <2>2
<1>16. UnbornAskNothing' /\ NeverOverfilled'
  BY <1>2, <1>15 DEF OrdersInv, UnbornAskNothing, NeverOverfilled
<1>17. NeedCoversDemand'
  <2>1. \A q \in Order : Unfilled(q)' = Unfilled(q) /\ Unfilled(q) \in Nat
    BY <1>1, <1>2, <1>15, UnfilledType DEF Unfilled
  <2>2. \A k \in Site : Eased(k)
    BY <1>2, <2>1 DEF Eased, Counts
  <2> QED BY <1>1, <1>2, <2>2, NeedKept DEF OrdersInv
<1>18. Honest
  <2>1. \A r \in Row : hold'[o][r] <= hold[o][r] /\ hold[o][r] - hold'[o][r] = out[r]
    BY <1>7, <1>8
  <2>2. \A q \in Order \ {o}, r \in Row : hold'[q][r] = hold[q][r] /\ hold[q][r] \in Nat
    BY <1>7, <1>9
  <2> QED BY <1>2, <1>5, <1>9, <1>10, <2>1, <2>2 DEF Honest, HonestTo, Closed
<1> QED BY <1>14, <1>16, <1>17, <1>18 DEF OrdersInv

-----------------------------------------------------------------------------
(* The theorems about orders                                               *)

LEMMA OrdersInit == Init => OrdersInv
<1> SUFFICES ASSUME Init PROVE OrdersInv
  OBVIOUS
<1>1. StoreType
  BY InitIInv DEF IInv, TypeOK
<1>2. UnbornAskNothing /\ MovesMade /\ OneDelivery
  BY DEF Init, UnbornAskNothing, MovesMade, OneDelivery, Moving, Delivering, NoTerms, NoReq
<1>3. \A o \in Order : Covered(o) = 0 /\ ~(status[o] \in Open)
  <2>1. ASSUME NEW o \in Order PROVE Covered(o) = 0
    <3>1. hold[o] \in [Row -> Nat] /\ \A r \in Row : hold[o][r] = 0
      BY DEF Init
    <3>2. Total(hold[o]) = 0
      BY <3>1, TotalZero
    <3> QED BY <3>2 DEF Covered, Init
  <2> QED BY <2>1 DEF Init, Open
<1>4. NeverOverfilled
  BY <1>3 DEF NeverOverfilled, Init, NoTerms
<1>5. NeedCoversDemand
  <2> SUFFICES ASSUME NEW k \in Site PROVE need[k] >= Demand(k)
    BY DEF NeedCoversDemand
  <2> DEFINE f == [o \in Order |-> IF Counts(o, k) THEN Unfilled(o) ELSE 0]
  <2>1. f \in [Order -> Nat] /\ \A o \in Order : f[o] = 0
    BY <1>3 DEF Counts
  <2>2. Demand(k) = Total(f)
    BY DEF Demand
  <2> HIDE DEF f
  <2>3. Demand(k) = 0
    BY <2>1, <2>2, TotalZero
  <2> QED BY <2>3 DEF Init
<1> QED BY <1>2, <1>4, <1>5 DEF OrdersInv

LEMMA NextOrders == IInv /\ IInv' /\ OrdersInv /\ [Next]_vars => OrdersInv' /\ Honest
<1> SUFFICES ASSUME IInv, IInv', OrdersInv, [Next]_vars PROVE OrdersInv' /\ Honest
  OBVIOUS
<1>1. CASE UNCHANGED vars
  <2>1. StoreType' /\ UNCHANGED <<status, terms, hold, used, need, pc, req>>
    BY <1>1 DEF vars, IInv, TypeOK
  <2>2. \A q \in Proc : GoesOn(q)
    BY <2>1 DEF GoesOn
  <2> QED BY <2>1, <2>2, QuietKeeps
<1>2. ASSUME NEW p \in Proc, Start(p) PROVE OrdersInv' /\ Honest
  BY <1>2, StartKeeps
<1>3. ASSUME NEW p \in Proc, Acquire(p) \/ Crash(p) PROVE OrdersInv' /\ Honest
  BY <1>3, IdleKeeps
<1>4. ASSUME NEW p \in Proc, Work(p) PROVE OrdersInv' /\ Honest
  BY <1>4, IdleKeeps, PlaceKeeps, ReceiveKeeps, ConsumeKeeps, SwapKeeps, ReleaseRowKeeps,
     RefreshNeedKeeps, ExpireKeeps DEF Work
<1>5. CASE EditFit \/ \E o \in Order : Claim(o) \/ Unclaim(o)
  BY <1>5, OutsideKeeps
<1> QED BY <1>1, <1>2, <1>3, <1>4, <1>5 DEF Next

LEMMA OrdersInvariance == Spec => []OrdersInv
<1>1. IInv /\ IInv' /\ OrdersInv /\ [Next]_vars => OrdersInv'
  BY NextOrders
<1> QED BY <1>1, OrdersInit, Invariance, PTL DEF Spec

\* No order ever holds and has received more than it asks for: allocate_backorders
\* and a placement fill the unfilled rest of an order, whoever fills it too.
THEOREM OrdersNotOverfilled == Spec => []NeverOverfilled
<1>1. OrdersInv => NeverOverfilled
  BY DEF OrdersInv
<1> QED BY <1>1, OrdersInvariance, PTL

\* The supply need never understates the demand: recompute_supply_need may run
\* late, between a request's steps and another's, and still asks for enough.
THEOREM NeedNeverShort == Spec => []NeedCoversDemand
<1>1. OrdersInv => NeedCoversDemand
  BY DEF OrdersInv
<1> QED BY <1>1, OrdersInvariance, PTL

\* A delivered or cancelled order stays as it is: neither a transition_order nor an
\* expire_reservations that read it earlier reopens it or gives it units.
THEOREM ClosedOrdersStay == Spec => ClosedForGood
<1>1. Honest => \A o \in Order : status[o] \in Closed =>
          /\ status'[o] = status[o]
          /\ \A r \in Row : hold'[o][r] <= hold[o][r]
  BY DEF Honest, HonestTo
<1>2. IInv /\ IInv' /\ OrdersInv /\ [Next]_vars =>
        [\A o \in Order : status[o] \in Closed =>
          /\ status'[o] = status[o]
          /\ \A r \in Row : hold'[o][r] <= hold[o][r]]_vars
  BY <1>1, NextOrders
<1> QED BY <1>2, OrdersInvariance, Invariance, PTL DEF Spec, ClosedForGood

\* A claimed order's units leave it by delivery or cancellation only: a claim that
\* lands between expire_reservations' list and its update keeps them.
THEOREM ClaimsHonoured == Spec => ClaimHonoured
<1>1. Honest => \A o \in Order, r \in Row :
          hold'[o][r] < hold[o][r] => status[o] \in {"open"} \cup Closed
  BY DEF Honest, HonestTo
<1>2. IInv /\ IInv' /\ OrdersInv /\ [Next]_vars =>
        [\A o \in Order, r \in Row :
          hold'[o][r] < hold[o][r] => status[o] \in {"open"} \cup Closed]_vars
  BY <1>1, NextOrders
<1> QED BY <1>2, OrdersInvariance, Invariance, PTL DEF Spec, ClaimHonoured

\* An order is delivered once: of two transition_order calls one reaches
\* consume_order_reservations, and its units leave stock and holds together.
THEOREM OrdersDeliveredOnce == Spec => DeliveredOnce
<1>1. Honest => \A o \in Order : used'[o] # used[o] =>
          /\ used[o] = 0
          /\ status[o] = "delivered"
          /\ \A r \in Row : onHand[r] - onHand'[r] = hold[o][r] - hold'[o][r]
  BY DEF Honest, HonestTo
<1>2. IInv /\ IInv' /\ OrdersInv /\ [Next]_vars =>
        [\A o \in Order : used'[o] # used[o] =>
          /\ used[o] = 0
          /\ status[o] = "delivered"
          /\ \A r \in Row : onHand[r] - onHand'[r] = hold[o][r] - hold'[o][r]]_vars
  BY <1>1, NextOrders
<1> QED BY <1>2, OrdersInvariance, Invariance, PTL DEF Spec, DeliveredOnce

-----------------------------------------------------------------------------
(* Closed orders and the workers that settle them                          *)

\* A delivery about to commit has locked every row its order holds units in.
RowsHeld ==
    \A p \in Proc, r \in Row :
        Locked(p, "move") /\ hold[req[p].order][r] > 0 => lock[r] = p
SettleInv == RowsHeld /\ ClosedReleased

\* A worker that holds row locks keeps them until its own commit.
LEMMA LockedGoesOn ==
    ASSUME WorkerType, LocksMatch, [Next]_vars, NEW q \in Proc, pc'[q] = "locked", ~Acquire(q)
    PROVE  pc[q] = "locked" /\ req'[q] = req[q] /\ \A r \in Row : lock[r] = q => lock'[r] = q
<1> DEFINE Kept == pc[q] = "locked" /\ req'[q] = req[q] /\ \A r \in Row : lock[r] = q => lock'[r] = q
<1>1. ASSUME UNCHANGED <<pc, req, lock>> PROVE Kept
  BY <1>1
<1>2. ASSUME NEW p \in Proc, NEW step, step # "locked", Leave(p, step) PROVE Kept
  <2>1. p # q
    BY <1>2 DEF Leave, Goto, WorkerType
  <2> QED BY <1>2, <2>1 DEF Leave, Goto, WorkerType
<1>3. ASSUME NEW p \in Proc, NEW step, NEW request, step # "locked", Begin(p, step, request)
      PROVE  Kept
  <2>1. p # q
    BY <1>3 DEF Begin, Goto, WorkerType
  <2> QED BY <1>3, <2>1 DEF Begin, Goto, WorkerType
<1>4. ASSUME NEW p \in Proc, Acquire(p) PROVE Kept
  <2>1. p # q /\ pc'[q] = pc[q] /\ req' = req
    BY <1>4 DEF Acquire, Goto, WorkerType
  <2>2. \A r \in LockSet(p) : lock[r] = NoProc
    BY <1>4 DEF Acquire, Granted
  <2>3. lock' = [r \in Row |-> IF r \in LockSet(p) THEN p ELSE lock[r]]
    BY <1>4 DEF Acquire
  <2> QED BY <2>1, <2>2, <2>3, NoneAssumption
<1> HIDE DEF Kept
<1>5. ASSUME NEW p \in Proc, Start(p) PROVE Kept
  BY <1>3, <1>5 DEF Start, StartPlace, StartReceive, StartAdjust, StartRevalidate, StartMove, StartExpire
<1>6. ASSUME NEW p \in Proc, Work(p) PROVE Kept
  <2>1. CASE ReleaseRow(p)
    BY <1>1, <2>1 DEF ReleaseRow, local
  <2>2. CASE Swap(p)
    <3>1. (IF Won(p) THEN Settle(req[p].to) ELSE "idle") # "locked"
      BY DEF Settle
    <3> QED BY <1>2, <2>2, <3>1 DEF Swap
  <2>3. CASE Place(p)
    <3>1. Leave(p, "refresh") \/ Leave(p, "idle")
      BY <2>3 DEF Place
    <3> QED BY <1>2, <3>1
  <2>4. CASE Receive(p)
    <3>1. Leave(p, "refresh") \/ Leave(p, "idle")
      BY <2>4 DEF Receive
    <3> QED BY <1>2, <3>1
  <2>5. CASE Decline(p) \/ Adjust(p) \/ Revalidate(p) \/ Consume(p) \/ RefreshNeed(p) \/ Expire(p)
    <3>1. Leave(p, "idle")
      BY <2>5 DEF Decline, Adjust, Revalidate, Consume, RefreshNeed, Expire
    <3> QED BY <1>2, <3>1
  <2>6. CASE ReleaseDone(p)
    BY <1>2, <2>6 DEF ReleaseDone
  <2> QED BY <1>6, <2>1, <2>2, <2>3, <2>4, <2>5, <2>6 DEF Work
<1>7. ASSUME NEW p \in Proc, Crash(p) PROVE Kept
  BY <1>2, <1>7 DEF Crash
<1>8. ASSUME EditFit \/ \E o \in Order : Claim(o) \/ Unclaim(o) PROVE Kept
  BY <1>1, <1>8 DEF EditFit, Claim, Unclaim, local
<1>9. Kept
  BY <1>1, <1>4, <1>5, <1>6, <1>7, <1>8 DEF Next, vars
<1> QED BY <1>9 DEF Kept

\* A worker that settles an order goes on with it, or is done with it.
LEMMA SettlingGoesOn ==
    ASSUME ~CanCrash, WorkerType, [Next]_vars, NEW q \in Proc, NEW o \in Order, Settling(q, o)
    PROVE  Settling(q, o)' \/ Consume(q) \/ ReleaseDone(q)
<1>0. pc[q] \in {"locking", "locked", "release"} /\ req[q].op = "move" /\ req[q].order = o
  BY DEF Settling
<1>1. ASSUME pc'[q] = pc[q], req'[q] = req[q] PROVE Settling(q, o)'
  BY <1>1 DEF Settling
<1>2. ASSUME NEW p \in Proc, p # q, NEW step, Leave(p, step) \/ \E request : Begin(p, step, request)
      PROVE  Settling(q, o)'
  BY <1>1, <1>2 DEF Leave, Begin, Goto, WorkerType
<1>3. ASSUME NEW p \in Proc, Start(p) PROVE Settling(q, o)'
  <2>1. p # q
    BY <1>0, <1>3 DEF Start, StartPlace, StartReceive, StartAdjust, StartRevalidate, StartMove,
                      StartExpire, Begin
  <2> QED BY <1>2, <1>3, <2>1 DEF Start, StartPlace, StartReceive, StartAdjust, StartRevalidate,
                                 StartMove, StartExpire
<1>4. ASSUME NEW p \in Proc, Acquire(p) PROVE Settling(q, o)'
  <2>1. req' = req /\ pc' = [pc EXCEPT ![p] = "locked"]
    BY <1>4 DEF Acquire, Goto
  <2>2. pc'[q] = pc[q] \/ pc'[q] = "locked"
    BY <2>1 DEF WorkerType
  <2> QED BY <1>0, <2>1, <2>2 DEF Settling
<1>5. ASSUME NEW p \in Proc, Work(p), p # q PROVE Settling(q, o)'
  <2>1. CASE ReleaseRow(p)
    BY <1>1, <2>1 DEF ReleaseRow, local
  <2>2. CASE \E step : Leave(p, step)
    BY <1>2, <1>5, <2>2
  <2> QED BY <1>5, <2>1, <2>2 DEF Work, Place, Decline, Receive, Adjust, Revalidate, Consume, Swap,
                                 ReleaseDone, RefreshNeed, Expire
<1>6. ASSUME Work(q) PROVE Settling(q, o)' \/ Consume(q) \/ ReleaseDone(q)
  <2>1. CASE ReleaseRow(q)
    BY <1>1, <2>1 DEF ReleaseRow, local
  <2> QED BY <1>0, <1>6, <2>1 DEF Work, Place, Decline, Receive, Adjust, Revalidate, Swap,
                                 RefreshNeed, Expire, Locked
<1>7. ASSUME EditFit \/ \E k \in Order : Claim(k) \/ Unclaim(k) PROVE Settling(q, o)'
  BY <1>1, <1>7 DEF EditFit, Claim, Unclaim, local
<1>8. CASE UNCHANGED vars
  BY <1>1, <1>8 DEF vars
<1>9. \A p \in Proc : ~Crash(p)
  BY DEF Crash
<1> QED BY <1>3, <1>4, <1>5, <1>6, <1>7, <1>8, <1>9 DEF Next

\* An order is closed by a swap whose worker settles it, or by the sweep that
\* releases it in the same transaction.
LEMMA ClosedBySomeone ==
    ASSUME IInv, [Next]_vars, NEW o \in Order, status[o] \notin Closed, status'[o] \in Closed
    PROVE  (\E p \in Proc : Settling(p, o)') \/ \A r \in Row : hold'[o][r] = 0
<1>0. WorkerType /\ status \in [Order -> Status] /\ hold \in [Order -> [Row -> Nat]]
  BY DEF IInv, TypeOK, StoreType
<1>1. ASSUME NEW p \in Proc, Swap(p) PROVE Settling(p, o)'
  <2>1. req[p].op = "move"
    BY <1>1 DEF Swap, IInv, StepsMatch, Fits
  <2>2. /\ Won(p) /\ status' = [status EXCEPT ![req[p].order] = req[p].to]
        /\ Leave(p, Settle(req[p].to))
    BY <1>1 DEF Swap
  <2>3. req[p].order = o /\ req[p].to \in Closed
    BY <1>0, <2>2
  <2>4. Settle(req[p].to) \in {"locking", "release"}
    BY <2>3 DEF Settle, Closed
  <2>5. pc'[p] = Settle(req[p].to) /\ req'[p] = req[p]
    BY <1>0, <2>2, <2>4 DEF Leave, Goto, WorkerType
  <2> QED BY <2>1, <2>3, <2>4, <2>5 DEF Settling
<1>2. ASSUME NEW p \in Proc, Expire(p) PROVE \A r \in Row : hold'[o][r] = 0
  <2> DEFINE k == req[p].order
  <2>1. /\ hold' = [hold EXCEPT ![k] = [r \in Row |-> 0]]
        /\ \E end \in {"open", "cancelled"} : status' = [status EXCEPT ![k] = end]
    BY <1>2 DEF Expire, store
  <2>2. k = o
    BY <1>0, <2>1
  <2> QED BY <1>0, <2>1, <2>2
<1>3. ASSUME NEW p \in Proc, Place(p) PROVE FALSE
  <2>1. PICK k \in Order : status' = [status EXCEPT ![k] = "open"]
    BY <1>3 DEF Place
  <2> QED BY <1>0, <2>1 DEF Closed
<1>4. ASSUME NEW k \in Order, Claim(k) \/ Unclaim(k) PROVE FALSE
  BY <1>0, <1>4 DEF Claim, Unclaim, Closed
<1>5. status' # status
  OBVIOUS
<1>6. ASSUME NEW p \in Proc, Start(p) \/ Acquire(p) \/ Crash(p) PROVE FALSE
  BY <1>5, <1>6 DEF Start, StartPlace, StartReceive, StartAdjust, StartRevalidate, StartMove,
                    StartExpire, Begin, Acquire, Crash, store
<1>7. ASSUME NEW p \in Proc, Work(p) PROVE Swap(p) \/ Expire(p) \/ Place(p)
  BY <1>5, <1>7 DEF Work, Decline, Receive, Adjust, Revalidate, Consume, ReleaseRow, ReleaseDone,
                    RefreshNeed, store
<1>8. ~EditFit /\ ~UNCHANGED vars
  BY <1>5 DEF EditFit, vars
<1> QED BY <1>1, <1>2, <1>3, <1>4, <1>6, <1>7, <1>8 DEF Next

LEMMA NextSettles ==
    ASSUME ~CanCrash, IInv, IInv', OrdersInv, SettleInv, [Next]_vars
    PROVE  SettleInv'
<1>0. /\ WorkerType /\ LocksMatch
      /\ hold \in [Order -> [Row -> Nat]] /\ hold' \in [Order -> [Row -> Nat]]
  BY DEF IInv, TypeOK, StoreType
<1>1. \A o \in Order : status[o] \in Closed => \A r \in Row : hold'[o][r] <= hold[o][r]
  BY NextOrders DEF Honest, HonestTo
<1>2. RowsHeld'
  <2> SUFFICES ASSUME NEW q \in Proc, NEW r \in Row,
                      Locked(q, "move")', hold'[req'[q].order][r] > 0
               PROVE  lock'[r] = q
    BY DEF RowsHeld
  <2>1. pc'[q] = "locked" /\ req'[q].op = "move"
    BY DEF Locked
  <2>2. CASE Acquire(q)
    <3>1. /\ lock' = [s \in Row |-> IF s \in LockSet(q) THEN q ELSE lock[s]]
          /\ req' = req /\ hold' = hold
      BY <2>2 DEF Acquire, store
    <3>2. r \in LockSet(q)
      BY <2>1, <3>1 DEF LockSet
    <3> QED BY <3>1, <3>2
  <2>3. CASE ~Acquire(q)
    <3>1. pc[q] = "locked" /\ req'[q] = req[q] /\ (lock[r] = q => lock'[r] = q)
      BY <1>0, <2>1, <2>3, LockedGoesOn
    <3>2. Locked(q, "move") /\ Moving(q)
      BY <2>1, <3>1 DEF Locked, Moving
    <3>3. req[q].order \in Order /\ status[req[q].order] \in Closed
      <4>1. req[q].order \in Order
        BY <1>0, <2>1, <3>1, RequestType DEF WorkerType, MoveReq
      <4>2. status[req[q].order] = "delivered"
        BY <3>1, <3>2 DEF OrdersInv, MovesMade
      <4> QED BY <4>1, <4>2 DEF Closed
    <3>4. hold[req[q].order][r] > 0
      BY <1>0, <1>1, <3>1, <3>3
    <3> QED BY <3>1, <3>2, <3>4 DEF SettleInv, RowsHeld
  <2> QED BY <2>2, <2>3
<1>3. ClosedReleased'
  <2> SUFFICES ASSUME NEW o \in Order, status'[o] \in Closed, Total(hold'[o]) > 0,
                      \A p \in Proc : ~Settling(p, o)'
               PROVE  FALSE
    BY DEF ClosedReleased
  <2>1. ~ \A r \in Row : hold'[o][r] = 0
    <3> SUFFICES ASSUME \A r \in Row : hold'[o][r] = 0 PROVE Total(hold'[o]) = 0
      OBVIOUS
    <3>1. hold'[o] \in [Row -> Nat]
      BY <1>0
    <3> QED BY <3>1, TotalZero
  <2>2. status[o] \in Closed
    BY <2>1, ClosedBySomeone
  <2>3. Total(hold[o]) > 0
    <3>1. hold[o] \in [Row -> Nat] /\ hold'[o] \in [Row -> Nat]
      BY <1>0
    <3>2. Total(hold'[o]) <= Total(hold[o]) /\ Total(hold[o]) \in Nat /\ Total(hold'[o]) \in Nat
      BY <1>1, <2>2, <3>1, RowFinite, TotalMonotone, TotalType
    <3> QED BY <3>2
  <2>4. PICK p \in Proc : Settling(p, o)
    BY <2>2, <2>3 DEF SettleInv, ClosedReleased
  <2>5. Consume(p) \/ ReleaseDone(p)
    BY <1>0, <2>4, SettlingGoesOn
  <2>6. ASSUME Consume(p) PROVE \A r \in Row : hold'[o][r] = 0
    <3>1. Locked(p, "move") /\ req[p].order = o
      BY <2>4, <2>6 DEF Consume, Settling
    <3> DEFINE out == [r \in Row |-> IF lock[r] = p THEN hold[o][r] ELSE 0]
    <3>2. hold' = [hold EXCEPT ![o] = [r \in Row |-> hold[o][r] - out[r]]]
      BY <2>6, <3>1 DEF Consume
    <3>3. \A r \in Row : hold[o][r] \in Nat /\ out[r] = hold[o][r]
      BY <1>0, <3>1 DEF SettleInv, RowsHeld
    <3>4. \A r \in Row : hold'[o][r] = hold[o][r] - out[r]
      BY <1>0, <3>2
    <3> HIDE DEF out
    <3> QED BY <3>3, <3>4
  <2>7. ASSUME ReleaseDone(p) PROVE FALSE
    BY <2>3, <2>4, <2>7 DEF ReleaseDone, Settling
  <2> QED BY <2>1, <2>5, <2>6, <2>7
<1> QED BY <1>2, <1>3 DEF SettleInv

LEMMA InitSettles == Init => SettleInv
BY DEF Init, SettleInv, RowsHeld, ClosedReleased, Locked, Closed

\* Where no worker dies, a closed order holds stock only until the worker that
\* closed it has consumed or released all of it: what transition_order promises
\* though its swap and its settlement are transactions of their own.
THEOREM ClosedHoldsSettled ==
    ASSUME ~CanCrash
    PROVE  Spec => []ClosedReleased
<1>1. IInv /\ IInv' /\ OrdersInv /\ SettleInv /\ [Next]_vars => SettleInv'
  BY NextSettles
<1>2. SettleInv => ClosedReleased
  BY DEF SettleInv
<1> QED BY <1>1, <1>2, InitSettles, OrdersInvariance, Invariance, PTL DEF Spec

-----------------------------------------------------------------------------
(***************************************************************************)
(* FitInventory implements FitPromise: each step of a worker is a supply,  *)
(* a withdrawal or a delivery, or changes nothing a buyer was promised.    *)
(***************************************************************************)

\* An order that does not exist yet holds nothing.
NoneHeld == \A o \in Order, r \in Row : status[o] = "none" => hold[o][r] = 0

Implementing == IInv /\ NoneHeld

-----------------------------------------------------------------------------
(* The instance's totals are the inventory's                               *)

LEMMA SameTotal == \A f : Promise!Total(f) = Total(f)
BY DEF Promise!Total, Promise!Units, Promise!UnitsAt, Promise!Cardinality, Total, Units, UnitsAt, Cardinality

LEMMA SameKept == Promise!Kept <=> NoOversell
BY SameTotal DEF Promise!Kept, Promise!Promised, NoOversell, Held

LEMMA SameKeptNext == Promise!Kept' <=> NoOversell'
BY SameTotal DEF Promise!Kept, Promise!Promised, NoOversell, Held

-----------------------------------------------------------------------------
(* An order that does not exist yet holds nothing                          *)

LEMMA NoneHeldInit == Init => NoneHeld
BY DEF Init, NoneHeld

\* A step creates no order, or gives one that it creates no more than it held.
LEMMA NoneHeldKept ==
    ASSUME StoreType', NoneHeld,
           \A o \in Order : status'[o] = "none" => status[o] = "none",
           \A o \in Order, r \in Row : status'[o] = "none" => hold'[o][r] <= hold[o][r]
    PROVE  NoneHeld'
<1> SUFFICES ASSUME NEW o \in Order, NEW r \in Row, status'[o] = "none"
             PROVE  hold'[o][r] = 0
  BY DEF NoneHeld
<1>1. hold[o][r] = 0 /\ hold'[o][r] <= hold[o][r]
  BY DEF NoneHeld
<1>2. hold'[o][r] \in Nat
  BY DEF StoreType
<1> QED BY <1>1, <1>2

-----------------------------------------------------------------------------
(* What each kind of step is to a buyer                                    *)

\* A step that changes neither stock nor holds nor deliveries.
LEMMA QuietStep ==
    ASSUME UNCHANGED <<onHand, hold, used>>
    PROVE  UNCHANGED Promise!promise
BY DEF Promise!promise

\* A step that gives no order fewer units, and keeps the promises covered.
LEMMA SupplyStep ==
    ASSUME NoOversell', UNCHANGED used,
           \A o \in Order, r \in Row : hold'[o][r] >= hold[o][r]
    PROVE  Promise!Honour
<1>1. Promise!Kept'
  BY SameKeptNext
<1> QED BY <1>1 DEF Promise!Honour, Promise!Supply

\* A step that takes units back from one order only.
LEMMA WithdrawStep ==
    ASSUME StoreType, NEW o \in Order, UNCHANGED <<onHand, used>>,
           \A r \in Row : hold'[o][r] <= hold[o][r],
           \A q \in Order \ {o} : hold'[q] = hold[q]
    PROVE  Promise!Honour
<1>1. Promise!Withdraw(o)
  BY DEF Promise!Withdraw
<1> QED BY <1>1 DEF Promise!Honour

LEMMA PlaceStep ==
    ASSUME IInv, IInv', NoneHeld, NEW p \in Proc, Place(p)
    PROVE  NoneHeld' /\ Promise!Honour
<1>1. StoreType /\ StoreType' /\ NoOversell'
  BY DEF IInv, TypeOK
<1> DEFINE free == [r \in Row |-> Free(p, r)]
           take(force) == IF force THEN 0 ELSE AtMost(req[p].qty, Total(free))
<1>2. PICK o \in Order, force \in BOOLEAN :
        /\ status[o] = "none"
        /\ status' = [status EXCEPT ![o] = "open"]
        /\ \E g \in Greedy(free, take(force)) : hold' = [hold EXCEPT ![o] = g]
        /\ UNCHANGED used
  BY DEF Place
<1>3. PICK g \in Greedy(free, take(force)) : hold' = [hold EXCEPT ![o] = g]
  BY <1>2
<1>4. \A q \in Order, r \in Row : hold'[q][r] >= hold[q][r]
  <2>1. ASSUME NEW q \in Order, NEW r \in Row PROVE hold'[q][r] >= hold[q][r]
    <3>1. hold[q][r] \in Nat /\ hold'[q][r] \in Nat
      BY <1>1 DEF StoreType
    <3>2. CASE q = o
      BY <1>2, <3>1, <3>2 DEF NoneHeld
    <3>3. CASE q # o
      BY <1>1, <1>3, <3>1, <3>3 DEF StoreType
    <3> QED BY <3>2, <3>3
  <2> QED BY <2>1
<1>5. \A q \in Order : status'[q] = "none" => q # o /\ status[q] = "none"
  BY <1>1, <1>2 DEF StoreType
<1>6. \A q \in Order \ {o} : hold'[q] = hold[q]
  BY <1>1, <1>3 DEF StoreType
<1>7. \A q \in Order, r \in Row : status'[q] = "none" => hold'[q][r] <= hold[q][r]
  <2>1. \A q \in Order, r \in Row : hold[q][r] \in Nat
    BY <1>1 DEF StoreType
  <2> QED BY <1>5, <1>6, <2>1
<1> QED BY <1>1, <1>2, <1>4, <1>5, <1>7, NoneHeldKept, SupplyStep

LEMMA ReceiveStep ==
    ASSUME IInv, IInv', NoneHeld, NEW p \in Proc, Receive(p)
    PROVE  NoneHeld' /\ Promise!Honour
<1>1. StoreType /\ StoreType' /\ NoOversell' /\ WorkerType
  BY DEF IInv, TypeOK
<1>2. UNCHANGED <<status, used>>
  BY DEF Receive
<1>3. CASE UNCHANGED hold
  <2>1. \A o \in Order, r \in Row : hold[o][r] \in Nat
    BY <1>1 DEF StoreType
  <2> QED BY <1>1, <1>2, <1>3, <2>1, NoneHeldKept, SupplyStep
<1>4. CASE \E loc, free : \E g \in OldestFirst(loc, free) :
             hold' = [o \in Order |->
                        [hold[o] EXCEPT ![req[p].row] = hold[o][req[p].row] + g[o]]]
  <2>1. PICK loc, free : \E g \in OldestFirst(loc, free) :
             hold' = [o \in Order |->
                        [hold[o] EXCEPT ![req[p].row] = hold[o][req[p].row] + g[o]]]
    BY <1>4
  <2>2. PICK g \in OldestFirst(loc, free) :
             hold' = [o \in Order |->
                        [hold[o] EXCEPT ![req[p].row] = hold[o][req[p].row] + g[o]]]
    BY <2>1
  <2>3. \A o \in Order : g[o] \in 0..free /\ g[o] <= Wanting(loc)[o]
    BY <2>2 DEF OldestFirst
  <2>4. \A o \in Order : status[o] = "none" => g[o] = 0
    BY <2>3 DEF Wanting, Waits, Open
  <2>5. \A o \in Order, r \in Row :
          /\ hold'[o][r] \in {hold[o][r], hold[o][r] + g[o]}
          /\ hold[o][r] \in Nat
    BY <1>1, <2>2 DEF StoreType
  <2>6. \A o \in Order, r \in Row : hold'[o][r] >= hold[o][r]
    BY <2>3, <2>5
  <2>7. \A o \in Order, r \in Row : status'[o] = "none" => hold'[o][r] <= hold[o][r]
    BY <1>2, <2>4, <2>5
  <2> QED BY <1>1, <1>2, <2>6, <2>7, NoneHeldKept, SupplyStep
<1> QED BY <1>3, <1>4 DEF Receive

LEMMA ConsumeStep ==
    ASSUME IInv, IInv', NoneHeld, NEW p \in Proc, Consume(p)
    PROVE  NoneHeld' /\ Promise!Honour
<1>1. StoreType /\ StoreType' /\ WorkerType /\ ReadsStayGood
  BY DEF IInv, TypeOK
<1>2. UNCHANGED status /\ Locked(p, "move")
  BY DEF Consume
<1>3. PICK o \in Order : o = req[p].order
  BY <1>1, <1>2, RequestType DEF Locked, WorkerType, MoveReq
<1> DEFINE out == [r \in Row |-> IF lock[r] = p THEN hold[o][r] ELSE 0]
<1>4. /\ onHand' = [r \in Row |-> IF lock[r] = p THEN seenOn[p][r] - out[r] ELSE onHand[r]]
      /\ hold' = [hold EXCEPT ![o] = [r \in Row |-> hold[o][r] - out[r]]]
      /\ used' = [used EXCEPT ![o] = used[o] + Total(out)]
  BY <1>3 DEF Consume
<1>5. \A q \in Order, r \in Row : hold[q][r] \in Nat /\ onHand[r] \in Nat
  BY <1>1 DEF StoreType
<1>6. \A r \in Row : out[r] \in Nat /\ hold'[o][r] = hold[o][r] - out[r]
  BY <1>1, <1>4, <1>5 DEF StoreType
<1>7. \A q \in Order \ {o} : hold'[q] = hold[q]
  BY <1>1, <1>4 DEF StoreType
<1>8. \A r \in Row : onHand'[r] = onHand[r] - out[r]
  <2>1. ASSUME NEW r \in Row PROVE onHand'[r] = onHand[r] - out[r]
    <3>1. CASE lock[r] = p
      BY <1>1, <1>4, <3>1 DEF ReadsStayGood
    <3>2. CASE lock[r] # p
      BY <1>4, <1>5, <3>2
    <3> QED BY <3>1, <3>2
  <2> QED BY <2>1
<1>9. out = [r \in Row |-> hold[o][r] - hold'[o][r]]
  <2>1. \A r \in Row : out[r] = hold[o][r] - hold'[o][r]
    BY <1>5, <1>6
  <2> HIDE DEF out
  <2>2. out = [r \in Row |-> out[r]]
    BY DEF out
  <2> QED BY <2>1, <2>2
<1>10. Promise!Deliver(o)
  <2>1. used' = [used EXCEPT ![o] = used[o] + Promise!Total(out)]
    BY <1>4, SameTotal
  <2> HIDE DEF out
  <2> QED BY <1>6, <1>7, <1>8, <1>9, <2>1 DEF Promise!Deliver
<1>11. \A q \in Order, r \in Row : hold'[q][r] <= hold[q][r]
  BY <1>5, <1>6, <1>7
<1>12. NoneHeld'
  BY <1>1, <1>2, <1>11, NoneHeldKept
<1> QED BY <1>10, <1>12 DEF Promise!Honour

LEMMA ReleaseRowStep ==
    ASSUME IInv, IInv', NoneHeld, NEW p \in Proc, ReleaseRow(p)
    PROVE  NoneHeld' /\ Promise!Honour
<1>1. StoreType /\ StoreType' /\ WorkerType /\ StepsMatch
  BY DEF IInv, TypeOK
<1>2. PICK o \in Order : o = req[p].order
  BY <1>1, RequestType DEF ReleaseRow, StepsMatch, Fits, WorkerType, MoveReq
<1>3. PICK t \in Row : hold' = [hold EXCEPT ![o][t] = 0]
  BY <1>2 DEF ReleaseRow
<1>4. UNCHANGED <<status, onHand, used>>
  BY DEF ReleaseRow
<1>5. \A q \in Order, r \in Row : hold'[q][r] <= hold[q][r]
  BY <1>1, <1>3 DEF StoreType
<1>6. \A q \in Order \ {o} : hold'[q] = hold[q]
  BY <1>1, <1>3 DEF StoreType
<1> QED BY <1>1, <1>4, <1>5, <1>6, NoneHeldKept, WithdrawStep

LEMMA ExpireStep ==
    ASSUME IInv, IInv', NoneHeld, NEW p \in Proc, Expire(p)
    PROVE  NoneHeld' /\ (Promise!Honour \/ UNCHANGED Promise!promise)
<1>1. StoreType /\ StoreType' /\ WorkerType /\ StepsMatch
  BY DEF IInv, TypeOK
<1>2. PICK o \in Order : o = req[p].order
  BY <1>1, RequestType DEF Expire, StepsMatch, Fits, WorkerType, ExpireReq
<1>3. CASE UNCHANGED store
  <2>1. UNCHANGED <<status, hold, onHand, used>>
    BY <1>3 DEF store
  <2> QED BY <2>1, QuietStep DEF NoneHeld
<1>4. CASE /\ hold' = [hold EXCEPT ![o] = [r \in Row |-> 0]]
           /\ \E end \in {"open", "cancelled"} : status' = [status EXCEPT ![o] = end]
           /\ UNCHANGED <<onHand, used>>
  <2>1. \A q \in Order, r \in Row : hold'[q][r] <= hold[q][r]
    BY <1>1, <1>4 DEF StoreType
  <2>2. \A q \in Order \ {o} : hold'[q] = hold[q]
    BY <1>1, <1>4 DEF StoreType
  <2>3. \A q \in Order : status'[q] = "none" => status[q] = "none"
    BY <1>1, <1>4 DEF StoreType
  <2> QED BY <1>1, <1>4, <2>1, <2>2, <2>3, NoneHeldKept, WithdrawStep
<1> QED BY <1>2, <1>3, <1>4 DEF Expire

LEMMA SwapStep ==
    ASSUME IInv, IInv', NoneHeld, NEW p \in Proc, Swap(p)
    PROVE  NoneHeld' /\ UNCHANGED Promise!promise
<1>1. StoreType /\ WorkerType /\ StepsMatch
  BY DEF IInv, TypeOK
<1>2. UNCHANGED <<onHand, hold, used>>
  BY DEF Swap
<1>3. req[p].to # "none"
  BY <1>1, RequestType DEF Swap, StepsMatch, Fits, WorkerType, MoveReq
<1>4. \A q \in Order : status'[q] = "none" => status[q] = "none"
  BY <1>1, <1>3 DEF Swap, StoreType
<1> QED BY <1>2, <1>4, QuietStep DEF NoneHeld

\* A step that also leaves the orders' statuses, or claims or unclaims one.
LEMMA StatusStep ==
    ASSUME NoneHeld, UNCHANGED <<onHand, hold, used>>,
           \A q \in Order : status'[q] = "none" => status[q] = "none"
    PROVE  NoneHeld' /\ UNCHANGED Promise!promise
BY QuietStep DEF NoneHeld

-----------------------------------------------------------------------------
(* The theorem                                                             *)

LEMMA StepImplements ==
    ASSUME IInv, IInv', NoneHeld, [Next]_vars
    PROVE  NoneHeld' /\ (Promise!Honour \/ UNCHANGED Promise!promise)
<1>1. StoreType /\ StoreType' /\ NoOversell'
  BY DEF IInv, TypeOK
<1>2. CASE UNCHANGED <<status, onHand, hold, used>>
  BY <1>2, StatusStep
<1>3. CASE \E p \in Proc : Place(p) \/ Receive(p) \/ Consume(p) \/ ReleaseRow(p)
                             \/ Expire(p) \/ Swap(p)
  BY <1>3, PlaceStep, ReceiveStep, ConsumeStep, ReleaseRowStep, ExpireStep, SwapStep
<1>4. CASE \E p \in Proc : Adjust(p) \/ Revalidate(p)
  <2>1. UNCHANGED <<status, hold, used>>
    BY <1>4 DEF Adjust, Revalidate
  <2>2. \A o \in Order, r \in Row : hold[o][r] \in Nat
    BY <1>1 DEF StoreType
  <2> QED BY <1>1, <2>1, <2>2, SupplyStep DEF NoneHeld
<1>5. CASE \E o \in Order : Claim(o) \/ Unclaim(o)
  <2>1. UNCHANGED <<onHand, hold, used>>
    BY <1>5 DEF Claim, Unclaim
  <2>2. \A q \in Order : status'[q] = "none" => status[q] = "none"
    BY <1>1, <1>5 DEF Claim, Unclaim, StoreType
  <2> QED BY <2>1, <2>2, StatusStep
<1>6. CASE \E p \in Proc : Start(p) \/ Acquire(p) \/ Decline(p) \/ ReleaseDone(p)
                             \/ RefreshNeed(p) \/ Crash(p)
  <2>1. UNCHANGED <<status, onHand, hold, used>>
    <3>1. ASSUME NEW p \in Proc, Start(p) PROVE UNCHANGED <<status, onHand, hold, used>>
      BY <3>1 DEF Start, StartPlace, StartReceive, StartAdjust, StartRevalidate,
                  StartMove, StartExpire, Begin, store
    <3>2. ASSUME NEW p \in Proc,
                 Acquire(p) \/ Decline(p) \/ ReleaseDone(p) \/ RefreshNeed(p) \/ Crash(p)
          PROVE  UNCHANGED <<status, onHand, hold, used>>
      BY <3>2 DEF Acquire, Decline, ReleaseDone, RefreshNeed, Crash, store
    <3> QED BY <1>6, <3>1, <3>2
  <2> QED BY <1>2, <2>1
<1>7. CASE EditFit \/ UNCHANGED vars
  BY <1>2, <1>7 DEF EditFit, vars
<1> QED BY <1>3, <1>4, <1>5, <1>6, <1>7 DEF Next, Work

LEMMA OpeningMaps == Init => Promise!Opening
BY DEF Init, Promise!Opening

\* The inventory, with its workers, locks, requests and crashes, implements
\* what the shipyard promises its buyers (place_fit_order, receive_stock,
\* consume_order_reservations and the releases are supplies, deliveries and
\* withdrawals; every other step is invisible to a buyer).
THEOREM PromiseHolds == Spec => PromiseKept
<1>1. Init => NoneHeld /\ Promise!Opening
  BY NoneHeldInit, OpeningMaps
<1>2. IInv /\ IInv' /\ NoneHeld /\ [Next]_vars => NoneHeld' /\ [Promise!Honour]_(Promise!promise)
  BY StepImplements
<1> QED BY <1>1, <1>2, Invariance, PTL DEF Spec, PromiseKept, Promise!PromiseSpec
=============================================================================
