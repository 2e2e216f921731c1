--------------------------- MODULE PurchaseOrders ---------------------------
(***************************************************************************)
(* Purchase orders (apps/procurement): an order is drafted, approved under *)
(* dual control and then driven by evidence: the contract it is matched    *)
(* to, the deliveries received against its lines and the wallet entry that *)
(* pays it.                                                                *)
(*                                                                         *)
(* Officers' requests are one transaction under the order's row lock.  The *)
(* engines (matching, refresh, payment) and the two confirmations list     *)
(* their candidates first and lock the order later: two steps.             *)
(***************************************************************************)
EXTENDS Totals

CONSTANTS
    Order, Line, Contract, Entry,
    OrderOf,    \* the order of a line
    Ordered,    \* units ordered on a line, after rounding to the supplier's minimum
    FitLine,    \* lines received into the fit inventory
    Landed,     \* contract -> line -> units of the line's type in the contract
    Fits,       \* contracts issued by the supplier of an order at its price
    ContextOf,  \* the contract a wallet entry names, or None
    None,
    Officer, Director,
    CreatorOf,  \* who drafted an order
    Dear,       \* orders at or above the directors' threshold
    UnderAgreement, Cycle,  \* orders of the agreement; units its cycle still covers
    Batch,      \* sizes of a delivery an officer records
    Proc        \* workers

ASSUME OrderAssumption == /\ IsFiniteSet(Line) /\ OrderOf \in [Line -> Order]
                          /\ Ordered \in [Line -> Nat \ {0}] /\ FitLine \subseteq Line
                          /\ Landed \in [Contract -> [Line -> Nat]] /\ Batch \subseteq Nat \ {0}
ASSUME EvidenceAssumption == /\ Fits \in [Order -> SUBSET Contract] /\ None \notin Contract \cup Entry
                             /\ ContextOf \in [Entry -> Contract \cup {None}]
ASSUME PeopleAssumption == /\ Director \subseteq Officer /\ CreatorOf \in [Order -> Officer]
                           /\ Dear \subseteq Order /\ UnderAgreement \subseteq Order /\ Cycle \in Nat

VARIABLES
    status,     \* PurchaseOrder.status
    match,      \* contract_id
    seen,       \* contract_status, copied
    paid,       \* paid_entry_id
    received,   \* PurchaseOrderLine.quantity_received
    auto,       \* the sum of a line's contract_auto receipts
    manual,     \* and of its manual ones
    stock,      \* what the line added to a stockpile or to the fit inventory
    snapshot,   \* the status of a contract in the synchronised snapshot
    agreement,  \* SupplyAgreement.status of the agreement
    pc, mem     \* a worker's step and what it has read

evidence == <<match, seen, paid>>
goods == <<received, auto, manual, stock>>
world == <<snapshot, agreement>>
vars == <<status, match, seen, paid, received, auto, manual, stock, snapshot, agreement, pc, mem>>

Draft == {"draft", "submitted"}
Closed == {"reconciled", "cancelled"}
Receivable == {"contract_available", "accepted", "partial", "overdue"}
Settleable == {"delivered", "partial", "accepted", "overdue"}
Sweepable == {"approved", "contract_expected", "contract_available", "accepted", "partial"}
Matchable == {"approved", "contract_expected", "overdue"}
Ladder == <<"approved", "contract_expected", "contract_available", "accepted", "partial",
            "delivered", "reconciled">>
Rank(s) == IF \E i \in DOMAIN Ladder : Ladder[i] = s THEN CHOOSE i \in DOMAIN Ladder : Ladder[i] = s ELSE 0

Idle == [order |-> None, contract |-> None, saw |-> None, entry |-> None]
Goto(p, step, m) == pc' = [pc EXCEPT ![p] = step] /\ mem' = [mem EXCEPT ![p] = m]
Done(p) == Goto(p, "idle", Idle)
LinesOf(o) == {l \in Line : OrderOf[l] = o}
SumOf(f, S) == Total([l \in S |-> f[l]])

Init ==
    /\ status = [o \in Order |-> "draft"]
    /\ match = [o \in Order |-> None] /\ seen = match /\ paid = match
    /\ received = [l \in Line |-> 0] /\ auto = received /\ manual = received /\ stock = received
    /\ snapshot = [c \in Contract |-> "outstanding"] /\ agreement = "active"
    /\ pc = [p \in Proc |-> "idle"] /\ mem = [p \in Proc |-> Idle]

-----------------------------------------------------------------------------
(* The state an order's evidence implies                                   *)

FullyReceived(o, got) == SumOf(got, LinesOf(o)) >= SumOf(Ordered, LinesOf(o))

\* _derive_progress_state, from the new contract, payment and receipts.
Derived(o, now, contract, contractStatus, entry, got) ==
    IF FullyReceived(o, got) THEN IF entry # None THEN "reconciled" ELSE "delivered"
    ELSE IF SumOf(got, LinesOf(o)) > 0 THEN "partial"
    ELSE IF contract # None THEN IF contractStatus = "finished" THEN "accepted" ELSE "contract_available"
    ELSE IF now = "contract_expected" THEN now ELSE "approved"

\* Mutant: a payment does not recompute the state.
AdvancedByGoods(o, now, contract, contractStatus, entry, got) ==
    IF entry # None /\ received = got THEN now
    ELSE LET d == Derived(o, now, contract, contractStatus, entry, got)
         IN  IF now = "disputed" \/ Rank(d) < Rank(now) THEN now ELSE d
\* apply_derived_state: frozen under dispute, never down the ladder; a state
\* off the ladder ranks below it.
Advanced(o, now, contract, contractStatus, entry, got) ==
    LET d == Derived(o, now, contract, contractStatus, entry, got)
    IN  IF now = "disputed" \/ Rank(d) < Rank(now) THEN now ELSE d

Set(o, s) == status' = [status EXCEPT ![o] = s]
Resting == UNCHANGED <<pc, mem>>

-----------------------------------------------------------------------------
(* Officers' requests                                                      *)

SubmitPo(o) ==
    /\ status[o] = "draft" /\ Set(o, "submitted")
    /\ UNCHANGED <<evidence, goods, world>> /\ Resting

\* The agreement covers an order within what its cycle leaves beside its other
\* orders, cancelled and disputed ones aside.
Covered(o) ==
    /\ o \in UnderAgreement /\ agreement = "active"
    /\ SumOf(Ordered, UNION {LinesOf(q) : q \in {r \in UnderAgreement :
            r = o \/ status[r] \notin {"cancelled", "disputed"}}}) <= Cycle

ApprovePo(o, who) ==
    /\ status[o] = "submitted" /\ who # CreatorOf[o]
    /\ Covered(o) \/ o \notin Dear \/ who \in Director
    /\ Set(o, "approved")
    /\ UNCHANGED <<evidence, goods, world>> /\ Resting

MarkContractExpected(o) ==
    /\ status[o] = "approved" /\ Set(o, "contract_expected")
    /\ UNCHANGED <<evidence, goods, world>> /\ Resting

CancelPo(o, who) ==
    /\ status[o] \notin Closed
    /\ status[o] \in Draft \cup {"approved", "contract_expected"} \/ who \in Director
    /\ Set(o, "cancelled")
    /\ UNCHANGED <<evidence, goods, world>> /\ Resting

DisputePo(o) ==
    /\ status[o] \notin Draft \cup Closed /\ Set(o, "disputed")
    /\ UNCHANGED <<evidence, goods, world>> /\ Resting

ResolveDispute(o, who) ==
    /\ status[o] = "disputed"
    /\ \/ Set(o, "reconciled")
       \/ who \in Director /\ Set(o, "cancelled")
       \/ Set(o, Derived(o, "disputed", match[o], seen[o], paid[o], received))
    /\ UNCHANGED <<evidence, goods, world>> /\ Resting

MarkReconciled(o) ==
    /\ status[o] = "delivered" /\ Set(o, "reconciled")
    /\ UNCHANGED <<evidence, goods, world>> /\ Resting

\* sweep_overdue looks again under the row lock; it also ends the agreement.
SweepOverdue(o) ==
    /\ status[o] \in Sweepable /\ Set(o, "overdue")
    /\ UNCHANGED <<evidence, goods, world>> /\ Resting

ExpireAgreement ==
    /\ agreement = "active" /\ agreement' = "expired"
    /\ UNCHANGED <<status, evidence, goods, snapshot>> /\ Resting

-----------------------------------------------------------------------------
(* Deliveries                                                              *)

\* receive_po_delivery clamps to what is outstanding, under the locks of the
\* order and of the line.
Outstanding(got, l) == Ordered[l] - got[l]
Add(f, qty) == [l \in Line |-> f[l] + qty[l]]
Receive(o, qty) ==
    /\ received' = Add(received, qty) /\ stock' = Add(stock, qty)
    /\ Set(o, Advanced(o, status[o], match[o], seen[o], paid[o], received'))

ReceiveDelivery(l, n) ==
    LET o == OrderOf[l]
        qty == [k \in Line |-> IF k = l THEN AtMost(n, Outstanding(received, l)) ELSE 0]
    IN
    /\ status[o] \in Receivable /\ Outstanding(received, l) > 0
    /\ Receive(o, qty) /\ manual' = Add(manual, qty)
    /\ UNCHANGED <<evidence, auto, world>> /\ Resting

\* Mutant: what the contract already posted is forgotten.
LandedAgain(o, l) == Landed[match[o]][l]
\* A contract's items are cumulative: what it already posted is taken off.
LandedAnew(o, l) == Landed[match[o]][l] - auto[l]

\* auto_receive_from_contract, for the lines that are no fits.
AutoReceive(p) ==
    LET o == mem[p].order
        due == [l \in Line |->
                  IF l \in LinesOf(o) \ FitLine
                  THEN AtLeast(0, AtMost(LandedAnew(o, l), Outstanding(received, l))) ELSE 0]
    IN
    /\ pc[p] = "landing" /\ Done(p)
    /\ IF status[o] \in Receivable /\ match[o] # None /\ Total(due) > 0
       THEN Receive(o, due) /\ auto' = Add(auto, due) /\ UNCHANGED manual
       ELSE UNCHANGED <<status, goods>>
    /\ UNCHANGED <<evidence, world>>

-----------------------------------------------------------------------------
(* Matching contracts                                                      *)

Claimed == {match[o] : o \in Order}
Candidates(o) == IF match[o] = None THEN Fits[o] \ Claimed ELSE {}

\* match_contracts lists the orders to match; one candidate is taken,
BeginMatch(p, o, c) ==
    /\ pc[p] = "idle" /\ status[o] \in Matchable /\ Candidates(o) = {c}
    /\ Goto(p, "matching", [Idle EXCEPT !.order = o, !.contract = c, !.saw = snapshot[c]])
    /\ UNCHANGED <<status, evidence, goods, world>>

\* the order's page offers an officer several to confirm.
BeginConfirm(p, o, c) ==
    /\ pc[p] = "idle" /\ status[o] \in Matchable /\ c \in Candidates(o)
    /\ Goto(p, "confirming", [Idle EXCEPT !.order = o, !.contract = c, !.saw = snapshot[c]])
    /\ UNCHANGED <<status, evidence, goods, world>>

\* apply_match: an order already matched is left alone, a contract another
\* order has meanwhile is refused by the unique constraint.
Evidence(o, c, saw) ==
    /\ match' = [match EXCEPT ![o] = c] /\ seen' = [seen EXCEPT ![o] = saw]
    /\ Set(o, Advanced(o, status[o], c, saw, paid[o], received))
    /\ UNCHANGED paid

ApplyMatch(p) ==
    LET o == mem[p].order  c == mem[p].contract IN
    /\ pc[p] \in {"matching", "confirming"}
    /\ IF match[o] = None /\ c \notin Claimed THEN Evidence(o, c, mem[p].saw)
       ELSE UNCHANGED <<status, evidence>>
    /\ IF pc[p] = "matching" /\ (match[o] # None \/ c \notin Claimed)
       THEN Goto(p, "rereading", [Idle EXCEPT !.order = o])
       ELSE Done(p)
    /\ UNCHANGED <<goods, world>>

\* match_contracts reads the order again: the goods of a finished contract land.
Reread(p) ==
    LET o == mem[p].order IN
    /\ pc[p] = "rereading"
    /\ IF seen[o] = "finished" THEN Goto(p, "landing", [Idle EXCEPT !.order = o]) ELSE Done(p)
    /\ UNCHANGED <<status, evidence, goods, world>>

\* refresh_matched_contracts reads the snapshot for an open order,
BeginRefresh(p, o) ==
    /\ pc[p] = "idle" /\ match[o] # None /\ status[o] \notin Closed
    /\ snapshot[match[o]] # seen[o]
    /\ Goto(p, "refreshing", [Idle EXCEPT !.order = o, !.saw = snapshot[match[o]]])
    /\ UNCHANGED <<status, evidence, goods, world>>

\* and writes what it read under the row lock.
CommitRefresh(p) ==
    LET o == mem[p].order IN
    /\ pc[p] = "refreshing" /\ Done(p)
    /\ seen' = [seen EXCEPT ![o] = mem[p].saw]
    /\ Set(o, Advanced(o, status[o], match[o], seen'[o], paid[o], received))
    /\ UNCHANGED <<match, paid, goods, world>>

\* The supplier's contract is accepted or withdrawn in the game, and the
\* snapshot is rebuilt.
ContractMoves(c, s) ==
    /\ snapshot[c] = "outstanding" /\ snapshot' = [snapshot EXCEPT ![c] = s]
    /\ UNCHANGED <<status, evidence, goods, agreement>> /\ Resting

-----------------------------------------------------------------------------
(* Payments                                                                *)

Used == {paid[o] : o \in Order}

\* reconcile_payments: the entry names the order's contract.
BeginReconcile(p, o, e) ==
    /\ pc[p] = "idle" /\ status[o] \in Settleable /\ paid[o] = None /\ match[o] # None
    /\ ContextOf[e] = match[o] /\ e \notin Used
    /\ Goto(p, "settling", [Idle EXCEPT !.order = o, !.entry = e])
    /\ UNCHANGED <<status, evidence, goods, world>>

\* The page of an unpaid order offers entries that name no contract and that
\* no order uses; confirm_payment then settles without a look at the status.
BeginConfirmPayment(p, o, e) ==
    /\ pc[p] = "idle" /\ status[o] \in Settleable /\ paid[o] = None
    /\ ContextOf[e] = None /\ e \notin Used
    /\ Goto(p, "settling", [Idle EXCEPT !.order = o, !.entry = e])
    /\ UNCHANGED <<status, evidence, goods, world>>

\* _settle: an order already paid is left alone.
Settle(p) ==
    LET o == mem[p].order IN
    /\ pc[p] = "settling" /\ Done(p)
    /\ IF paid[o] = None
       THEN /\ paid' = [paid EXCEPT ![o] = mem[p].entry]
            /\ Set(o, Advanced(o, status[o], match[o], seen[o], paid'[o], received))
       ELSE UNCHANGED <<status, paid>>
    /\ UNCHANGED <<match, seen, goods, world>>

Next ==
    \/ \E o \in Order :
          \/ SubmitPo(o) \/ MarkContractExpected(o) \/ DisputePo(o) \/ MarkReconciled(o)
          \/ SweepOverdue(o)
          \/ \E who \in Officer : ApprovePo(o, who) \/ CancelPo(o, who) \/ ResolveDispute(o, who)
    \/ ExpireAgreement
    \/ \E l \in Line, n \in Batch : ReceiveDelivery(l, n)
    \/ \E c \in Contract, s \in {"finished", "deleted"} : ContractMoves(c, s)
    \/ \E p \in Proc :
          \/ AutoReceive(p) \/ ApplyMatch(p) \/ Reread(p) \/ CommitRefresh(p) \/ Settle(p)
          \/ \E o \in Order :
                \/ BeginRefresh(p, o)
                \/ \E c \in Contract : BeginMatch(p, o, c) \/ BeginConfirm(p, o, c)
                \/ \E e \in Entry : BeginReconcile(p, o, e) \/ BeginConfirmPayment(p, o, e)

Spec == Init /\ [][Next]_vars

-----------------------------------------------------------------------------
(* Properties                                                              *)

TypeOK ==
    /\ status \in [Order -> {"draft", "submitted", "cancelled", "disputed", "overdue"}
                            \cup {Ladder[i] : i \in DOMAIN Ladder}]
    /\ match \in [Order -> Contract \cup {None}] /\ paid \in [Order -> Entry \cup {None}]
    /\ received \in [Line -> Nat] /\ auto \in [Line -> Nat] /\ manual \in [Line -> Nat]

\* The stock gained what the receipts of a line say and no more than was
\* ordered, and a contract's automatic receipts never exceed what it landed,
\* however matching runs overlap (receive_po_delivery, auto_receive_from_contract).
ReceivedOnce ==
    \A l \in Line :
       /\ received[l] = auto[l] + manual[l] /\ stock[l] = received[l] /\ received[l] <= Ordered[l]
       /\ auto[l] > 0 => auto[l] <= Landed[match[OrderOf[l]]][l]

\* An order whose lines are all received and that is paid is reconciled, in
\* whatever order deliveries, payment and contract arrive, unless an officer
\* holds it in dispute or cancelled it (apply_derived_state).
EvidenceCloses ==
    \A o \in Order :
       FullyReceived(o, received) /\ paid[o] # None
         => status[o] \in {"reconciled", "disputed", "cancelled"}

\* "This purchase order is already closed" (procurement/services.py:372): a
\* cancelled order stays cancelled whatever evidence comes in late.
CancelledStays == [][\A o \in Order : status[o] = "cancelled" => status'[o] = "cancelled"]_vars
=============================================================================
