---------------------------- MODULE FitInventory ----------------------------
(***************************************************************************)
(* Shipyard inventory of one doctrine fit: stock rows, reservations, the   *)
(* stock ledger, the orders that hold stock and the supply need their      *)
(* backorders fold into (apps/store/inventory.py, services.py, supply.py,  *)
(* tasks.py).                                                              *)
(*                                                                         *)
(* A process is a web or Celery worker running one request.  A request     *)
(* that opens a transaction on stock rows is three steps: it reads its     *)
(* inputs (no lock), it takes the row locks and reads balances and holds   *)
(* under them, and it commits.  What is not under those locks happens in   *)
(* between: a release, an expiry, a status compare-and-swap, a fit edit.   *)
(* transition_order is not one transaction: its compare-and-swap commits   *)
(* alone, and the consumption or release it owes follows, unless the       *)
(* worker dies first.                                                      *)
(***************************************************************************)
EXTENDS Totals

CONSTANTS
    Loc,        \* market locations stock is kept at
    AnyLoc,     \* delivery location of an order placed while none was configured
    Dest,       \* delivery locations orders are placed for
    Rev,        \* revisions of the fit: the values of its manifest hash
    Order,      \* primary keys of store orders: earlier orders have smaller keys
    Op,         \* bound: the requests the workers serve and the options they meet
    Proc,       \* workers
    NoProc,     \* holder of an unlocked row
    MaxUnits,   \* bound: units of one order or receipt, and of the stock as it begins
    CanCrash    \* whether a worker may die between two of its steps

ASSUME KeysAssumption == Order \in SUBSET Nat /\ IsFiniteSet(Order)
ASSUME RowsAssumption == IsFiniteSet(Loc) /\ IsFiniteSet(Rev)
ASSUME DestAssumption == Dest \subseteq Loc \cup {AnyLoc}
ASSUME NoneAssumption == AnyLoc \notin Loc /\ NoProc \notin Proc
ASSUME BoundAssumption == MaxUnits \in Nat /\ CanCrash \in BOOLEAN

Row == Loc \X Rev          \* unique (location, manifest hash) of the fit
Site == Loc \cup {AnyLoc}
Open == {"open", "claimed", "in_production"}   \* statuses that wait for stock
Closed == {"delivered", "cancelled"}
Status == {"none"} \cup Open \cup {"ready"} \cup Closed
NoTerms == [qty |-> 0, site |-> AnyLoc, back |-> FALSE, rev |-> CHOOSE v \in Rev : TRUE]

VARIABLES
    rev,      \* current revision of the fit
    rank,     \* creation order of the stock rows, 0 for a row that does not exist
    onHand,   \* FitStock.quantity_on_hand
    ledger,   \* sum of the deltas of the row's FitStockEntry lines
    status,   \* StoreOrder.status
    terms,    \* what the order froze: quantity, location, has_backorder, manifest
    hold,     \* units ACTIVE FitReservations of an order hold in a row
    used,     \* units CONSUMED FitReservations delivered to an order
    need,     \* quantity_required of each location's live FitSupplyNeed
    lock,     \* which worker's transaction holds the row lock
    pc, req, seenOn, seenHeld   \* a worker's step, request, and reads under lock

store == <<rev, rank, onHand, ledger, status, terms, hold, used, need>>
local == <<pc, req, seenOn, seenHeld>>
vars == <<rev, rank, onHand, ledger, status, terms, hold, used, need, lock,
          pc, req, seenOn, seenHeld>>

-----------------------------------------------------------------------------
(* Derived quantities                                                      *)

Rows == {r \in Row : rank[r] # 0}
Held(r) == Total([o \in Order |-> hold[o][r]])
Covered(o) == Total(hold[o]) + used[o]
Unfilled(o) == AtLeast(terms[o].qty - Covered(o), 0)

\* Unfilled units of the waiting orders that count toward one location's need.
Counts(o, k) == status[o] \in Open /\ terms[o].site = k
Demand(k) == Total([o \in Order |-> IF Counts(o, k) THEN Unfilled(o) ELSE 0])

\* Mutant: the demand is counted before the step's own change.
RefreshEarly(site) == need' = [need EXCEPT ![site] = Demand(site)]

\* recompute_supply_need, on what the step leaves: the quantity follows the
\* demand (0 stands for a closed need and for one an officer's vehicle keeps).
Refresh(site) == \E k \in {site} : need' = [need EXCEPT ![k] = Demand(k)']

\* Rows of one revision that count at a site: all of them when none is configured.
At(site, v) == {r \in Rows : r[2] = v /\ (site = AnyLoc \/ r[1] = site)}

\* Mutant: the available units forget what is already promised.
FreeOfStock(p, r) == seenOn[p][r]

\* What a worker may still promise from a row, by its reads under the lock.
Free(p, r) == AtLeast(seenOn[p][r] - seenHeld[p][r], 0)

\* The ways to take q units from the rows first in, first out.
Greedy(free, q) ==
    {g \in [Row -> 0..q] :
        /\ \A r \in Row : g[r] <= free[r]
        /\ Total(g) = q
        /\ \A r, s \in Row : rank[r] < rank[s] /\ g[s] > 0 => g[r] = free[r]}

\* The ways to spread `free' new units of a row over waiting orders, oldest first.
Waits(o, loc) == status[o] \in Open /\ terms[o].site \in {loc, AnyLoc}
\* Mutant: an allocation ignores what the order already holds.
WantingAll(loc) == [o \in Order |-> IF Waits(o, loc) THEN terms[o].qty ELSE 0]
Wanting(loc) == [o \in Order |-> IF Waits(o, loc) THEN Unfilled(o) ELSE 0]
OldestFirst(loc, free) ==
    {g \in [Order -> 0..free] :
        /\ \A o \in Order : g[o] <= Wanting(loc)[o]
        /\ Total(g) = AtMost(free, Total(Wanting(loc)))
        /\ \A o, q \in Order : o < q /\ g[q] > 0 => g[o] = Wanting(loc)[o]}

Create(rows) ==
    [r \in Row |-> IF r \in rows /\ rank[r] = 0
                   THEN Cardinality(Rows) + 1 ELSE rank[r]]

-----------------------------------------------------------------------------
(* Requests: what each kind carries from its unlocked reads                *)

PlaceReq == [op : {"place"}, rev : Rev, site : Site, qty : 1..MaxUnits]
ReceiveReq == [op : {"receive"}, row : Row, qty : 1..MaxUnits, po : BOOLEAN]
AdjustReq == [op : {"adjust"}, row : Row, qty : 0..MaxUnits]
RevalidateReq == [op : {"revalidate"}, row : Row, rev : Rev]
MoveReq == [op : {"move"}, order : Order, from : Status \ {"none"}, to : Status \ {"none"}]
ExpireReq == [op : {"expire"}, order : Order]
NoReq == [op |-> "none"]
Request == PlaceReq \cup ReceiveReq \cup AdjustReq \cup RevalidateReq
             \cup MoveReq \cup ExpireReq \cup {NoReq}
Step == {"idle", "locking", "locked", "cas", "release", "refresh", "check"}

Goto(p, step) == pc' = [pc EXCEPT ![p] = step]
Begin(p, step, request) ==
    /\ pc[p] = "idle"
    /\ request.op \in Op
    /\ Goto(p, step)
    /\ req' = [req EXCEPT ![p] = request]
    /\ UNCHANGED <<store, lock, seenOn, seenHeld>>

Init ==
    /\ rev \in Rev
    /\ rank = [r \in Row |-> 0]
    /\ onHand = [r \in Row |-> 0]
    /\ ledger = [r \in Row |-> 0]
    /\ status = [o \in Order |-> "none"]
    /\ terms = [o \in Order |-> NoTerms]
    /\ hold = [o \in Order |-> [r \in Row |-> 0]]
    /\ used = [o \in Order |-> 0]
    /\ need = [k \in Site |-> 0]
    /\ lock = [r \in Row |-> NoProc]
    /\ pc = [p \in Proc |-> "idle"]
    /\ req = [p \in Proc |-> NoReq]
    /\ seenOn = [p \in Proc |-> [r \in Row |-> 0]]
    /\ seenHeld = [p \in Proc |-> [r \in Row |-> 0]]

-----------------------------------------------------------------------------
(* The start of a request: everything read before any lock is taken        *)

\* order_fit: the fit is loaded before place_fit_order locks anything.
StartPlace(p) ==
    \E site \in Dest, q \in 1..MaxUnits :
        Begin(p, "locking", [op |-> "place", rev |-> rev, site |-> site, qty |-> q])

\* Bound: a request starts only if the units in stock stay within MaxUnits.
Room(units) == Total(onHand) + units <= MaxUnits

\* inventory_receipt (an officer) or post_receipt_line (a supplier delivery).
StartReceive(p) ==
    \E loc \in Loc, q \in 1..MaxUnits, po \in BOOLEAN :
        /\ Room(q)
        /\ Begin(p, "locking",
                 [op |-> "receive", row |-> <<loc, rev>>, qty |-> q, po |-> po])

\* inventory_adjust: an officer's counted balance for an existing row.
StartAdjust(p) ==
    \E r \in Rows, q \in 0..MaxUnits :
        /\ Room(q - onHand[r])
        /\ Begin(p, "locking", [op |-> "adjust", row |-> r, qty |-> q])

\* inventory_revalidate: a row of another revision than the one just loaded.
StartRevalidate(p) ==
    \E r \in Rows :
        /\ r[2] # rev
        /\ Begin(p, "locking", [op |-> "revalidate", row |-> r, rev |-> rev])

\* The status that follows an order's current one (no build, no deposit).
NextStatus(o) ==
    CASE status[o] = "claimed" -> IF terms[o].back THEN "in_production" ELSE "ready"
      [] status[o] = "in_production" -> "ready"
      [] status[o] = "ready" -> "delivered"
      [] OTHER -> "none"

\* advance_order and order_action: the status is read before the swap.
StartMove(p) ==
    \E o \in Order : \E to \in {NextStatus(o), "cancelled"} \ {"none"} :
        /\ status[o] \notin {"none"} \cup Closed
        /\ Begin(p, "cas", [op |-> "move", order |-> o, from |-> status[o], to |-> to])

\* expire_reservations: the stale ids are listed before any of them is locked.
StartExpire(p) ==
    \E o \in Order :
        /\ status[o] = "open"
        /\ Total(hold[o]) > 0
        /\ Begin(p, "check", [op |-> "expire", order |-> o])

-----------------------------------------------------------------------------
(* Row locks and the reads made under them                                 *)

\* The rows a request locks: select_for_update, or the insert of get_or_create.
LockSet(p) ==
    CASE req[p].op = "place" -> At(req[p].site, req[p].rev)
      [] req[p].op \in {"receive", "adjust"} -> {req[p].row}
      [] req[p].op = "revalidate" -> {req[p].row, <<req[p].row[1], req[p].rev>>}
      [] req[p].op = "move" -> {r \in Row : hold[req[p].order][r] > 0}
      [] OTHER -> {}

\* Mutants: the reads do not wait for the locks; a stocktake takes none.
GrantedAlways(p) == TRUE
GrantedToStocktake(p) ==
    req[p].op = "adjust" \/ \A r \in LockSet(p) : lock[r] = NoProc
Granted(p) == \A r \in LockSet(p) : lock[r] = NoProc

Acquire(p) ==
    /\ pc[p] = "locking"
    /\ Granted(p)
    /\ lock' = [r \in Row |-> IF r \in LockSet(p) THEN p ELSE lock[r]]
    /\ seenOn' = [seenOn EXCEPT ![p] =
                     [r \in Row |-> IF r \in LockSet(p) THEN onHand[r] ELSE 0]]
    /\ seenHeld' = [seenHeld EXCEPT ![p] =
                     [r \in Row |-> IF r \in LockSet(p) THEN Held(r) ELSE 0]]
    /\ Goto(p, "locked")
    /\ UNCHANGED <<store, req>>

\* End of the transaction: locks go, and the worker moves on or is done.
Leave(p, step) ==
    /\ lock' = [r \in Row |-> IF lock[r] = p THEN NoProc ELSE lock[r]]
    /\ seenOn' = [seenOn EXCEPT ![p] = [r \in Row |-> 0]]
    /\ seenHeld' = [seenHeld EXCEPT ![p] = [r \in Row |-> 0]]
    /\ req' = [req EXCEPT ![p] = IF step = "idle" THEN NoReq ELSE req[p]]
    /\ Goto(p, step)

Locked(p, op) == pc[p] = "locked" /\ req[p].op = op

-----------------------------------------------------------------------------
(* The transactions on stock rows, at their commit                         *)

\* place_fit_order accepts: the order, its holds, and the first need refresh.
Place(p) ==
    /\ Locked(p, "place")
    /\ LET free == [r \in Row |-> Free(p, r)]
       IN \E o \in Order, force \in BOOLEAN :
          LET take == IF force THEN 0 ELSE AtMost(req[p].qty, Total(free))
              back == req[p].qty - take > 0
          IN /\ status[o] = "none"
             /\ force => "force_backorder" \in Op
             /\ \A q \in Order : q < o => status[q] # "none"
             /\ status' = [status EXCEPT ![o] = "open"]
             /\ terms' = [terms EXCEPT ![o] =
                   [qty |-> req[p].qty, site |-> req[p].site, back |-> back,
                    rev |-> req[p].rev]]
             /\ \E g \in Greedy(free, take) : hold' = [hold EXCEPT ![o] = g]
             /\ UNCHANGED used
             /\ IF back THEN Refresh(req[p].site) ELSE UNCHANGED need
             /\ Leave(p, IF back THEN "refresh" ELSE "idle")
    /\ UNCHANGED <<rev, rank, onHand, ledger>>

\* place_fit_order returns a confirmation page or an error: nothing is written.
Decline(p) ==
    /\ Locked(p, "place")
    /\ Leave(p, "idle")
    /\ UNCHANGED store

\* receive_stock: the balance, its ledger line, and the waiting orders' share.
Receive(p) ==
    /\ Locked(p, "receive")
    /\ LET row == req[p].row
           balance == seenOn[p][row] + req[p].qty
           free == AtLeast(balance - seenHeld[p][row], 0)
       IN /\ rank' = Create({row})
          /\ onHand' = [onHand EXCEPT ![row] = balance]
          /\ ledger' = [ledger EXCEPT ![row] = ledger[row] + req[p].qty]
          /\ \/ /\ "no_auto_allocate" \in Op   \* ShipyardPolicy.auto_allocate_receipts
                /\ UNCHANGED hold
             \/ \E g \in OldestFirst(row[1], free) :
                  hold' = [o \in Order |->
                             [hold[o] EXCEPT ![row] = hold[o][row] + g[o]]]
    /\ Leave(p, IF req[p].po THEN "idle" ELSE "refresh")
    /\ UNCHANGED <<rev, status, terms, used, need>>

\* adjust_stock: refused when the corrected balance is below what is held.
Adjust(p) ==
    /\ Locked(p, "adjust")
    /\ LET row == req[p].row
           delta == IF req[p].qty < seenHeld[p][row] THEN 0
                    ELSE req[p].qty - seenOn[p][row]
       IN /\ onHand' = [onHand EXCEPT ![row] = seenOn[p][row] + delta]
          /\ ledger' = [ledger EXCEPT ![row] = ledger[row] + delta]
    /\ Leave(p, "idle")
    /\ UNCHANGED <<rev, rank, status, terms, hold, used, need>>

\* Mutant: the promised units move too.
MovableAll(p) == seenOn[p][req[p].row]
Movable(p) == Free(p, req[p].row)

\* revalidate_stock: the free units of a stale row move to the current revision.
Revalidate(p) ==
    /\ Locked(p, "revalidate")
    /\ LET row == req[p].row
           target == <<row[1], req[p].rev>>
           moved == Movable(p)
       IN /\ rank' = IF moved > 0 THEN Create({target}) ELSE rank
          /\ onHand' = [onHand EXCEPT ![row] = seenOn[p][row] - moved,
                                      ![target] = seenOn[p][target] + moved]
          /\ ledger' = [ledger EXCEPT ![row] = ledger[row] - moved,
                                      ![target] = ledger[target] + moved]
    /\ Leave(p, "idle")
    /\ UNCHANGED <<rev, status, terms, hold, used, need>>

\* consume_order_reservations: every hold leaves with its stock, in one commit.
Consume(p) ==
    /\ Locked(p, "move")
    /\ LET o == req[p].order
           out == [r \in Row |-> IF lock[r] = p THEN hold[o][r] ELSE 0]
       IN /\ onHand' = [r \in Row |-> IF lock[r] = p THEN seenOn[p][r] - out[r]
                                      ELSE onHand[r]]
          /\ ledger' = [r \in Row |-> ledger[r] - out[r]]
          /\ hold' = [hold EXCEPT ![o] = [r \in Row |-> hold[o][r] - out[r]]]
          /\ used' = [used EXCEPT ![o] = used[o] + Total(out)]
    /\ Leave(p, "idle")
    /\ UNCHANGED <<rev, rank, status, terms, need>>

-----------------------------------------------------------------------------
(* Steps outside the row locks                                             *)

\* Mutant: the status is written whatever it has become.
WonAlways(p) == TRUE
Won(p) == status[req[p].order] = req[p].from

\* Mutants: a cancellation, or a delivery, forgets the order's holds.
SettleDeliveries(to) == IF to = "delivered" THEN "locking" ELSE "idle"
SettleCancellations(to) == IF to = "cancelled" THEN "release" ELSE "idle"
Settle(to) ==
    CASE to = "delivered" -> "locking"
      [] to = "cancelled" -> "release"
      [] OTHER -> "idle"

\* transition_order: the status moves only if it is still the one read.
Swap(p) ==
    /\ pc[p] = "cas"
    /\ status' = IF Won(p) THEN [status EXCEPT ![req[p].order] = req[p].to] ELSE status
    /\ Leave(p, IF Won(p) THEN Settle(req[p].to) ELSE "idle")
    /\ UNCHANGED <<rev, rank, onHand, ledger, terms, hold, used, need>>

\* release_order_reservations of a cancelled order: each row is its own commit.
ReleaseRow(p) ==
    /\ pc[p] = "release"
    /\ \E r \in Row :
        /\ hold[req[p].order][r] > 0
        /\ hold' = [hold EXCEPT ![req[p].order][r] = 0]
    /\ UNCHANGED <<rev, rank, onHand, ledger, status, terms, used, need, lock, local>>

ReleaseDone(p) ==
    /\ pc[p] = "release"
    /\ Total(hold[req[p].order]) = 0
    /\ Leave(p, "refresh")
    /\ UNCHANGED store

\* recompute_supply_need after the commit, for the request's location.
SiteOf(p) ==
    CASE req[p].op = "place" -> req[p].site
      [] req[p].op = "receive" -> req[p].row[1]
      [] OTHER -> terms[req[p].order].site

RefreshNeed(p) ==
    /\ pc[p] = "refresh"
    /\ UNCHANGED <<rev, rank, onHand, ledger, status, terms, hold, used>>
    /\ Refresh(SiteOf(p))
    /\ Leave(p, "idle")

\* Mutant: the sweep trusts its list, a claim made since notwithstanding.
LapsedWhenListed(o) == Total(hold[o]) > 0
Lapsed(o) == status[o] = "open" /\ Total(hold[o]) > 0

\* expire_reservations, one listed order: re-read under its row lock, then
\* released; without backorders it is cancelled in the same transaction.
Expire(p) ==
    /\ pc[p] = "check"
    /\ LET o == req[p].order
       IN \/ /\ ~Lapsed(o)
             /\ UNCHANGED store
          \/ /\ Lapsed(o)
             /\ hold' = [hold EXCEPT ![o] = [r \in Row |-> 0]]
             /\ \E end \in {"open", "cancelled"} :
                   status' = [status EXCEPT ![o] = end]
             /\ UNCHANGED <<rev, rank, onHand, ledger, terms, used>>
             /\ Refresh(terms[o].site)
    /\ Leave(p, "idle")

\* claim_order and the "release" of order_action: one guarded UPDATE each.
Claim(o) ==
    /\ status[o] = "open"
    /\ status' = [status EXCEPT ![o] = "claimed"]
    /\ UNCHANGED <<rev, rank, onHand, ledger, terms, hold, used, need, lock, local>>

Unclaim(o) ==
    /\ status[o] = "claimed"
    /\ status' = [status EXCEPT ![o] = "open"]
    /\ UNCHANGED <<rev, rank, onHand, ledger, terms, hold, used, need, lock, local>>

\* A doctrine edit changes the fit's modules, hence its manifest hash.
EditFit ==
    /\ rev' \in Rev \ {rev}
    /\ UNCHANGED <<rank, onHand, ledger, status, terms, hold, used, need, lock, local>>

\* The worker dies: its transaction rolls back and its remaining steps are lost.
Crash(p) ==
    /\ CanCrash
    /\ pc[p] # "idle"
    /\ Leave(p, "idle")
    /\ UNCHANGED store

-----------------------------------------------------------------------------

Start(p) ==
    StartPlace(p) \/ StartReceive(p) \/ StartAdjust(p) \/ StartRevalidate(p)
      \/ StartMove(p) \/ StartExpire(p)

\* What a worker does with a request it has begun.
Work(p) ==
    \/ Place(p) \/ Decline(p) \/ Receive(p) \/ Adjust(p) \/ Revalidate(p)
    \/ Consume(p) \/ Swap(p) \/ ReleaseRow(p) \/ ReleaseDone(p)
    \/ RefreshNeed(p) \/ Expire(p)

Next ==
    \/ \E p \in Proc : Start(p) \/ Acquire(p) \/ Work(p) \/ Crash(p)
    \/ \E o \in Order : Claim(o) \/ Unclaim(o)
    \/ EditFit

Spec == Init /\ [][Next]_vars

\* A worker that has begun goes on; the database grants a lock it queues for.
Fairness == \A p \in Proc : WF_vars(Work(p)) /\ SF_vars(Acquire(p))
FairSpec == Spec /\ Fairness

-----------------------------------------------------------------------------
(* Properties                                                              *)

\* The types of the tables, and of what the workers keep.
StoreType ==
    /\ rev \in Rev
    /\ rank \in [Row -> Nat]
    /\ onHand \in [Row -> Nat]
    /\ ledger \in [Row -> Nat]
    /\ status \in [Order -> Status]
    /\ terms \in [Order -> [qty : 0..MaxUnits, site : Site, back : BOOLEAN, rev : Rev]]
    /\ hold \in [Order -> [Row -> Nat]]
    /\ used \in [Order -> Nat]
    /\ need \in [Site -> Nat]
WorkerType ==
    /\ lock \in [Row -> Proc \cup {NoProc}]
    /\ pc \in [Proc -> Step]
    /\ req \in [Proc -> Request]
    /\ seenOn \in [Proc -> [Row -> Nat]]
    /\ seenHeld \in [Proc -> [Row -> Nat]]
TypeOK == StoreType /\ WorkerType

\* No oversell: the units orders hold in a row are in stock there, whatever
\* placements, receipts, stocktakes, revalidations and deliveries race.
NoOversell == \A r \in Row : Held(r) <= onHand[r]

\* No lost update: every balance is the sum of its row's ledger lines.
LedgerExplains == ledger = onHand

\* What a worker read under its row locks is good until it commits: balances
\* have not moved, and others can only have given holds back.
ReadsStayGood ==
    \A p \in Proc, r \in Row :
        lock[r] = p => seenOn[p][r] = onHand[r] /\ Held(r) <= seenHeld[p][r]

\* An order never holds and has never received more than it ordered, though a
\* placement, receipts and an expiry all write its reservations.
NeverOverfilled == \A o \in Order : Covered(o) <= terms[o].qty

\* A worker that closed an order and still owes its holds their delivery or release.
Settling(p, o) ==
    /\ pc[p] \in {"locking", "locked", "release"}
    /\ req[p].op = "move"
    /\ req[p].order = o

\* A closed order holds stock only while the worker that closed it settles it.
ClosedReleased ==
    \A o \in Order :
        status[o] \in Closed /\ Total(hold[o]) > 0 => \E p \in Proc : Settling(p, o)

\* The supply need of a location never understates the unfilled units of the
\* orders that wait there.
NeedCoversDemand == \A k \in Site : need[k] >= Demand(k)

\* A delivered or cancelled order stays as it is: a cancel that races an
\* advance never resurrects it, and no receipt reserves stock for it.
ClosedForGood ==
    [][\A o \in Order : status[o] \in Closed =>
          /\ status'[o] = status[o]
          /\ \A r \in Row : hold'[o][r] <= hold[o][r]]_vars

\* Once a member claimed an order its hold is honoured: units leave it only by
\* delivery or cancellation, never by the expiry sweep.
ClaimHonoured ==
    [][\A o \in Order, r \in Row :
          hold'[o][r] < hold[o][r] => status[o] \in {"open"} \cup Closed]_vars

\* Stock leaves a row for an order once, and only as units the order held there.
DeliveredOnce ==
    [][\A o \in Order : used'[o] # used[o] =>
          /\ used[o] = 0
          /\ status[o] = "delivered"
          /\ \A r \in Row : onHand[r] - onHand'[r] = hold[o][r] - hold'[o][r]]_vars

\* A closed order's holds are eventually gone: delivered, or released.
ClosedSettles ==
    \A o \in Order : status[o] \in Closed ~> Total(hold[o]) = 0

\* The inventory implements what the shipyard promises (FitPromise).
Promise == INSTANCE FitPromise WITH stock <- onHand, promised <- hold, got <- used
PromiseKept == Promise!PromiseSpec

\* What the documentation says and the code does not do.

\* models.py: a fit edit never changes what a live order gets.
FrozenManifest ==
    \A o \in Order, r \in Row : hold[o][r] > 0 => r[2] = terms[o].rev

\* supply.py: with every request finished, the need is the demand that waits.
NeedConverges ==
    (\A p \in Proc : pc[p] = "idle") => \A k \in Site : need[k] = Demand(k)
=============================================================================
