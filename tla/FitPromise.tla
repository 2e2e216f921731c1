----------------------------- MODULE FitPromise -----------------------------
(***************************************************************************)
(* What the shipyard promises its buyers about one fit, with no workers,   *)
(* locks, requests or revisions: a unit in stock is promised to at most    *)
(* one order, a promise is withdrawn or kept, and only promised units are  *)
(* delivered.                                                              *)
(***************************************************************************)
EXTENDS Totals

CONSTANTS Row, Order
VARIABLES stock, promised, got

promise == <<stock, promised, got>>
Promised(r) == Total([o \in Order |-> promised[o][r]])
Kept == \A r \in Row : Promised(r) <= stock[r]

Opening ==
    /\ stock = [r \in Row |-> 0]
    /\ promised = [o \in Order |-> [r \in Row |-> 0]]
    /\ got = [o \in Order |-> 0]

\* Stock is received, recounted or moved and units are promised, within stock.
Supply ==
    /\ \A o \in Order, r \in Row : promised'[o][r] >= promised[o][r]
    /\ Kept'
    /\ UNCHANGED got

\* An order gives units back: they stay in stock.
Withdraw(o) ==
    /\ \A r \in Row : promised'[o][r] <= promised[o][r]
    /\ \A q \in Order \ {o} : promised'[q] = promised[q]
    /\ UNCHANGED <<stock, got>>

\* An order gets units it was promised: they leave the stock with the promise.
Deliver(o) ==
    LET out == [r \in Row |-> promised[o][r] - promised'[o][r]]
    IN /\ \A r \in Row : out[r] >= 0 /\ stock'[r] = stock[r] - out[r]
       /\ \A q \in Order \ {o} : promised'[q] = promised[q]
       /\ got' = [got EXCEPT ![o] = got[o] + Total(out)]

Honour == Supply \/ \E o \in Order : Withdraw(o) \/ Deliver(o)
PromiseSpec == Opening /\ [][Honour]_promise
=============================================================================
