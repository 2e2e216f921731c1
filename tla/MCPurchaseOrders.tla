-------------------------- MODULE MCPurchaseOrders --------------------------
(***************************************************************************)
(* Small instances of PurchaseOrders for TLC: an order of a hull line and  *)
(* a fit line, a contract that lands less than was ordered, two workers.   *)
(***************************************************************************)
EXTENDS PurchaseOrders, TLC

CONSTANTS o1, o2, hull, fit, other, c1, e1, e2, p1, p2, ann, bob

MCOrderOf == hull :> o1 @@ fit :> o1 @@ other :> o2
MCOrdered == hull :> 2 @@ fit :> 1 @@ other :> 1
MCLanded == c1 :> (hull :> 1 @@ fit :> 1 @@ other :> 0)
MCFits == o1 :> {c1} @@ o2 :> {c1}
MCContextOf == e1 :> c1 @@ e2 :> None
MCCreatorOf == o1 :> ann @@ o2 :> ann
WorkerSymmetry == Permutations(Proc)
=============================================================================
