--------------------------- MODULE MCFitInventory ---------------------------
(* Small instances of FitInventory for TLC. *)
EXTENDS FitInventory, TLC

CONSTANTS a, v, w, p1, p2
OneLoc == {a}
OneRev == {v}
TwoRevs == {v, w}
Orders1 == {1}
Orders2 == {1, 2}
AllOps == {"place", "receive", "adjust", "revalidate", "move", "expire",
           "force_backorder", "no_auto_allocate"}
Trading == {"place", "receive", "revalidate", "move", "expire"}
Selling == Trading \ {"revalidate"}
OneWorker == {p1}
Workers == {p1, p2}

\* Workers are interchangeable.
WorkerSymmetry == Permutations(Workers)
=============================================================================
