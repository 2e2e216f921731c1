\* Fit edits, receipts, revalidations, deliveries and cancellations over two
\* revisions of the fit.  Workers that have begun go on; no symmetry, which
\* liveness forbids.
CONSTANTS
  a = a  v = v  w = w  p1 = p1  p2 = p2
  Loc <- OneLoc
  AnyLoc = AnyLoc
  Dest <- OneLoc
  Rev <- TwoRevs
  Order <- Orders1
  Op <- Trading
  Proc <- Workers
  NoProc = NoProc
  MaxUnits = 1
  CanCrash = FALSE
SPECIFICATION FairSpec
\* The system may stop: every order key used and the stock at its bound.
CHECK_DEADLOCK FALSE
INVARIANT NeverOverfilled
INVARIANT ClosedReleased
PROPERTY PromiseKept
PROPERTY ClosedSettles
