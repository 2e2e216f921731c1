\* Every request of the shipyard, two workers that may die, two orders, one row.
CONSTANTS
  a = a  v = v  w = w  p1 = p1  p2 = p2
  Loc <- OneLoc
  AnyLoc = AnyLoc
  Dest <- OneLoc
  Rev <- OneRev
  Order <- Orders2
  Op <- AllOps
  Proc <- Workers
  NoProc = NoProc
  MaxUnits = 1
  CanCrash = TRUE
SPECIFICATION Spec
SYMMETRY WorkerSymmetry
\* The system may stop: every order key used and the stock at its bound.
CHECK_DEADLOCK FALSE
INVARIANT TypeOK
INVARIANT ReadsStayGood
INVARIANT NoOversell
INVARIANT LedgerExplains
INVARIANT NeedCoversDemand
PROPERTY ClosedForGood
PROPERTY ClaimHonoured
PROPERTY DeliveredOnce
