\* Two plans reserve, deliver and close over one stock row that is recounted.
CONSTANTS
  A = A  B = B  m = m  o = o  p1 = p1  p2 = p2
  Plan <- TwoPlans
  PlanOf <- TwoOfA
  Size <- Ones3
  Line <- Keys3
  Row <- Keys1
  Job <- Keys2
  Claim <- Keys3
  User <- Member
  Officer <- NoOfficer
  Underway <- BothUnderway
  Op <- ClaimOps
  Proc <- Workers
  Nobody = Nobody
  MaxUnits = 2
  CanCrash = FALSE
SPECIFICATION Spec
SYMMETRY WorkerSymmetry
\* The system may stop: keys run out and every request is optional.
CHECK_DEADLOCK FALSE
INVARIANT ClaimsWithinBom
PROPERTY OnlyStocktakeShorts
PROPERTY LastDeliveryCloses
PROPERTY DoneHoldsNothing
PROPERTY ClosedGainsNothing
