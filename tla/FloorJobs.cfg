\* One job through every request of the board, a member and an officer.
CONSTANTS
  A = A  B = B  m = m  o = o  p1 = p1  p2 = p2
  Plan <- OnePlan
  PlanOf <- AllOfA
  Size <- One
  Line <- Keys1
  Row <- Keys1
  Job <- Keys1
  Claim <- Keys1
  User <- WithOfficer
  Officer <- TheOfficer
  Underway <- NoneUnderway
  Op <- JobOps
  Proc <- Workers
  Nobody = Nobody
  MaxUnits = 2
  CanCrash = TRUE
SPECIFICATION Spec
SYMMETRY WorkerSymmetry
\* The system may stop: keys run out and every request is optional.
CHECK_DEADLOCK FALSE
INVARIANT TypeOK
PROPERTY OwnerKeeps
PROPERTY OnlyRechecksReopen
