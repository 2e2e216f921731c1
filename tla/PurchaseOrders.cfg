CONSTANTS
    o1 = o1  o2 = o2
    hull = hull  fit = fit  other = other
    c1 = c1  e1 = e1  e2 = e2  p1 = p1  p2 = p2  ann = ann  bob = bob
    Order = {o1, o2}
    Line = {hull, fit, other}
    Contract = {c1}
    Entry = {e1, e2}
    OrderOf <- MCOrderOf
    Ordered <- MCOrdered
    FitLine = {fit}
    Landed <- MCLanded
    Fits <- MCFits
    ContextOf <- MCContextOf
    None = None
    Officer = {ann, bob}
    Director = {bob}
    CreatorOf <- MCCreatorOf
    Dear = {o2}
    UnderAgreement = {o1, o2}
    Cycle = 3
    Batch = {1}
    Proc = {p1, p2}
SPECIFICATION Spec
SYMMETRY WorkerSymmetry
INVARIANTS
    ReceivedOnce EvidenceCloses
\* Orders end.
CHECK_DEADLOCK FALSE
