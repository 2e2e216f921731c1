\* Runs one at a time, one of which may die; an officer, builders, stock and
\* demand that move under them.
CONSTANTS
    hull = hull  part = part  ore = ore
    Type <- Chain
    Ships = {hull}
    Traded = {part}
    Level <- ChainLevel
    Uses <- ChainUses
    Built = {hull, part}
    Made = {part}
    Job = {1, 2}
    Gen = {1, 2}
    beat = beat  hand = hand  ann = ann
    Runner = {beat}
    Officer = {ann}
    None = None
    MaxDemand = 1
    MaxStock = 2
    MayOutlive = FALSE
SPECIFICATION FairSpec
PROPERTY Converges
INVARIANTS
    TypeOK PlanExact VehiclesFit OneVehicle
