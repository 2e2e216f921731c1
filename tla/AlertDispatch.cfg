CONSTANTS
    alert = alert  w1 = w1  w2 = w2  ann = ann
    Alert = {alert}
    Channel = {1, 2}
    Worker = {w1, w2}
    Officer = {ann}
    None = None
    Calendar = {alert}
    MaxAttempts = 2
    Acts = {"cancel", "approve", "retry"}
    MaxCrashes = 1
    MaxRequests = 1
SPECIFICATION FairSpec
INVARIANTS
    DeliveredOnce AttemptsCapped StatusTells
PROPERTY
    QueuedSettles
\* Alerts end.
CHECK_DEADLOCK FALSE
