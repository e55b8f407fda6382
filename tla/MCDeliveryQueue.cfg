CONSTANTS
    d1 = d1
    d2 = d2
    Deliveries = {d1, d2}
    Workers = {w1, w2}
    NoWorker = NoWorker
    NoDelivery = NoDelivery
    Items <- MCItems
    MaxAttempts = 3
    BatchLimit = 2
    MaxCrashes = 1
    MaxOverruns = 2

SPECIFICATION Spec
INVARIANTS TypeOK FailedAtTheGap HolderResendsNothing
PROPERTY KeepsPromise
CHECK_DEADLOCK FALSE
