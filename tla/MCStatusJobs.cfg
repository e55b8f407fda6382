CONSTANTS
    Workers = {w1, w2}
    NoWorker = NoWorker
    Statuses = {unanswered, solved}
    Unanswered = unanswered
    MaxEntries = 4
    MaxFailures = 1
    MaxLosses = 1
    MaxOverruns = 2

SPECIFICATION Spec
INVARIANTS TypeOK JudgedFromTheTruth EverythingConsidered
PROPERTIES NeverBackwards Settles
CHECK_DEADLOCK FALSE
