CONSTANTS
    c1 = c1
    d1 = d1
    d2 = d2
    Messages = {c1, d1, d2}
    Side <- MCSide
    Quoting = {c1, d1}
    WithImage = {d1}
    Nothing = Nothing
    MaxCrashes = 1
    MaxRepeats = 1
    MaxFaults = 1

SPECIFICATION Spec
INVARIANT NoSecondActive
CHECK_DEADLOCK FALSE
