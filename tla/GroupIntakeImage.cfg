CONSTANTS
    first = first
    confirm = confirm
    both = both
    Messages = {first, confirm, both}
    Initial = first
    Confirming = {confirm, both}
    WithText = {first, both}
    Nothing = Nothing
    MaxCrashes = 1
    MaxFaults = 1
    MaxFailures = 1
    MaxRebinds = 1
    MaxRepeats = 1

SPECIFICATION Spec
INVARIANT IssueKeepsImage
CHECK_DEADLOCK FALSE
