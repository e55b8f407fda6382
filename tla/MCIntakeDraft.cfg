CONSTANTS
    message = message
    d1 = d1
    d2 = d2
    i1 = i1
    i2 = i2
    Messages = {message}
    Requests = 2
    Drafts = {d1, d2}
    Images = {i1, i2}
    Workbench = Workbench
    MaxCallbacks = 2
    MaxFaults = 1

SPECIFICATION Spec
INVARIANTS TypeOK OneIssuePerMessage IssueKeepsImages ConfirmedLeadsToIssue
PROPERTIES ExpiredGoes
CHECK_DEADLOCK FALSE
