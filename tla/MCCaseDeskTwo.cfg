CONSTANTS
    t1 = t1
    ann = ann
    c1 = c1
    c2 = c2
    Cases = {c1, c2}
    Teams = {t1}
    Queue = Queue
    Users = {ann}
    MemberOf <- MCMemberOfAnn
    QueueAdmins = {ann}
    NoUser = NoUser
    NoTeam = NoTeam
    p1 = p1
    p2 = p2
    Pages = {p1, p2}
    NoCase = NoCase
    MaxEntries = 2
    MaxPending = 3

SPECIFICATION Spec
PROPERTY LatestHandoffPasses
CHECK_DEADLOCK FALSE
SYMMETRY Swaps
