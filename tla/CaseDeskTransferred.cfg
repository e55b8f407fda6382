CONSTANTS
    t1 = t1
    t2 = t2
    ann = ann
    bea = bea
    dev = dev
    Cases = {c1}
    Teams = {t1, t2}
    Queue = Queue
    Users = {ann, bea, dev}
    MemberOf <- MCMemberOf
    QueueAdmins = {bea}
    NoUser = NoUser
    NoTeam = NoTeam
    Pages = {p1}
    NoCase = NoCase
    MaxEntries = 4
    MaxPending = 3

SPECIFICATION Spec
PROPERTY PushedToResponsibleTeam
CHECK_DEADLOCK FALSE
