CONSTANTS
    dev = dev
    queueTeam = queueTeam
    alice = alice
    bob = bob
    g1 = g1
    g2 = g2
    g3 = g3
    None = None
    Users = {alice, bob}
    Teams = {dev, queueTeam}
    Chats = {g1, g2, g3}
    InitialAdmin = alice
    MaxEdits = 2
    KindOf <- MCKindOf
    LastMinute = 2
    MaxEvents = 1

SPECIFICATION Spec
INVARIANTS TypeOK OneGroup ToldOnce OwnGroup
PROPERTIES LastAdminStays Served
CHECK_DEADLOCK FALSE
