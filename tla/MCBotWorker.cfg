CONSTANTS
    w1 = w1
    w2 = w2
    m1 = m1
    f1 = f1
    None = None
    Workers = {w1, w2}
    Frames = {f1}
    Broken = {f1}
    Msgs = {m1}
    Retries = 2
    MaxFaults = 2

SPECIFICATION Spec
INVARIANTS TypeOK
PROPERTIES ConnectionSettles FrameEnds KeepsPromise DecisionStands
CHECK_DEADLOCK FALSE
