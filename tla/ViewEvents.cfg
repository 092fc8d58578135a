CONSTANTS
    e1 = e1
    e2 = e2
    w1 = w1
    w2 = w2
    r1 = r1
    None = None
    Events = {e1, e2}
    Positive = {e1}
    Workers = {w1, w2}
    Readers = {r1}
    MaxRetries = 1
    TTL = 2
    MaxFaults = 2
SPECIFICATION FairSpec
INVARIANTS AppliedOnce LossesExplained
PROPERTY EventuallySettled
CHECK_DEADLOCK FALSE
