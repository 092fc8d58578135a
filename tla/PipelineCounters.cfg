SPECIFICATION FairSpec
CONSTANTS
    Users = {u1, u2}
    Types = {like}
    Keys = {}
    NoKey = NoKey
    LikeKeys = {}
    Handlers = {h1, h2}
    Workers = {w1}
    None = None
    MaxRetries = 1
    MaxCalls = 2
    MaxFaults = 3
    Faults = {"crash", "expire", "withdraw", "interrupt", "publish", "requeue", "db", "reconcile"}
    Serial = FALSE
INVARIANTS DrainedCountersMatch
PROPERTIES EventuallyDrained
CHECK_DEADLOCK FALSE
