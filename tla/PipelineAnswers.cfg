SPECIFICATION Spec
CONSTANTS
    Users = {u1}
    Types = {like}
    Keys = {k1, k2}
    NoKey = NoKey
    LikeKeys = {k1}
    Handlers = {h1}
    Workers = {w1}
    None = None
    MaxRetries = 1
    MaxCalls = 4
    MaxFaults = 2
    Faults = {"crash", "reconcile", "withdraw"}
    Serial = TRUE
INVARIANTS AnswerIsCarried
CHECK_DEADLOCK FALSE
