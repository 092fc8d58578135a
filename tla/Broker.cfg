CONSTANTS
    api = api
    w1 = w1
    w2 = w2
    good = good
    bad = bad
    broken = broken
    action_q = action_q
    Procs = {api, w1, w2}
    Subscribers = {w1, w2}
    OldQueue = TRUE
    MaxPublish = 2
    None = None
    Queues = {action_q}
    DeadLettered = {action_q}
    Workers = {w1, w2}
    Events = {good, bad, broken}
    Malformed = {broken}
    Poison <- PoisonEverywhere
    MaxRetries = 2
    MaxFaults = 2
    Faults = {"handler", "publish", "crash"}
SPECIFICATION BrokerSpec
INVARIANTS NothingLost RetryBudget TopologyReady NothingDiscarded ConsumersKeepQueue
PROPERTIES EventuallySettled StartsEnd
CHECK_DEADLOCK FALSE
