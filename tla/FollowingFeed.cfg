SPECIFICATION Spec
CONSTANTS
    Users = {1, 2}
    Prolific = Prolific
    Novice = Novice
    Authors = {Prolific, Novice}
    Videos = {1, 2, 3}
    AuthorOf <- TwoOfProlific
    Handlers = {h1, h2}
    Workers = {w1}
    None = None
    BigCreator = 2
    BatchSize = 1
    InboxMax = 2
    OutboxMax = 2
    BackfillMax = 2
    Start <- StartSecond
    MaxCalls = 2
    MaxFaults = 1
    Faults = {"backfill", "remove", "announce", "withdraw", "again", "dead", "expire"}
SYMMETRY HandlersAlike
INVARIANTS CoveredIsIndexed
CHECK_DEADLOCK FALSE
