SPECIFICATION Spec
CONSTANTS
    Ann = Ann
    Users = {Ann}
    Dispatcher = Dispatcher
    Closer = Closer
    Handlers = {h1, h2}
    Callers = {h1, h2, Dispatcher, Closer}
    Events <- Frames
    None = None
    MaxConnections = 1
    BufferSize = 1
    MaxClients = 2
    Sources <- SourcesOfAnn
    NoString = NoString
    Unknown = Unknown
    MaxChanges = 2
    MaxCalls = 3
    MaxFaults = 1
    Faults = {"count", "publish", "connection", "stop"}
INVARIANTS StreamsAccountedFor ToldEverything
PROPERTIES NothingSentOnClosed ClosedStreamsEnd
CHECK_DEADLOCK FALSE
