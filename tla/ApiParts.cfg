SPECIFICATION PartsSpec
CONSTANTS
    Readers = {1, 2}
    Ids = {1, 2, 3}
    Times = {1, 2}
    Limit = 1
    NoPage = NoPage
    MaxChanges = 1
    MaxFaults = 1
    Catalog = {1, 2, 3, 4}
    AuthorOf <- Authors
    PublishedAt <- Ages
    Heats <- TwoHeats
    Tastes = {{}, {1}}
    Limits = {1, 3}
    PoolMultiplier = 2
    MinPool = 3
    MaxPool = 4
    WeekTicks = 1
    Fresh = 2
    Never = Never
    NoCandidate = NoCandidate
    MaxTicks = 3
    MaxMoves = 2
    HotVideos = {1, 2}
    HotReaders = {1, 2}
    HotMinutes = {0, 1}
    WindowLength = 2
    HotLimit = 1
    NoWindow = NoWindow
    MaxScores = 2
    MaxLosses = 1
    Uploads = {u1, u2}
    Files <- SomeFiles
    NoFile = NoFile
    MaxMishaps = 2
    Clips = {1, 2, 3}
    Models = {old, new}
    Model = new
    BatchSize = 2
    MaxErrors = 1
    Likers = {l1, l2}
    Commenters = {c1}
    Viewers = {v1}
    NoStat = NoStat
    MaxActions = 3
    MaxMisses = 1
    Reels = {1, 2, 3}
    PlayTimes = {1, 2}
    ConfigTables <- SomeTables
    Networks = {"DEFAULT", "WiFi", "4G"}
    Reporters = {r1, r2}
    ReportKeys = {key}
    NoReportKey = NoReportKey
    MaxReels = 2
    MaxBreaks = 1
    Guests = {g1, g2}
    Spellings = {"", "Ann", "ann", "Bob"}
    SameAs <- OneAccount
    Passwords = {"", "one", "two", "long"}
    LongPassword = "long"
    AccessTTL = 1
    NoToken = NoToken
    MaxClock = 1
    MaxVisits = 3
    MaxSlips = 1
    LimitKinds <- LoginAndRegistration
    IdleTTL = 3
    NoVisitor = NoVisitor
    MaxTime = 9
INVARIANTS
    ListsShownOnce PageLoadedOnce RecommendedOnce AuthorsAlternate HotPagesAgree
    CountsSettle UploadsSettle RebuildCovers KeysNameOneRow AdmissionsBounded
CHECK_DEADLOCK FALSE
