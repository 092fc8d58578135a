SPECIFICATION Spec
CONSTANTS
    Videos <- TwoVideos
    Keys = {k1}
    NoKey = NoKey
    Profiles = {old, new}
    FirstProfile = old
    NoCard = NoCard
    CardLife = 2
    Procs = {1, 2}
    NoVideo = NoVideo
    MaxChanges = 2
    MaxPage = 1
    MaxFaults = 1
INVARIANTS KeyNamesOneVideo ChangesReachCards
PROPERTY CardsSettle
