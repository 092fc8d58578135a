SPECIFICATION InteractionSpec
CONSTANTS
    Procs = {p1, p2}
    Users = {u1, u2}
    Types = {like}
    Keys = {k1}
    NoKey = NoKey
    CommentIds = {c1, c2}
    Author = u2
    Admins = {}
    v1 = v1
    v2 = v2
    v3 = v3
    Sessions = {s1, s2, s3}
    Videos = {v1, v2, v3}
    Places = {1, 2}
    End = 3
    VideoAt <- TwoVideosInTurn
    Offers <- SevenOffers
    Nobody = Nobody
    Missing = Missing
    NoVideo = NoVideo
    NoCall = NoCall
INVARIANTS ActionCountsAgree CommentCountAgrees CommentKeysUnique CirclesAreOfInserts
PROPERTIES WithdrawnIsFrozen LedgerSpec
SYMMETRY Symmetry
