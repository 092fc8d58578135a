SPECIFICATION Spec
CONSTANTS
    Ann = Ann
    Bob = Bob
    Cid = Cid
    Users = {Ann, Bob, Cid}
    Pairs <- ThreePairs
    Requests <- ThreePairRequests
    Procs = {p1, p2}
    Keys = {k1}
    NoKey = NoKey
    NoRequest = NoRequest
    MaxSuspended = 1
INVARIANT CountersAgree
PROPERTIES LedgerSpec RequestsEnd
