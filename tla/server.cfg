CONSTANTS
    r1 = r1
    r2 = r2
    Requests = {r1, r2}
    ProbeTimeout = 2
    Period = 3
    Grace = 6
    CacheTTL = 4
SPECIFICATION FairSpec
CHECK_DEADLOCK FALSE
INVARIANTS
    GracefulEnd
    StopsInTime
    NeverHalfServing
    CleanExit
    RedInTime
PROPERTIES
    ProbeGivesWay
    ReadyRecovers
