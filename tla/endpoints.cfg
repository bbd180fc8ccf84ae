CONSTANTS
    Names = {"x", "y"}
    Types = {"A", "AAAA", "TXT"}
    MaxPlanned = 4
    x = x
    Owned = {x}
    Targets = {1, 2}
    Values = {5}
    Attrs <- AnyAttrs
    Ids = {1, 2, 3, 4, 5}
    Floor = 600
    Unreadable = Unreadable
    PlainType = 1
    AliasType = 2
    WantedTTLs = {0, 900}
    ViewZones <- SmallZones
    ViewFaults = 1
    Labels = {"com", "a", "mid", "over", "long", "*"}
    Star = "*"
    PrefixLabel = "prefix"
    WildcardLabel = "wild"
    Size <- MCSize
    MaxLabel = 63
    MaxName = 253
    Zone <- MCZone
    Bases <- MCBases
    MaxLabels = 4
    NumberSpace = 65536
    Numbers = {0, 65535, 65536}
    Layers = 2
    NoText = NoText
SPECIFICATION EndpointsSpec
CHECK_DEADLOCK FALSE
INVARIANTS
    RegistryPaired
    ProtectedSound
    ViewOrderFree
    NoHiddenDrift
    NeverRejected
    PlannedAccepted
    MarkersAccepted
    TargetsStable
PROPERTIES
    Settles
