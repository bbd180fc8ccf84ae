CONSTANTS
    a = a
    h1 = h1
    Probe = probe
    NoThread = NoThread
    Owned = {a}
    NameOf <- OwnNames
    Targets = {1}
    Values = {5}
    Attrs <- OneAttr
    MarkerAttr <- Attr
    Ids = {1, 2, 3}
    InitZones <- EmptyZone
    Wants <- OneWant
    Handlers = {h1}
    Registry = TRUE
    DryRun = FALSE
    MaxFaults = 1
    MaxEdits = 0
    MaxCrashes = 0
SPECIFICATION LateSpec
INVARIANT CreatesOwned
