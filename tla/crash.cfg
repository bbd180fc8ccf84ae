CONSTANTS
    a = a
    b = b
    h1 = h1
    h2 = h2
    Probe = probe
    NoThread = NoThread
    Owned = {a, b}
    NameOf <- OneName
    Targets = {1}
    Values = {5}
    Attrs <- OneAttr
    MarkerAttr <- Attr
    Ids = {1, 2, 3, 4, 5}
    InitZones <- PairZones
    Wants <- PairWants
    Handlers = {h1, h2}
    Registry = TRUE
    DryRun = FALSE
    MaxFaults = 1
    MaxEdits = 1
    MaxCrashes = 1
SPECIFICATION Spec
SYMMETRY Symmetry
INVARIANTS
    TypeOK
    LockInv
    OwnershipInv
    RecordsFailClosed
    DamageQueued
    CacheCoherent
    IndexFresh
PROPERTIES
    ContractSpec
