CONSTANTS
    a = a
    b = b
    h1 = h1
    h2 = h2
    Probe = probe
    NoThread = NoThread
    Owned = {a}
    NameOf <- OwnNames
    Targets = {1, 2}
    Values = {5, 6}
    Attrs <- AllAttrs
    MarkerAttr <- Attr
    Ids = {1, 2, 3, 4, 5, 6}
    InitZones <- DriftZones
    Wants <- DriftWants
    Handlers = {h1}
    Registry = TRUE
    DryRun = FALSE
    MaxFaults = 2
    MaxEdits = 1
    MaxCrashes = 0
SPECIFICATION FairSpec
INVARIANTS
    RecordsFailClosed
    DamageQueued
    AppliedWhenDone
PROPERTIES
    KeptTargets
    PendingDrained
    Converged
