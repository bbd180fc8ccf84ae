CONSTANTS
    a = a
    b = b
    h1 = h1
    h2 = h2
    Probe = probe
    NoThread = NoThread
    Owned = {a}
    NameOf <- OwnNames
    Targets = {1, 2}
    Values = {5, 6}
    Attrs <- AllAttrs
    MarkerAttr <- Attr
    Ids = {1, 2, 3, 4, 5, 6}
    InitZones <- DriftZones
    Wants <- DriftWants
    Handlers = {h1, h2}
    Registry = TRUE
    DryRun = TRUE
    MaxFaults = 1
    MaxEdits = 1
    MaxCrashes = 0
SPECIFICATION Spec
SYMMETRY Symmetry
INVARIANTS
    AppliedWhenDone
PROPERTIES
    DryRunReadOnly
