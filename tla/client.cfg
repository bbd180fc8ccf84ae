CONSTANTS
    c1 = c1
    c2 = c2
    Calls = {c1, c2}
    MaxRetries = 2
    MinGap = 2
    MaxBackoff = 4
    MaxServerDelay = 5
    RetryAfters = {0, 3, 6}
SPECIFICATION Spec
SYMMETRY Symmetry
INVARIANTS
    TypeOK
    SlotsApart
PROPERTIES
    ContractSpec
    RetryNotEarly
