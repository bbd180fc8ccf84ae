CONSTANTS
    c1 = c1
    c2 = c2
    Calls = {c1, c2}
    MaxRetries = 1
    MinGap = 1
    MaxBackoff = 2
    MaxServerDelay = 3
    RetryAfters = {0, 3, 4}
SPECIFICATION FairSpec
PROPERTIES
    CallEnds
    CancelPrompt
