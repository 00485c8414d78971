SPECIFICATION Spec
CONSTANTS
    Hosts = {h1}
    NoHost = NoHost
    Hooks = {k1, k2}
    Jobs = {j1, j2}
    MaxNotify = 2
    MaxTries = 2
    MaxRetries = 1
    MaxLost = 0
    MaxTimeouts = 1
    MaxCrashes = 1
SYMMETRY Symmetry
INVARIANTS
    ClaimHasWork
    HandedOverOnce
    ResumeNotRestart
    CompletedIndexedOrNoted
PROPERTIES
    KeepsLastCopy
CHECK_DEADLOCK FALSE
