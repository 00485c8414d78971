SPECIFICATION Spec
CONSTANTS
    Hosts = {h1}
    NoHost = NoHost
    Hooks = {k1, k2}
    Jobs = {j1, j2}
    MaxNotify = 2
    MaxTries = 2
    MaxRetries = 0
    MaxLost = 1
    MaxTimeouts = 0
    MaxCrashes = 0
INVARIANTS
    HandedOverOnce
CHECK_DEADLOCK FALSE
