SPECIFICATION Spec
CONSTANTS
    Hosts = {h1}
    NoHost = NoHost
    Hooks = {k1}
    Jobs = {j1, j2}
    MaxNotify = 1
    MaxTries = 1
    MaxRetries = 1
    MaxLost = 0
    MaxTimeouts = 0
    MaxCrashes = 0
INVARIANTS
    OneIndex
CHECK_DEADLOCK FALSE
