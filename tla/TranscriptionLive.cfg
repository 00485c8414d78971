SPECIFICATION FairSpec
CONSTANTS
    Hosts = {h1}
    NoHost = NoHost
    Hooks = {k1}
    Jobs = {j1, j2}
    MaxNotify = 1
    MaxTries = 1
    MaxRetries = 1
    MaxLost = 1
    MaxTimeouts = 1
    MaxCrashes = 1
PROPERTIES
    Settles
CHECK_DEADLOCK FALSE
