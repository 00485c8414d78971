SPECIFICATION ContendedSpec
CONSTANTS
    Hosts = {h1}
    NoHost = NoHost
    Meetings = {m1, m2}
    Jobs = {j1, j2}
    NoMeeting = NoMeeting
    MaxConcurrent = 1
    MaxAttempts = 3
    MaxNotify = 1
    MaxLost = 0
    MaxCrashes = 0
PROPERTIES
    LeavesQueue
CHECK_DEADLOCK FALSE
