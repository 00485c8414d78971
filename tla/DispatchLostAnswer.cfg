SPECIFICATION Spec
CONSTANTS
    Hosts = {h1, h2}
    NoHost = NoHost
    Meetings = {m1}
    Jobs = {j1, j2}
    NoMeeting = NoMeeting
    MaxConcurrent = 1
    MaxAttempts = 2
    MaxNotify = 2
    MaxLost = 1
    MaxCrashes = 0
INVARIANTS
    StoppedStaysStopped
CHECK_DEADLOCK FALSE
