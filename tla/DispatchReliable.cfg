SPECIFICATION FairSpec
CONSTANTS
    Hosts = {h1, h2}
    NoHost = NoHost
    Meetings = {m1}
    Jobs = {j1, j2}
    NoMeeting = NoMeeting
    MaxConcurrent = 1
    MaxAttempts = 2
    MaxNotify = 2
    MaxLost = 0
    MaxCrashes = 1
INVARIANTS
    OneRecorder
    RecorderOnRecord
    StoppedStaysStopped
PROPERTIES
    ImplementsLease
    Settles
CHECK_DEADLOCK FALSE
