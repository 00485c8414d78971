SPECIFICATION Spec
CONSTANTS
    Hosts = {h1, h2}
    NoHost = NoHost
    Meetings = {m1}
    Jobs = {j1, j2}
    NoMeeting = NoMeeting
    MaxConcurrent = 1
    MaxAttempts = 2
    MaxNotify = 2
    MaxLost = 1
    MaxCrashes = 1
SYMMETRY Symmetry
INVARIANTS
    TypeOK
    ClaimExclusive
    JoiningHasRecorder
PROPERTIES
    ForwardOnly
CHECK_DEADLOCK FALSE
