SPECIFICATION FocusSpec
CONSTANTS
    Hosts = {h1, h2}
    FirstHost = h1
    Meetings = {m1, m2}
    FirstMeeting = m1
    Google = google
    Zoom = zoom
    NoHost = NoHost
    MaxConcurrent = 1
    TTL = 1
    ReserveFor = 1
    MaxFaults = 1
    MaxExpiries = 2
INVARIANTS
    TypeOK
    NoSlotTwice
    KeysExpire
PROPERTIES
    DeadHostSkipped
    Placed
    HealthFollows
CHECK_DEADLOCK FALSE
