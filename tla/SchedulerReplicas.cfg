SPECIFICATION EitherSpec
CONSTANTS
    Replicas = {r1, r2}
    SecondReplica = r2
    Meetings = {m1, m2}
    SecondMeeting = m2
    Events = {e1}
    Requests = {q1, q2}
    SecondRequest = q2
    Starts = {1, 2}
    Links = {l1}
    NoMeeting = NoMeeting
    NoEvent = NoEvent
    NoLink = NoLink
    NoTime = NoTime
    Lead = 1
    Grace = 1
    MaxTime = 3
    MaxEdits = 1
    MaxLost = 1
    MaxCrashes = 1
INVARIANTS
    NoClaimForgotten
    AskedOnce
    OneBookingPerEvent
    StopHolds
PROPERTIES
    InTheWindow
    Settles
CHECK_DEADLOCK FALSE
