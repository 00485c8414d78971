SPECIFICATION FocusSpec
CONSTANTS
    Orders = {o1, o2}
    FirstOrder = o1
    Handlers = {h1, h2}
    FirstHandler = h1
    Free = free
    Pro = pro
    Team = team
    Period = 2
    MaxTime = 3
    MaxPaymentTime = 2
    MaxFaults = 1
    Requests = {q1, q2}
    LaterRequest = q2
    Month = 2
    NoLimit = NoLimit
    Limits <- LimitsHere
    Scopes = {"chat"}
    RateAllowance = 1
    Window = 2
    MaxNow = 4
    MaxRequests = 5
    MaxOutages = 1
INVARIANTS
    PaidPlanOnly
    NotTwice
    PaidForIsServed
    RateHeld
PROPERTIES
    WithinAllowance
    PaidDelivered
CHECK_DEADLOCK FALSE
