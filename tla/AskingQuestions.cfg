SPECIFICATION FocusSpec
CONSTANTS
    Chats = {c1, c2, c3}
    Turns = {t1, t2, t3}
    FirstTurn = t1
    SecondTurn = t2
    Clicks = {n1, n2}
    FirstClick = n1
    NoTurn = NoTurn
    NoChat = NoChat
    Capacity = 1
    Limit = 4
    MaxIterations = 2
    MaxRetries = 2
    GroqRetries = 2
    MaxFaults = 1
INVARIANTS
    WellFormed
    KeepsContext
    StoredIsShown
    DeletedForgotten
    NewChatServed
PROPERTIES
    TurnsEnd
CHECK_DEADLOCK FALSE
