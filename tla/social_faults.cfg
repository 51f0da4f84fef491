SPECIFICATION Spec
CONSTANTS
    p1 = p1
    p2 = p2
    n1 = n1
    n2 = n2
    n3 = n3
    Posts = {p1}
    Networks = {n1, n2}
    Registered = {n1, n2}
    ScheduledAt <- OneSchedule
    MaxAttempts = 3
    DrainBatch = 1
    DbFaults = TRUE
    LostReplies = TRUE
    LiveReconcile = TRUE
    MaxCrashes = 2
    NoPost = NoPost
    NoNetwork = NoNetwork
INVARIANTS
    MarkedBeforeDelivery
PROPERTIES
    ImplementsPublication
CHECK_DEADLOCK FALSE
