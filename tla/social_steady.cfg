SPECIFICATION FairSpec
CONSTANTS
    p1 = p1
    p2 = p2
    n1 = n1
    n2 = n2
    n3 = n3
    Posts = {p1, p2}
    Networks = {n1, n2, n3}
    Registered = {n1, n2}
    ScheduledAt <- TwoSchedules
    MaxAttempts = 2
    DrainBatch = 1
    DbFaults = FALSE
    LostReplies = FALSE
    LiveReconcile = TRUE
    MaxCrashes = 1
    NoPost = NoPost
    NoNetwork = NoNetwork
INVARIANTS
    NoAbandonWithOrphan
    CrashesPayForDoubles
PROPERTIES
    SentIsFinal
    QueuedPostSettles
CHECK_DEADLOCK FALSE
