\* Two drainers, two events (one without a connector), batches of two, retries; two
\* statements fail or drainers crash.
CONSTANTS
    e1 = e1
    e2 = e2
    d1 = d1
    d2 = d2
    Events = {e1, e2}
    Known = {e1}
    Drainers = {d1, d2}
    BatchSize = 2
    MaxAttempts = 2
    MaxMishaps = 2
    NoEvent = NoEvent
SPECIFICATION FairSpec
INVARIANTS FailedAtTheBound
PROPERTIES EventSettles ImplementsInbox
\* The system is quiet once every event is settled and no request is under way.
CHECK_DEADLOCK FALSE
