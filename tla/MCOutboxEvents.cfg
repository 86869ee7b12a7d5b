SPECIFICATION FairSpec
CONSTANTS
    w1 = w1
    w2 = w2
    t1 = t1
    e1 = e1
    d1 = d1
    s1 = s1
    NoItem = NoItem
    Events = {e1}
    Deliveries = {d1}
    Subs = {s1}
    SubOf <- MCSubOf
    Listens <- MCListens
    Workers = {w1, w2}
    Tasks = {}
    TaskSessions = {}
    MaxAttempts = 2
    PingAttempts = 2
    BatchSize = 2
    MaxFaults = 1
    MaxOverruns = 1
\* every event settled and the faults used up: nothing is left to do
CHECK_DEADLOCK FALSE
INVARIANTS
    TypeOK
    ExclusiveClaim
    RepeatsAccounted
    AttemptsAccounted
    NoStrandedEvent
PROPERTIES
    ImplementsQueue
    AttemptsNeverDecrease
    EventsSettle
    DeliveriesSettle
