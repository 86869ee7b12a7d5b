SPECIFICATION FairSpec
CONSTANTS
    w1 = w1
    w2 = w2
    t1 = t1
    e1 = e1
    d1 = d1
    s1 = s1
    NoItem = NoItem
    Events = {}
    Deliveries = {d1}
    Subs = {s1}
    SubOf <- MCSubOf
    Listens <- MCListens
    Workers = {w1, w2}
    Tasks = {t1}
    TaskSessions = {"open", "closed"}
    MaxAttempts = 2
    PingAttempts = 3
    BatchSize = 2
    MaxFaults = 2
    MaxOverruns = 1
\* the subscription deleted and the faults used up: nothing is left to do
CHECK_DEADLOCK FALSE
INVARIANT RepeatsAccounted
PROPERTIES
    ImplementsQueue
    DeliveriesSettle
