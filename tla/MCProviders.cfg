SPECIFICATION Spec
CONSTANTS
    q1 = q1
    q2 = q2
    p1 = p1
    p2 = p2
    p3 = p3
    test = test
    live = live
    NoRow = NoRow
    Nobody = Nobody
    Requests = {q1, q2}
    Providers = {p1, p2, p3}
    Slots = {test, live}
    First = {p1, p2}
    Home = test
    MaxOps = 3
\* MaxOps ends the run
CHECK_DEADLOCK FALSE
INVARIANTS
    TypeOK
    OneDefault
    DefaultKept
PROPERTY RequestsEnd
