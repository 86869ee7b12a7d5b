SPECIFICATION Spec
CONSTANTS
    q1 = q1
    q2 = q2
    q3 = q3
    c1 = c1
    c2 = c2
    k1 = k1
    p1 = p1
    p2 = p2
    NoPeriod = NoPeriod
    NoSale = NoSale
    Sellers = {q1}
    Cancellers = {c1}
    Closers = {k1}
    Periods = {p1}
    Limit = 2
    Capped = TRUE
    MaxChanges = 0
    MaxFaults = 1
CHECK_DEADLOCK FALSE
PROPERTY CancelledNotCounted
