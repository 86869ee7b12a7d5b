SPECIFICATION Spec
CONSTANTS
    q1 = q1
    q2 = q2
    q3 = q3
    c1 = c1
    c2 = c2
    k1 = k1
    p1 = p1
    p2 = p2
    NoPeriod = NoPeriod
    NoSale = NoSale
    Sellers = {q1, q2, q3}
    Cancellers = {c1, c2}
    Closers = {k1}
    Periods = {p1, p2}
    Limit = 2
    Capped = TRUE
    MaxChanges = 2
    MaxFaults = 1
SYMMETRY RequestSymmetry
\* every request is answered: nothing is left to do
CHECK_DEADLOCK FALSE
INVARIANTS
    TypeOK
    CounterHonest
    QuotaRespected
    SalesReported
    CancellationReportedOnce
