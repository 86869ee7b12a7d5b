SPECIFICATION Spec
CONSTANTS
    h1 = h1
    h2 = h2
    s1 = s1
    s2 = s2
    basic = basic
    pro = pro
    e1 = e1
    e2 = e2
    c1 = c1
    c2 = c2
    i1 = i1
    NoRow = NoRow
    NoStripe = NoStripe
    NoPlan = NoPlan
    NoInvoice = NoInvoice
    Handlers = {h1, h2}
    SubIds = {s1, s2}
    Plans = {basic, pro}
    StripeSubs = {e1, e2}
    Changes = {c1, c2}
    Invoices = {i1}
    Total = 2
    MaxOps = 3
CHECK_DEADLOCK FALSE
INVARIANT PaidOnce
