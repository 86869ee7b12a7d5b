SPECIFICATION Spec
CONSTANTS
    r1 = r1
    r2 = r2
    r3 = r3
    r4 = r4
    k1 = k1
    A = A
    B = B
    NoRequest = NoRequest
    Requests = {r1, r2, r4}
    Keys = {k1}
    KeyOf <- MCKeyOf
    Payloads = {A, B}
    PayloadOf <- MCPayloadOf
    MaxFaults = 0
CHECK_DEADLOCK FALSE
INVARIANT ReplayIsOfOwner
