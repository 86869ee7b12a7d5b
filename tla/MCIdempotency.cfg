SPECIFICATION FairSpec
CONSTANTS
    r1 = r1
    r2 = r2
    r3 = r3
    r4 = r4
    k1 = k1
    A = A
    B = B
    NoRequest = NoRequest
    Requests = {r1, r2, r3, r4}
    Keys = {k1}
    KeyOf <- MCKeyOf
    Payloads = {A, B}
    PayloadOf <- MCPayloadOf
    MaxFaults = 1
\* every request answered, the record cleaned up: nothing is left to do
CHECK_DEADLOCK FALSE
INVARIANTS
    TypeOK
    AtMostOnce
    ReplayIsHonest
    SuccessIsRemembered
PROPERTY KeyFreed
