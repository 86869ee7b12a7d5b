SPECIFICATION Spec
CONSTANTS
    r1 = r1
    r2 = r2
    r3 = r3
    ann = ann
    bob = bob
    t1 = t1
    t2 = t2
    t3 = t3
    i1 = i1
    k1 = k1
    NoRow = NoRow
    NoEmail = NoEmail
    NoToken = NoToken
    NoInvite = NoInvite
    NoKey = NoKey
    Requests = {r1, r2, r3}
    Emails = {ann, bob}
    Tokens = {t1, t2, t3}
    Invites = {i1}
    Keys = {k1}
    MaxOps = 5
SYMMETRY Symmetry
\* MaxOps ends the run
CHECK_DEADLOCK FALSE
INVARIANTS
    TypeOK
    SingleSession
    TokenSpentOnce
    DeletedStaysOut
    InvitationHonest
    RevokedForGood
