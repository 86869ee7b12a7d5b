SPECIFICATION Spec
CONSTANTS
    q1 = q1
    q2 = q2
    ann = ann
    owner = owner
    admin = admin
    p1 = p1
    p2 = p2
    Modules = Modules
    Tenant = Tenant
    Miss = Miss
    NoKey = NoKey
    NoRole = NoRole
    Requests = {q1, q2}
    Users = {ann}
    Roles = {owner, admin}
    Owner = owner
    Admin = admin
    Perms = {p1, p2}
    Gated = {p2}
    MaxOps = 2
INVARIANTS
    TypeOK
    Fresh
PROPERTY Converges
