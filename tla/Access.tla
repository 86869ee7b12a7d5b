------------------------------- MODULE Access -------------------------------
(***************************************************************************)
(* What the users of one tenant may do, and the cache that answers for it: *)
(* the permissions of every user (core/permissions.py), the modules of the *)
(* tenant (core/module_registry.py) and the tenant itself                  *)
(* (core/tenant_context.py), read through Redis (core/cache.py).           *)
(*                                                                         *)
(* A request that misses asks the database and stores the answer later.    *)
(* An operation that changes the database deletes entries: after its       *)
(* commit (tenant_app/roles.py, users.py, billing.py), in the listeners    *)
(* that the ORM calls during the flush, before the commit (models.py), in  *)
(* both places, or nowhere (accept_invitation).  Deletions that fail are   *)
(* ignored, and so is a request that dies on its way.                      *)
(***************************************************************************)
EXTENDS Integers, FiniteSets

CONSTANTS
    Requests,    \* requests in progress at a time
    Users,       \* users of the tenant; the key of a user's entry
    Roles,       \* rows of tenant_roles
    Owner,       \* the role named owner
    Admin,       \* the role named admin
    Perms,       \* permissions, of those that a new tenant's admin has and of modules
    Gated,       \* those of a module
    Modules,     \* key of the entry of the tenant's modules
    Tenant,      \* key of the entry of the tenant
    MaxOps,      \* bound: operations that change the database
    Miss,        \* no entry
    NoKey, NoRole

Keys == Users \cup {Modules, Tenant}

ASSUME ConstantsAssumption ==
    /\ Owner \in Roles /\ Admin \in Roles /\ Gated \subseteq Perms
    /\ Modules \notin Users /\ Tenant \notin Users /\ Modules # Tenant
    /\ NoKey \notin Keys /\ NoRole \notin Roles
    /\ Modules \notin Perms /\ Tenant \notin Perms
    /\ \A S \in SUBSET (Perms \cup {Modules, Tenant}) : S # Miss
    /\ MaxOps \in Nat

VARIABLES
    roles,      \* the roles that exist
    assigned,   \* the roles of each user
    grants,     \* the permissions of each role
    paid,       \* a subscription with the module is active
    open,       \* the tenant's status is active or trial
    cache,      \* the entries in Redis
    tx,         \* requests in progress
    ops,        \* operations begun so far
    excused     \* history: entries that may be out of date, for a reason named below

db   == <<roles, assigned, grants, paid, open>>
vars == <<db, cache, tx, ops, excused>>

\* What an entry may grant: a permission, the use of the module, that of the tenant.
Rights == Perms \cup {Modules, Tenant}

\* What the database answers for a key.
Truth(k) ==
    IF k = Modules THEN {m \in {Modules} : paid}
    ELSE IF k = Tenant THEN {t \in {Tenant} : open}
    ELSE IF Owner \in assigned[k] THEN Perms
    ELSE {p \in Perms : \E r \in assigned[k] : p \in grants[r]}

Ops == {"none", "fill", "user", "accept", "grant", "withdraw", "rename", "drop",
        "tenant", "billing", "invoice", "stripe"}

Stages == {"begun", "flushed", "listing", "deleting"}

Tx == [op : Ops, stage : Stages, key : Keys \cup {NoKey}, role : Roles \cup {NoRole},
       value : {Miss} \cup SUBSET Rights, late : BOOLEAN,
       old : SUBSET (Roles \cup Perms), new : SUBSET (Roles \cup Perms),
       paid : BOOLEAN, open : BOOLEAN, after : SUBSET Keys]

Idle == [op |-> "none", stage |-> "begun", key |-> NoKey, role |-> NoRole,
         value |-> Miss, late |-> FALSE, old |-> {}, new |-> {},
         paid |-> FALSE, open |-> FALSE, after |-> {}]

\* What create_tenant leaves, with users that were created with some of its roles.
Init ==
    /\ roles = Roles
    /\ assigned \in [Users -> SUBSET Roles]
    /\ grants = [r \in Roles |-> IF r \in {Owner, Admin} THEN Perms \ Gated ELSE {}]
    /\ paid = FALSE
    /\ open = TRUE
    /\ cache = [k \in Keys |-> Miss]
    /\ tx = [q \in Requests |-> Idle]
    /\ ops = 0
    /\ excused = {}

-----------------------------------------------------------------------------
(* Reading through the cache *)

\* What a request that asks for k is told.
Sees(k) == IF cache[k] = Miss THEN Truth(k) ELSE cache[k]

Holders(r) == {u \in Users : r \in assigned[u]}

\* The entry is not there: require_permission, is_module_enabled_for_tenant and
\* get_current_tenant query the database.
Fetch(q, k) ==
    /\ tx[q].op = "none"
    /\ cache[k] = Miss
    /\ tx' = [tx EXCEPT ![q] = [Idle EXCEPT !.op = "fill", !.key = k, !.value = Truth(k)]]
    /\ UNCHANGED <<db, cache, ops, excused>>

\* The answer is stored, whatever was deleted or committed meanwhile.
Store(q) ==
    LET k == tx[q].key IN
    /\ tx[q].op = "fill"
    /\ cache' = [cache EXCEPT ![k] = tx[q].value]
    /\ excused' = IF tx[q].late THEN excused \cup {k} ELSE excused \ {k}
    /\ tx' = [tx EXCEPT ![q] = Idle]
    /\ UNCHANGED <<db, ops>>

\* Mutant: the permissions are stored without a TTL.
ExpireButUsers(k) ==
    /\ cache[k] # Miss /\ k \notin Users
    /\ cache' = [cache EXCEPT ![k] = Miss]
    /\ excused' = excused \ {k}
    /\ UNCHANGED <<db, tx, ops>>

\* The TTL of an entry ends; reading an entry does not prolong it.
Expire(k) ==
    /\ cache[k] # Miss
    /\ cache' = [cache EXCEPT ![k] = Miss]
    /\ excused' = excused \ {k}
    /\ UNCHANGED <<db, tx, ops>>

-----------------------------------------------------------------------------
(* Operations begin: they read, and decide what they will write.           *)

Begin(q, t) ==
    /\ tx[q].op = "none"
    /\ ops < MaxOps
    /\ ops' = ops + 1
    /\ tx' = [tx EXCEPT ![q] = t]
    /\ UNCHANGED <<db, cache, excused>>

\* update_user replaces the roles of a user by those of R that exist.
UpdateUser(q, u, R) ==
    Begin(q, [Idle EXCEPT !.op = "user", !.key = u, !.old = assigned[u],
                          !.new = R \cap roles, !.after = {u}])

\* accept_invitation adds a role to a user of that email.
AcceptInvitation(q, u, r) ==
    /\ r \in roles
    /\ Begin(q, [Idle EXCEPT !.op = "accept", !.key = u, !.old = assigned[u],
                             !.new = assigned[u] \cup {r}])

\* associate_permissions; the module of the permission is looked up in the cache.
AssociatePermission(q, r, p) ==
    /\ r \in roles \ {Owner}
    /\ p \in Gated => Modules \in Sees(Modules)
    /\ Begin(q, [Idle EXCEPT !.op = "grant", !.role = r, !.new = {p} \ grants[r]])

RemovePermission(q, r, p) ==
    /\ r \in roles \ {Owner} /\ p \in grants[r]
    /\ Begin(q, [Idle EXCEPT !.op = "withdraw", !.role = r, !.old = {p}])

\* update_role changes a name and a description.
UpdateRole(q, r) ==
    /\ r \in roles \ {Owner}
    /\ Begin(q, [Idle EXCEPT !.op = "rename", !.role = r])

\* delete_role lists the users of the role before it commits.
DeleteRole(q, r) ==
    /\ r \in roles \ {Owner}
    /\ Begin(q, [Idle EXCEPT !.op = "drop", !.role = r, !.after = Holders(r)])

\* The operations that change the subscription or the status of the tenant, with
\* the entries they delete after the commit.
UpdateTenant(q, s) ==
    Begin(q, [Idle EXCEPT !.op = "tenant", !.open = s, !.after = {Tenant}])

ChangeSubscription(q, s) ==
    Begin(q, [Idle EXCEPT !.op = "billing", !.paid = s, !.after = {Modules}])

\* invoice.paid, invoice.payment_failed, process_scheduled_subscription_changes.
SettleInvoice(q, s) == Begin(q, [Idle EXCEPT !.op = "invoice", !.paid = s])

\* checkout.session.completed, customer.subscription.deleted.
StripeChange(q, s) ==
    Begin(q, [Idle EXCEPT !.op = "stripe", !.paid = s, !.open = s, !.after = {Modules}])

\* create_role: a new role has no users and no permissions.
CreateRole(r) ==
    /\ r \notin roles /\ ops < MaxOps
    /\ roles' = roles \cup {r}
    /\ ops' = ops + 1
    /\ UNCHANGED <<assigned, grants, paid, open, cache, tx, excused>>

-----------------------------------------------------------------------------
(* Flush, commit, invalidation *)

\* The rows whose listeners delete an entry during the flush.
Listened(q) ==
    CASE tx[q].op = "tenant" -> {Tenant}
      [] tx[q].op \in {"billing", "invoice"} -> {Modules}
      [] tx[q].op = "stripe" -> {Modules, Tenant}
      [] OTHER -> {}

\* The UPDATEs are sent, nobody else sees them yet.
Flush(q) ==
    /\ tx[q].stage = "begun" /\ Listened(q) # {}
    /\ cache' = [k \in Keys |-> IF k \in Listened(q) THEN Miss ELSE cache[k]]
    /\ excused' = excused \ Listened(q)
    /\ tx' = [tx EXCEPT ![q].stage = "flushed"]
    /\ UNCHANGED <<db, ops>>

\* The entries that the committing q leaves to their TTL, by the way it is written.
Neglected(q) ==
    CASE tx[q].op = "accept" -> {tx[q].key}
      [] tx[q].op = "invoice" -> {Modules}
      [] tx[q].op = "stripe" -> {Tenant}
      [] tx[q].op = "drop" -> Holders(tx[q].role) \ tx[q].after
      [] OTHER -> {}

\* The keys whose answer the commit changes.
Changed == {k \in Keys : Truth(k)' # Truth(k)}

\* What is left of t when it has to delete the entries of S.
Deleting(t, S) == IF S = {} THEN Idle ELSE [t EXCEPT !.stage = "deleting", !.after = S]

\* q has committed and goes on as t; the queries of others have not seen it.
Committed(q, t) ==
    /\ tx' = [k \in Requests |->
                IF k = q THEN t
                ELSE IF tx[k].op = "fill" /\ tx[k].key \in Changed
                     THEN [tx[k] EXCEPT !.late = TRUE]
                ELSE tx[k]]
    /\ excused' = excused \cup Neglected(q)
    /\ UNCHANGED <<cache, ops>>

\* The roles that were added or taken away are inserted or deleted; none of these
\* rows may have changed meanwhile, and the roles added must still exist.
CommitRoles(q) ==
    LET u     == tx[q].key
        added == tx[q].new \ tx[q].old
        taken == tx[q].old \ tx[q].new
    IN
    /\ tx[q].op \in {"user", "accept"} /\ tx[q].stage = "begun"
    /\ taken \subseteq assigned[u] /\ added \cap assigned[u] = {} /\ added \subseteq roles
    /\ assigned' = [assigned EXCEPT ![u] = (@ \ taken) \cup added]
    /\ UNCHANGED <<roles, grants, paid, open>>
    /\ Committed(q, Deleting(tx[q], tx[q].after))

\* The permission is inserted or deleted, if the role is still there.
CommitGrants(q) ==
    LET r == tx[q].role IN
    /\ tx[q].op \in {"grant", "withdraw", "rename"} /\ tx[q].stage = "begun"
    /\ r \in roles
    /\ tx[q].old \subseteq grants[r] /\ tx[q].new \cap grants[r] = {}
    /\ grants' = [grants EXCEPT ![r] = (@ \ tx[q].old) \cup tx[q].new]
    /\ UNCHANGED <<roles, assigned, paid, open>>
    /\ Committed(q, [tx[q] EXCEPT !.stage = "listing"])

\* Mutant: the users of the role are not loaded.
ListNobody(q) ==
    /\ tx[q].stage = "listing" /\ tx[q].role \in roles
    /\ tx' = [tx EXCEPT ![q] = Idle]
    /\ UNCHANGED <<db, cache, ops, excused>>

\* Once committed, the users of the role are read; it may be gone by now.
ListUsers(q) ==
    /\ tx[q].stage = "listing" /\ tx[q].role \in roles
    /\ tx' = [tx EXCEPT ![q] = Deleting(@, Holders(@.role))]
    /\ UNCHANGED <<db, cache, ops, excused>>

\* Mutant: the rows of the users that were not listed stay.
CommitDropListed(q) ==
    LET r == tx[q].role IN
    /\ tx[q].op = "drop" /\ tx[q].stage = "begun"
    /\ r \in roles /\ tx[q].after \subseteq Holders(r)
    /\ roles' = roles \ {r}
    /\ assigned' = [u \in Users |-> IF u \in tx[q].after THEN assigned[u] \ {r}
                                    ELSE assigned[u]]
    /\ grants' = [grants EXCEPT ![r] = {}]
    /\ UNCHANGED <<paid, open>>
    /\ Committed(q, Deleting(tx[q], tx[q].after))

\* The role goes with all its rows: those of users that were listed must be there,
\* those of others are deleted by the database (ON DELETE CASCADE).
CommitDrop(q) ==
    LET r == tx[q].role IN
    /\ tx[q].op = "drop" /\ tx[q].stage = "begun"
    /\ r \in roles /\ tx[q].after \subseteq Holders(r)
    /\ roles' = roles \ {r}
    /\ assigned' = [u \in Users |-> assigned[u] \ {r}]
    /\ grants' = [grants EXCEPT ![r] = {}]
    /\ UNCHANGED <<paid, open>>
    /\ Committed(q, Deleting(tx[q], tx[q].after))

CommitTenant(q) ==
    /\ tx[q].stage = "flushed"
    /\ paid' = IF tx[q].op = "tenant" THEN paid ELSE tx[q].paid
    /\ open' = IF tx[q].op \in {"tenant", "stripe"} THEN tx[q].open ELSE open
    /\ UNCHANGED <<roles, assigned, grants>>
    /\ Committed(q, Deleting(tx[q], tx[q].after))

\* invalidate_..._cache: the entries are deleted one by one.
Invalidate(q, k) ==
    /\ tx[q].stage = "deleting" /\ k \in tx[q].after
    /\ cache' = [cache EXCEPT ![k] = Miss]
    /\ excused' = excused \ {k}
    /\ tx' = [tx EXCEPT ![q] = Deleting(@, @.after \ {k})]
    /\ UNCHANGED <<db, ops>>

\* What q still has to delete.
Pending(q) ==
    CASE tx[q].stage = "listing" -> Holders(tx[q].role)
      [] tx[q].stage = "deleting" -> tx[q].after
      [] OTHER -> {}

\* A commit that fails, a fill or deletion that Redis refuses, the process dying.
Abort(q) ==
    /\ tx[q].op # "none"
    /\ excused' = excused \cup Pending(q)
    /\ tx' = [tx EXCEPT ![q] = Idle]
    /\ UNCHANGED <<db, cache, ops>>

-----------------------------------------------------------------------------
Operation(q) ==
    \/ \E u \in Users : \/ \E R \in SUBSET Roles : UpdateUser(q, u, R)
                        \/ \E r \in Roles : AcceptInvitation(q, u, r)
    \/ \E r \in Roles : \/ UpdateRole(q, r) \/ DeleteRole(q, r)
                        \/ \E p \in Perms : AssociatePermission(q, r, p)
                                               \/ RemovePermission(q, r, p)
    \/ \E s \in BOOLEAN : UpdateTenant(q, s) \/ ChangeSubscription(q, s)
                             \/ SettleInvoice(q, s) \/ StripeChange(q, s)

\* A request that has begun takes its next step.
Advance(q) ==
    \/ Store(q) \/ Flush(q) \/ CommitRoles(q) \/ CommitGrants(q) \/ ListUsers(q)
    \/ CommitDrop(q) \/ CommitTenant(q)
    \/ \E k \in Keys : Invalidate(q, k)

Next ==
    \/ \E q \in Requests : \/ Operation(q) \/ Advance(q) \/ Abort(q)
                           \/ \E k \in Keys : Fetch(q, k)
    \/ \E k \in Keys : Expire(k)
    \/ \E r \in Roles : CreateRole(r)

\* A request that has begun goes on or fails, and Redis expires what it keeps.
Fairness ==
    /\ \A q \in Requests : WF_vars(Advance(q) \/ Abort(q))
    /\ \A k \in Keys : WF_vars(Expire(k))

Spec == Init /\ [][Next]_vars /\ Fairness

-----------------------------------------------------------------------------
(* Properties *)

\* Every variable keeps its type; a user has roles that exist.
TypeOK ==
    /\ roles \subseteq Roles /\ Owner \in roles
    /\ assigned \in [Users -> SUBSET roles]
    /\ grants \in [Roles -> SUBSET Perms]
    /\ paid \in BOOLEAN /\ open \in BOOLEAN
    /\ cache \in [Keys -> {Miss} \cup SUBSET Rights]
    /\ tx \in [Requests -> Tx]
    /\ ops \in 0..MaxOps
    /\ excused \subseteq Keys

\* An entry says what the database says, unless an operation that has committed is
\* about to delete it, or it is excused: it was stored by a request whose query was
\* older than a commit that changed the answer; the operation that changed the answer
\* deletes the entry before its commit only (invoices, the tenant's status when Stripe
\* changes it), or never (an invitation that adds a role, a role that is deleted while
\* it is given to another user); or the deletion was lost.
Fresh ==
    \A k \in Keys \ excused :
        \/ cache[k] = Miss
        \/ cache[k] = Truth(k)
        \/ \E q \in Requests : k \in Pending(q)

\* Whatever went wrong before, once the operations are over every entry comes to say
\* what the database says, and from then on only that is granted.
Converges == <>[](\A k \in Keys : cache[k] = Miss \/ cache[k] = Truth(k))

-----------------------------------------------------------------------------
(* The inductive invariant behind Fresh *)

\* What a request that has begun an operation holds.
Shaped(t) ==
    /\ t.op \in {"none", "fill"} => t.stage = "begun"
    /\ t.op = "fill" => t.key \in Keys
    /\ t.op \in {"user", "accept"} => t.key \in Users
    /\ t.op = "accept" => t.old \subseteq t.new
    /\ t.op \in {"grant", "withdraw", "rename"} => t.new \subseteq Perms
    /\ t.op = "drop" => t.role # Owner
    /\ t.stage = "flushed" => t.op \in {"tenant", "billing", "invoice", "stripe"}
    /\ t.stage \in {"begun", "flushed"} =>
          /\ t.op = "user" => t.after = {t.key}
          /\ t.op = "tenant" => t.after = {Tenant}
          /\ t.op \in {"billing", "stripe"} => t.after = {Modules}

TxShape == \A q \in Requests : Shaped(tx[q])

\* An answer on its way to the cache is right, or known to be late.
FillsKnown ==
    \A q \in Requests, k \in Keys :
        tx[q].op = "fill" /\ tx[q].key = k => tx[q].late \/ tx[q].value = Truth(k)

\* Together they are inductive.
IInv ==
    /\ TypeOK
    /\ TxShape
    /\ FillsKnown
    /\ Fresh
=============================================================================
