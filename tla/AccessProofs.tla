---------------------------- MODULE AccessProofs ----------------------------
(***************************************************************************)
(* Proofs about Access, for any users, roles, permissions, requests and    *)
(* operations: an entry of the cache is out of date only while somebody is *)
(* about to delete it, or for one of the reasons that Fresh names.         *)
(***************************************************************************)
EXTENDS Access, TLAPS

USE ConstantsAssumption

-----------------------------------------------------------------------------
(* Facts about the operators *)

\* What the database answers can be stored.
LEMMA TruthType ==
    ASSUME NEW k \in Keys
    PROVE  Truth(k) \in SUBSET Rights
BY DEF Truth, Rights

\* An answer is never mistaken for a missing entry.
LEMMA MissIsNoAnswer == \A S \in SUBSET Rights : S # Miss
BY DEF Rights

\* A request that has nothing in hand, or has to delete the entries of S, is well formed.
LEMMA IdleType == Idle \in Tx /\ Shaped(Idle)
BY DEF Idle, Tx, Shaped, Ops, Stages

LEMMA DeletingType ==
    ASSUME NEW t \in Tx, Shaped(t), t.op \notin {"none", "fill"}, NEW S \in SUBSET Keys
    PROVE  /\ Deleting(t, S) \in Tx
           /\ Shaped(Deleting(t, S))
           /\ Deleting(t, S).op # "fill"
           /\ Deleting(t, S).stage \in {"begun", "deleting"}
           /\ Deleting(t, S).stage = "begun" => S = {}
           /\ Deleting(t, S).stage = "deleting" => Deleting(t, S).after = S
<1>1. CASE S = {}
  BY <1>1, IdleType DEF Deleting, Idle
<1>2. CASE S # {}
  <2>1. Deleting(t, S) = [t EXCEPT !.stage = "deleting", !.after = S]
    BY <1>2 DEF Deleting
  <2>2. [t EXCEPT !.stage = "deleting", !.after = S] \in Tx
    BY DEF Tx, Stages
  <2>3. QED BY <2>1, <2>2 DEF Shaped, Tx
<1>3. QED BY <1>1, <1>2

-----------------------------------------------------------------------------
(* Steps of one kind *)

\* Beginning an operation changes no entry and nothing the database says (Begin).
LEMMA BeginStep ==
    ASSUME IInv, NEW q \in Requests, NEW t \in Tx, Begin(q, t),
           Shaped(t), t.op \notin {"none", "fill"}, t.stage = "begun"
    PROVE  IInv'
<1>1. /\ tx' = [tx EXCEPT ![q] = t] /\ tx \in [Requests -> Tx]
      /\ UNCHANGED <<roles, assigned, grants, paid, open, cache, excused>>
      /\ tx[q].op = "none" /\ tx[q].stage = "begun"
  BY DEF Begin, IInv, TypeOK, TxShape, Shaped, db
<1>2. TypeOK'
  <2>1. ops' \in 0..MaxOps
    BY DEF Begin, IInv, TypeOK
  <2>2. QED BY <1>1, <2>1 DEF IInv, TypeOK
<1>3. TxShape'
  BY <1>1 DEF IInv, TxShape
<1>4. \A k \in Keys : Truth(k)' = Truth(k)
  BY <1>1 DEF Truth
<1>5. FillsKnown'
  <2> SUFFICES ASSUME NEW x \in Requests, NEW k \in Keys, tx'[x].op = "fill", tx'[x].key = k
               PROVE  tx'[x].late \/ tx'[x].value = Truth(k)'
      BY DEF FillsKnown
  <2>1. x # q /\ tx'[x] = tx[x]
    BY <1>1
  <2>2. QED BY <2>1, <1>4 DEF IInv, FillsKnown
<1>6. Fresh'
  <2>1. \A x \in Requests : Pending(x)' = Pending(x)
    BY <1>1 DEF Pending, Holders
  <2>2. QED BY <1>1, <1>4, <2>1 DEF IInv, Fresh
<1>7. QED BY <1>2, <1>3, <1>5, <1>6 DEF IInv

\* A commit whose operation deletes, or is excused for, the entries it makes wrong
\* leaves no other entry wrong (Committed).
LEMMA CommitStep ==
    ASSUME IInv, NEW q \in Requests, NEW t \in Tx, Committed(q, t),
           Shaped(t), t.op # "fill", tx[q].stage \in {"begun", "flushed"},
           Neglected(q) \subseteq Keys,
           roles' \subseteq Roles, Owner \in roles', assigned' \in [Users -> SUBSET roles'],
           grants' \in [Roles -> SUBSET Perms], paid' \in BOOLEAN, open' \in BOOLEAN,
           \A k \in Changed : k \in Neglected(q) \/ k \in Pending(q)',
           \A x \in Requests \ {q} : \A k \in Keys :
               k \in Pending(x) => \/ k \in Pending(x)'
                                   \/ k \in Neglected(q) \/ k \in Pending(q)'
    PROVE  IInv'
<1>1. /\ tx' = [x \in Requests |->
                  IF x = q THEN t
                  ELSE IF tx[x].op = "fill" /\ tx[x].key \in Changed
                       THEN [tx[x] EXCEPT !.late = TRUE]
                  ELSE tx[x]]
      /\ tx \in [Requests -> Tx]
      /\ excused' = excused \cup Neglected(q) /\ cache' = cache /\ ops' = ops
  BY DEF Committed, IInv, TypeOK
<1>2. \A x \in Requests :
          /\ tx'[x] \in Tx
          /\ x # q => /\ tx'[x].op = tx[x].op /\ tx'[x].key = tx[x].key
                      /\ tx'[x].value = tx[x].value /\ tx'[x].stage = tx[x].stage
                      /\ tx'[x].role = tx[x].role /\ tx'[x].after = tx[x].after
                      /\ tx'[x].old = tx[x].old /\ tx'[x].new = tx[x].new
                      /\ tx'[x].late = (tx[x].late \/ (tx[x].op = "fill" /\ tx[x].key \in Changed))
  <2> SUFFICES ASSUME NEW x \in Requests, x # q
               PROVE  /\ tx'[x] \in Tx
                      /\ tx'[x].op = tx[x].op /\ tx'[x].key = tx[x].key
                      /\ tx'[x].value = tx[x].value /\ tx'[x].stage = tx[x].stage
                      /\ tx'[x].role = tx[x].role /\ tx'[x].after = tx[x].after
                      /\ tx'[x].old = tx[x].old /\ tx'[x].new = tx[x].new
                      /\ tx'[x].late = (tx[x].late \/ (tx[x].op = "fill" /\ tx[x].key \in Changed))
      BY <1>1
  <2>1. CASE tx[x].op = "fill" /\ tx[x].key \in Changed
    BY <1>1, <2>1 DEF Tx
  <2>2. CASE ~(tx[x].op = "fill" /\ tx[x].key \in Changed)
    BY <1>1, <2>2 DEF Tx
  <2>3. QED BY <2>1, <2>2
<1>3. TypeOK'
  <2>1. tx' \in [Requests -> Tx]
    BY <1>1, <1>2
  <2>2. QED BY <1>1, <2>1 DEF IInv, TypeOK
<1>4. TxShape'
  BY <1>1, <1>2 DEF IInv, TxShape, Shaped
<1>5. FillsKnown'
  <2> SUFFICES ASSUME NEW x \in Requests, NEW k \in Keys, tx'[x].op = "fill", tx'[x].key = k
               PROVE  tx'[x].late \/ tx'[x].value = Truth(k)'
      BY DEF FillsKnown
  <2>1. x # q
    BY <1>1
  <2>2. tx[x].op = "fill" /\ tx[x].key = k
    BY <1>2, <2>1
  <2>3. CASE k \in Changed
    BY <1>2, <2>1, <2>2, <2>3
  <2>4. CASE k \notin Changed
    <3>1. Truth(k)' = Truth(k)
      BY <2>4 DEF Changed
    <3>2. tx[x].late \/ tx[x].value = Truth(k)
      BY <2>2 DEF IInv, FillsKnown
    <3>3. QED BY <1>2, <2>1, <3>1, <3>2
  <2>5. QED BY <2>3, <2>4
<1>6. Fresh'
  <2> SUFFICES ASSUME NEW k \in Keys \ excused', cache'[k] # Miss, cache'[k] # Truth(k)'
               PROVE  \E x \in Requests : k \in Pending(x)'
      BY DEF Fresh
  <2>1. k \notin excused /\ k \notin Neglected(q) /\ cache[k] # Miss
    BY <1>1
  <2>2. CASE k \in Changed
    BY <2>1, <2>2
  <2>3. CASE k \notin Changed
    <3>1. cache[k] # Truth(k)
      BY <1>1, <2>3 DEF Changed
    <3>2. PICK x \in Requests : k \in Pending(x)
      BY <2>1, <3>1 DEF IInv, Fresh
    <3>3. x # q
      BY <3>2 DEF Pending
    <3>4. QED BY <2>1, <3>2, <3>3
  <2>4. QED BY <2>2, <2>3
<1>7. QED BY <1>3, <1>4, <1>5, <1>6 DEF IInv

-----------------------------------------------------------------------------
(* The steps that read, delete and expire entries *)

\* While the roles of the users stay, so do the entries that x has still to delete.
LEMMA PendingKept ==
    ASSUME assigned' = assigned, NEW x \in Requests, tx'[x] = tx[x]
    PROVE  Pending(x)' = Pending(x)
BY DEF Pending, Holders

\* What the database says depends on the tables only.
LEMMA TruthKept ==
    ASSUME UNCHANGED <<assigned, grants, paid, open>>, NEW k \in Keys
    PROVE  Truth(k)' = Truth(k)
BY DEF Truth

\* A request other than q goes on as before when q goes on as t, which has nothing to
\* store and deletes what q had to delete, apart from entries that are excused or gone;
\* entries of the cache are at most dropped.
LEMMA CacheStep ==
    ASSUME IInv, NEW q \in Requests, NEW t \in Tx, Shaped(t), t.op # "fill",
           tx' = [tx EXCEPT ![q] = t], UNCHANGED <<db, ops>>,
           excused' \in SUBSET Keys,
           cache' \in [Keys -> {Miss} \cup SUBSET Rights],
           \A k \in Keys : cache'[k] = Miss \/ cache'[k] = cache[k],
           \A k \in excused \ excused' : cache'[k] = Miss,
           \A k \in Keys : k \in Pending(q) => \/ k \in Pending(q)'
                                               \/ k \in excused' \/ cache'[k] = Miss
    PROVE  IInv'
<1>1. tx \in [Requests -> Tx] /\ UNCHANGED <<roles, assigned, grants, paid, open>>
  BY DEF IInv, TypeOK, db
<1>2. TypeOK'
  BY <1>1 DEF IInv, TypeOK
<1>3. TxShape'
  BY <1>1 DEF IInv, TxShape
<1>4. \A k \in Keys : Truth(k)' = Truth(k)
  BY <1>1, TruthKept
<1>5. FillsKnown'
  <2> SUFFICES ASSUME NEW x \in Requests, NEW k \in Keys, tx'[x].op = "fill", tx'[x].key = k
               PROVE  tx'[x].late \/ tx'[x].value = Truth(k)'
      BY DEF FillsKnown
  <2>1. x # q /\ tx'[x] = tx[x]
    BY <1>1
  <2>2. QED BY <2>1, <1>4 DEF IInv, FillsKnown
<1>6. Fresh'
  <2> SUFFICES ASSUME NEW k \in Keys \ excused', cache'[k] # Miss, cache'[k] # Truth(k)'
               PROVE  \E x \in Requests : k \in Pending(x)'
      BY DEF Fresh
  <2>1. k \notin excused /\ cache[k] # Miss /\ cache[k] # Truth(k)
    BY <1>4
  <2>2. PICK x \in Requests : k \in Pending(x)
    BY <2>1 DEF IInv, Fresh
  <2>3. CASE x = q
    BY <2>2, <2>3
  <2>4. CASE x # q
    <3>1. tx'[x] = tx[x] /\ assigned' = assigned
      BY <1>1, <2>4
    <3>2. Pending(x)' = Pending(x)
      BY <3>1, PendingKept
    <3>3. QED BY <2>2, <3>2
  <2>5. QED BY <2>3, <2>4
<1>7. QED BY <1>2, <1>3, <1>5, <1>6 DEF IInv


\* The answer that a request has fetched is right when it leaves the database (Fetch).
LEMMA FetchStep ==
    ASSUME IInv, NEW q \in Requests, NEW k \in Keys, Fetch(q, k)
    PROVE  IInv'
<1> DEFINE t == [Idle EXCEPT !.op = "fill", !.key = k, !.value = Truth(k)]
<1>1. Truth(k) \in SUBSET Rights
  BY TruthType
<1>2. /\ t \in Tx /\ t.op = "fill" /\ t.stage = "begun" /\ t.key = k /\ t.value = Truth(k)
  BY <1>1 DEF Idle, Tx, Ops, Stages
<1>3. Shaped(t)
  BY <1>2 DEF Shaped
<1>4. /\ tx' = [tx EXCEPT ![q] = t] /\ tx \in [Requests -> Tx]
      /\ UNCHANGED <<roles, assigned, grants, paid, open, cache, ops, excused>>
      /\ tx[q].stage = "begun"
  BY DEF Fetch, IInv, TypeOK, TxShape, Shaped, db
<1>. HIDE DEF t
<1>5. TypeOK'
  BY <1>2, <1>4 DEF IInv, TypeOK
<1>6. TxShape'
  BY <1>3, <1>4 DEF IInv, TxShape
<1>7. \A j \in Keys : Truth(j)' = Truth(j)
  BY <1>4, TruthKept
<1>8. FillsKnown'
  <2> SUFFICES ASSUME NEW x \in Requests, NEW j \in Keys, tx'[x].op = "fill", tx'[x].key = j
               PROVE  tx'[x].late \/ tx'[x].value = Truth(j)'
      BY DEF FillsKnown
  <2>1. CASE x = q
    BY <2>1, <1>2, <1>4, <1>7
  <2>2. CASE x # q
    BY <2>2, <1>4, <1>7 DEF IInv, FillsKnown
  <2>3. QED BY <2>1, <2>2
<1>9. Fresh'
  <2>1. \A x \in Requests : Pending(x)' = Pending(x)
    BY <1>2, <1>4 DEF Pending, Holders
  <2>2. QED BY <1>4, <1>7, <2>1 DEF IInv, Fresh
<1>10. QED BY <1>5, <1>6, <1>8, <1>9 DEF IInv

\* A stored answer is right or excused (Store).
LEMMA StoreStep ==
    ASSUME IInv, NEW q \in Requests, Store(q)
    PROVE  IInv'
<1> DEFINE k == tx[q].key
<1>1. /\ tx \in [Requests -> Tx] /\ tx[q] \in Tx /\ k \in Keys /\ tx[q].op = "fill"
      /\ tx' = [tx EXCEPT ![q] = Idle]
      /\ cache' = [cache EXCEPT ![k] = tx[q].value]
      /\ excused' = IF tx[q].late THEN excused \cup {k} ELSE excused \ {k}
      /\ UNCHANGED <<roles, assigned, grants, paid, open, ops>>
      /\ tx[q].stage = "begun"
  BY DEF Store, IInv, TypeOK, TxShape, Shaped, db
<1>2. tx[q].value \in {Miss} \cup SUBSET Rights
  BY <1>1 DEF Tx
<1>3. tx[q].late \/ tx[q].value = Truth(k)
  BY <1>1 DEF IInv, FillsKnown
<1>. HIDE DEF k
<1>4. TypeOK'
  BY <1>1, <1>2, IdleType DEF IInv, TypeOK
<1>5. TxShape'
  BY <1>1, IdleType DEF IInv, TxShape
<1>6. \A j \in Keys : Truth(j)' = Truth(j)
  BY <1>1, TruthKept
<1>7. FillsKnown'
  <2> SUFFICES ASSUME NEW x \in Requests, NEW j \in Keys, tx'[x].op = "fill", tx'[x].key = j
               PROVE  tx'[x].late \/ tx'[x].value = Truth(j)'
      BY DEF FillsKnown
  <2>1. x # q /\ tx'[x] = tx[x]
    BY <1>1 DEF Idle
  <2>2. QED BY <2>1, <1>6 DEF IInv, FillsKnown
<1>8. Fresh'
  <2> SUFFICES ASSUME NEW j \in Keys \ excused', cache'[j] # Miss, cache'[j] # Truth(j)'
               PROVE  \E x \in Requests : j \in Pending(x)'
      BY DEF Fresh
  <2>1. j # k
    BY <1>1, <1>3, <1>6 DEF IInv, TypeOK
  <2>2. j \notin excused /\ cache'[j] = cache[j]
    BY <1>1, <2>1 DEF IInv, TypeOK
  <2>3. PICK x \in Requests : j \in Pending(x)
    BY <2>2, <1>6 DEF IInv, Fresh
  <2>4. x # q
    BY <1>1, <2>3 DEF Pending
  <2>5. Pending(x)' = Pending(x)
    BY <1>1, <2>4, PendingKept
  <2>6. QED BY <2>3, <2>5
<1>9. QED BY <1>4, <1>5, <1>7, <1>8 DEF IInv


-----------------------------------------------------------------------------
(* The theorem *)

\* Every step keeps the invariant.
LEMMA InvStep == IInv /\ [Next]_vars => IInv'
<1> SUFFICES ASSUME IInv, [Next]_vars PROVE IInv'
    OBVIOUS
<1>a. /\ tx \in [Requests -> Tx] /\ cache \in [Keys -> {Miss} \cup SUBSET Rights]
      /\ roles \subseteq Roles /\ assigned \in [Users -> SUBSET roles]
      /\ grants \in [Roles -> SUBSET Perms] /\ excused \subseteq Keys
      /\ paid \in BOOLEAN /\ open \in BOOLEAN /\ Owner \in roles
  BY DEF IInv, TypeOK
<1>b. \A q \in Requests : tx[q] \in Tx /\ Shaped(tx[q])
  BY <1>a DEF IInv, TxShape
<1>1. ASSUME NEW q \in Requests, NEW u \in Users, NEW R \in SUBSET Roles, UpdateUser(q, u, R)
     PROVE  IInv'
  <2> DEFINE t == [Idle EXCEPT !.op = "user", !.key = u, !.old = assigned[u],
                         !.new = R \cap roles, !.after = {u}]
  <2>1. t \in Tx
    BY <1>1, <1>a DEF UpdateUser, Idle, Tx, Ops, Stages, Keys
  <2>2. Shaped(t) /\ t.op \notin {"none", "fill"} /\ t.stage = "begun"
    BY <1>1, <1>a DEF UpdateUser, Idle, Shaped
  <2>3. Begin(q, t)
    BY <1>1 DEF UpdateUser
  <2>. HIDE DEF t
  <2>4. QED BY <2>1, <2>2, <2>3, BeginStep
<1>2. ASSUME NEW q \in Requests, NEW u \in Users, NEW r \in Roles, AcceptInvitation(q, u, r)
     PROVE  IInv'
  <2> DEFINE t == [Idle EXCEPT !.op = "accept", !.key = u, !.old = assigned[u],
                         !.new = assigned[u] \cup {r}]
  <2>1. t \in Tx
    BY <1>2, <1>a DEF AcceptInvitation, Idle, Tx, Ops, Stages, Keys
  <2>2. Shaped(t) /\ t.op \notin {"none", "fill"} /\ t.stage = "begun"
    BY <1>2, <1>a DEF AcceptInvitation, Idle, Shaped
  <2>3. Begin(q, t)
    BY <1>2 DEF AcceptInvitation
  <2>. HIDE DEF t
  <2>4. QED BY <2>1, <2>2, <2>3, BeginStep
<1>3. ASSUME NEW q \in Requests, NEW r \in Roles, NEW p \in Perms, AssociatePermission(q, r, p)
     PROVE  IInv'
  <2> DEFINE t == [Idle EXCEPT !.op = "grant", !.role = r, !.new = {p} \ grants[r]]
  <2>1. t \in Tx
    BY <1>3, <1>a DEF AssociatePermission, Idle, Tx, Ops, Stages, Keys
  <2>2. Shaped(t) /\ t.op \notin {"none", "fill"} /\ t.stage = "begun"
    BY <1>3, <1>a DEF AssociatePermission, Idle, Shaped
  <2>3. Begin(q, t)
    BY <1>3 DEF AssociatePermission
  <2>. HIDE DEF t
  <2>4. QED BY <2>1, <2>2, <2>3, BeginStep
<1>4. ASSUME NEW q \in Requests, NEW r \in Roles, NEW p \in Perms, RemovePermission(q, r, p)
     PROVE  IInv'
  <2> DEFINE t == [Idle EXCEPT !.op = "withdraw", !.role = r, !.old = {p}]
  <2>1. t \in Tx
    BY <1>4, <1>a DEF RemovePermission, Idle, Tx, Ops, Stages, Keys
  <2>2. Shaped(t) /\ t.op \notin {"none", "fill"} /\ t.stage = "begun"
    BY <1>4, <1>a DEF RemovePermission, Idle, Shaped
  <2>3. Begin(q, t)
    BY <1>4 DEF RemovePermission
  <2>. HIDE DEF t
  <2>4. QED BY <2>1, <2>2, <2>3, BeginStep
<1>5. ASSUME NEW q \in Requests, NEW r \in Roles, UpdateRole(q, r)
     PROVE  IInv'
  <2> DEFINE t == [Idle EXCEPT !.op = "rename", !.role = r]
  <2>1. t \in Tx
    BY <1>5, <1>a DEF UpdateRole, Idle, Tx, Ops, Stages, Keys
  <2>2. Shaped(t) /\ t.op \notin {"none", "fill"} /\ t.stage = "begun"
    BY <1>5, <1>a DEF UpdateRole, Idle, Shaped
  <2>3. Begin(q, t)
    BY <1>5 DEF UpdateRole
  <2>. HIDE DEF t
  <2>4. QED BY <2>1, <2>2, <2>3, BeginStep
<1>6. ASSUME NEW q \in Requests, NEW r \in Roles, DeleteRole(q, r)
     PROVE  IInv'
  <2> DEFINE t == [Idle EXCEPT !.op = "drop", !.role = r, !.after = Holders(r)]
  <2>1. t \in Tx
    BY <1>6, <1>a DEF DeleteRole, Idle, Tx, Ops, Stages, Keys, Holders
  <2>2. Shaped(t) /\ t.op \notin {"none", "fill"} /\ t.stage = "begun"
    BY <1>6, <1>a DEF DeleteRole, Idle, Shaped
  <2>3. Begin(q, t)
    BY <1>6 DEF DeleteRole
  <2>. HIDE DEF t
  <2>4. QED BY <2>1, <2>2, <2>3, BeginStep
<1>7. ASSUME NEW q \in Requests, NEW s \in BOOLEAN, UpdateTenant(q, s)
     PROVE  IInv'
  <2> DEFINE t == [Idle EXCEPT !.op = "tenant", !.open = s, !.after = {Tenant}]
  <2>1. t \in Tx
    BY <1>7, <1>a DEF UpdateTenant, Idle, Tx, Ops, Stages, Keys
  <2>2. Shaped(t) /\ t.op \notin {"none", "fill"} /\ t.stage = "begun"
    BY <1>7, <1>a DEF UpdateTenant, Idle, Shaped
  <2>3. Begin(q, t)
    BY <1>7 DEF UpdateTenant
  <2>. HIDE DEF t
  <2>4. QED BY <2>1, <2>2, <2>3, BeginStep
<1>8. ASSUME NEW q \in Requests, NEW s \in BOOLEAN, ChangeSubscription(q, s)
     PROVE  IInv'
  <2> DEFINE t == [Idle EXCEPT !.op = "billing", !.paid = s, !.after = {Modules}]
  <2>1. t \in Tx
    BY <1>8, <1>a DEF ChangeSubscription, Idle, Tx, Ops, Stages, Keys
  <2>2. Shaped(t) /\ t.op \notin {"none", "fill"} /\ t.stage = "begun"
    BY <1>8, <1>a DEF ChangeSubscription, Idle, Shaped
  <2>3. Begin(q, t)
    BY <1>8 DEF ChangeSubscription
  <2>. HIDE DEF t
  <2>4. QED BY <2>1, <2>2, <2>3, BeginStep
<1>9. ASSUME NEW q \in Requests, NEW s \in BOOLEAN, SettleInvoice(q, s)
     PROVE  IInv'
  <2> DEFINE t == [Idle EXCEPT !.op = "invoice", !.paid = s]
  <2>1. t \in Tx
    BY <1>9, <1>a DEF SettleInvoice, Idle, Tx, Ops, Stages, Keys
  <2>2. Shaped(t) /\ t.op \notin {"none", "fill"} /\ t.stage = "begun"
    BY <1>9, <1>a DEF SettleInvoice, Idle, Shaped
  <2>3. Begin(q, t)
    BY <1>9 DEF SettleInvoice
  <2>. HIDE DEF t
  <2>4. QED BY <2>1, <2>2, <2>3, BeginStep
<1>10. ASSUME NEW q \in Requests, NEW s \in BOOLEAN, StripeChange(q, s)
     PROVE  IInv'
  <2> DEFINE t == [Idle EXCEPT !.op = "stripe", !.paid = s, !.open = s,
                         !.after = {Modules}]
  <2>1. t \in Tx
    BY <1>10, <1>a DEF StripeChange, Idle, Tx, Ops, Stages, Keys
  <2>2. Shaped(t) /\ t.op \notin {"none", "fill"} /\ t.stage = "begun"
    BY <1>10, <1>a DEF StripeChange, Idle, Shaped
  <2>3. Begin(q, t)
    BY <1>10 DEF StripeChange
  <2>. HIDE DEF t
  <2>4. QED BY <2>1, <2>2, <2>3, BeginStep
<1>11. ASSUME NEW q \in Requests, NEW k \in Keys, Fetch(q, k)
     PROVE  IInv'
  BY <1>11, FetchStep
<1>12. ASSUME NEW q \in Requests, Store(q)
     PROVE  IInv'
  BY <1>12, StoreStep
<1>13. ASSUME NEW q \in Requests, Flush(q)
     PROVE  IInv'
  <2> DEFINE t == [tx[q] EXCEPT !.stage = "flushed"]
  <2>1. /\ tx[q].stage = "begun" /\ tx[q].op \in {"tenant", "billing", "invoice", "stripe"}
        /\ Listened(q) \subseteq Keys
    BY <1>13 DEF Flush, Listened, Keys
  <2>2. t \in Tx /\ Shaped(t) /\ t.op # "fill"
    BY <1>b, <2>1 DEF Tx, Stages, Shaped
  <2>3. Pending(q) = {}
    BY <2>1 DEF Pending
  <2>4. /\ tx' = [tx EXCEPT ![q] = t] /\ UNCHANGED <<db, ops>>
        /\ excused' = excused \ Listened(q)
        /\ cache' = [k \in Keys |-> IF k \in Listened(q) THEN Miss ELSE cache[k]]
    BY <1>13 DEF Flush
  <2>. HIDE DEF t
  <2>5. /\ cache' \in [Keys -> {Miss} \cup SUBSET Rights]
        /\ \A k \in Keys : cache'[k] = Miss \/ cache'[k] = cache[k]
        /\ \A k \in excused \ excused' : cache'[k] = Miss
        /\ excused' \in SUBSET Keys
    BY <2>4, <1>a
  <2>6. QED BY <2>2, <2>3, <2>4, <2>5, CacheStep
<1>14. ASSUME NEW q \in Requests, ListUsers(q)
     PROVE  IInv'
  <2> DEFINE S == Holders(tx[q].role)
  <2>1. /\ S \in SUBSET Keys /\ tx[q].stage = "listing"
        /\ tx' = [tx EXCEPT ![q] = Deleting(tx[q], S)] /\ UNCHANGED <<db, ops, cache, excused>>
    BY <1>14, <1>a DEF ListUsers, Holders, Keys
  <2>2. tx[q].op \notin {"none", "fill"}
    BY <1>b, <2>1 DEF Shaped
  <2>3. Pending(q) = S
    BY <2>1 DEF Pending
  <2>. HIDE DEF S
  <2>4. /\ Deleting(tx[q], S) \in Tx /\ Shaped(Deleting(tx[q], S))
        /\ Deleting(tx[q], S).op # "fill" /\ (S # {} => Pending(q)' = S)
    <3>1. tx'[q] = Deleting(tx[q], S)
      BY <2>1, <1>a
    <3>2. QED BY <3>1, <2>1, <2>2, <1>b, DeletingType DEF Pending
  <2>5. \A k \in Keys : k \in Pending(q) => k \in Pending(q)'
    BY <2>3, <2>4
  <2>6. QED BY <1>a, <2>1, <2>4, <2>5, CacheStep
<1>15. ASSUME NEW q \in Requests, NEW k \in Keys, Invalidate(q, k)
     PROVE  IInv'
  <2> DEFINE S == tx[q].after \ {k}
  <2>1. /\ S \in SUBSET Keys /\ tx[q].stage = "deleting" /\ Pending(q) = tx[q].after
        /\ tx' = [tx EXCEPT ![q] = Deleting(tx[q], S)] /\ UNCHANGED <<db, ops>>
        /\ cache' = [cache EXCEPT ![k] = Miss] /\ excused' = excused \ {k}
    BY <1>15, <1>a, <1>b DEF Invalidate, Pending, Tx
  <2>2. tx[q].op \notin {"none", "fill"}
    BY <1>b, <2>1 DEF Shaped
  <2>3. \A j \in Keys : j \in Pending(q) => j \in S \/ j = k
    BY <2>1
  <2>. HIDE DEF S
  <2>4. /\ Deleting(tx[q], S) \in Tx /\ Shaped(Deleting(tx[q], S))
        /\ Deleting(tx[q], S).op # "fill" /\ (S # {} => Pending(q)' = S)
    <3>1. tx'[q] = Deleting(tx[q], S)
      BY <2>1, <1>a
    <3>2. QED BY <3>1, <2>1, <2>2, <1>b, DeletingType DEF Pending
  <2>5. \A j \in Keys : j \in Pending(q) => j \in Pending(q)' \/ cache'[j] = Miss
    BY <2>1, <2>3, <2>4, <1>a
  <2>6. /\ cache' \in [Keys -> {Miss} \cup SUBSET Rights]
        /\ \A j \in Keys : cache'[j] = Miss \/ cache'[j] = cache[j]
        /\ \A j \in excused \ excused' : cache'[j] = Miss
        /\ excused' \in SUBSET Keys
    BY <2>1, <1>a
  <2>7. QED BY <2>1, <2>4, <2>5, <2>6, CacheStep
<1>16. ASSUME NEW q \in Requests, Abort(q)
     PROVE  IInv'
  <2>1. /\ tx' = [tx EXCEPT ![q] = Idle] /\ UNCHANGED <<db, ops, cache>>
        /\ excused' = excused \cup Pending(q)
    BY <1>16 DEF Abort
  <2>2. Pending(q) \subseteq Keys
    BY <1>b DEF Pending, Tx, Holders, Keys
  <2>3. Idle.op # "fill"
    BY DEF Idle
  <2>4. QED BY <1>a, <2>1, <2>2, <2>3, IdleType, CacheStep
<1>17. ASSUME NEW q \in Requests, CommitRoles(q)
     PROVE  IInv'
  <2> DEFINE u == tx[q].key
  <2> DEFINE t == Deleting(tx[q], tx[q].after)
  <2>1. /\ tx[q].op \in {"user", "accept"} /\ tx[q].stage = "begun" /\ u \in Users
        /\ tx[q].after \in SUBSET Keys
        /\ tx[q].op = "user" => tx[q].after = {u}
        /\ tx[q].op = "accept" => tx[q].old \subseteq tx[q].new
    BY <1>17, <1>b DEF CommitRoles, Shaped, Tx
  <2>2. /\ (tx[q].new \ tx[q].old) \subseteq roles
        /\ assigned' = [assigned EXCEPT ![u] = (@ \ (tx[q].old \ tx[q].new))
                                               \cup (tx[q].new \ tx[q].old)]
        /\ UNCHANGED <<roles, grants, paid, open>> /\ Committed(q, t)
    BY <1>17 DEF CommitRoles
  <2>3. assigned' \in [Users -> SUBSET roles']
    BY <2>1, <2>2, <1>a
  <2>4. /\ t \in Tx /\ Shaped(t) /\ t.op # "fill"
        /\ tx[q].op = "user" => t.stage = "deleting" /\ t.after = {u}
    BY <2>1, <1>b, DeletingType
  <2>5. tx'[q] = t
    BY <2>2, <1>a DEF Committed
  <2>. HIDE DEF t
  <2>6. u \in Neglected(q) \/ u \in Pending(q)'
    BY <2>1, <2>4, <2>5 DEF Neglected, Pending
  <2>7. Neglected(q) \subseteq Keys
    BY <2>1 DEF Neglected, Keys
  <2>. HIDE DEF u
  <2>8. \A k \in Keys : k # u => Truth(k)' = Truth(k)
    BY <2>1, <2>2, <1>a DEF Truth, Keys
  <2>9. \A k \in Changed : k \in Neglected(q) \/ k \in Pending(q)'
    BY <2>6, <2>8 DEF Changed
  <2>10. \A x \in Requests \ {q} : \A k \in Keys :
           k \in Pending(x) => k \in Pending(x)' \/ k \in Neglected(q) \/ k \in Pending(q)'
    <3> SUFFICES ASSUME NEW x \in Requests \ {q}, NEW k \in Keys, k \in Pending(x), k # u
               PROVE  k \in Pending(x)'
        BY <2>6
    <3>1. tx'[x].stage = tx[x].stage /\ tx'[x].role = tx[x].role /\ tx'[x].after = tx[x].after
      BY <2>2, <1>a DEF Committed, Tx
    <3>2. CASE tx[x].stage = "listing"
      <4>1. k \in Users /\ tx[x].role \in assigned[k]
        BY <3>2 DEF Pending, Holders
      <4>2. tx[x].role \in assigned'[k]
        BY <4>1, <2>1, <2>2, <1>a
      <4>3. QED BY <3>1, <3>2, <4>1, <4>2 DEF Pending, Holders
    <3>3. CASE tx[x].stage # "listing"
      BY <3>1, <3>3 DEF Pending
    <3>4. QED BY <3>2, <3>3
  <2>11. QED BY <2>1, <2>2, <2>3, <2>4, <2>7, <2>9, <2>10, <1>a, CommitStep
<1>18. ASSUME NEW q \in Requests, CommitGrants(q)
     PROVE  IInv'
  <2> DEFINE r == tx[q].role
  <2> DEFINE t == [tx[q] EXCEPT !.stage = "listing"]
  <2>1. /\ tx[q].op \in {"grant", "withdraw", "rename"} /\ tx[q].stage = "begun"
        /\ r \in Roles /\ tx[q].new \subseteq Perms
    BY <1>18, <1>a, <1>b DEF CommitGrants, Shaped
  <2>2. /\ grants' = [grants EXCEPT ![r] = (@ \ tx[q].old) \cup tx[q].new]
        /\ UNCHANGED <<roles, assigned, paid, open>> /\ Committed(q, t)
    BY <1>18 DEF CommitGrants
  <2>3. t \in Tx /\ Shaped(t) /\ t.op # "fill" /\ t.stage = "listing" /\ t.role = r
    BY <2>1, <1>b DEF Tx, Stages, Shaped
  <2>4. grants' \in [Roles -> SUBSET Perms]
    BY <2>1, <2>2, <1>a
  <2>5. tx'[q] = t
    BY <2>2, <1>a DEF Committed
  <2>6. Neglected(q) = {}
    BY <2>1 DEF Neglected
  <2>. HIDE DEF t, r
  <2>7. Pending(q)' = Holders(r)
    BY <2>2, <2>3, <2>5 DEF Pending, Holders
  <2>8. \A k \in Keys : k \notin Holders(r) => Truth(k)' = Truth(k)
    <3> SUFFICES ASSUME NEW k \in Keys, k \notin Holders(r) PROVE Truth(k)' = Truth(k)
        OBVIOUS
    <3>1. CASE k \in Users
      <4>1. \A s \in assigned[k] : s \in Roles /\ grants'[s] = grants[s]
        BY <3>1, <2>1, <2>2, <1>a DEF Holders
      <4>2. QED BY <3>1, <4>1, <2>2 DEF Truth
    <3>2. CASE k \notin Users
      BY <3>2, <2>2 DEF Truth, Keys
    <3>3. QED BY <3>1, <3>2
  <2>9. \A k \in Changed : k \in Pending(q)'
    BY <2>7, <2>8 DEF Changed
  <2>10. \A x \in Requests \ {q} : \A k \in Keys : k \in Pending(x) => k \in Pending(x)'
    <3> SUFFICES ASSUME NEW x \in Requests \ {q} PROVE Pending(x)' = Pending(x)
        OBVIOUS
    <3>1. tx'[x].stage = tx[x].stage /\ tx'[x].role = tx[x].role /\ tx'[x].after = tx[x].after
      BY <2>2, <1>a DEF Committed, Tx
    <3>2. QED BY <3>1, <2>2 DEF Pending, Holders
  <2>11. QED BY <2>1, <2>2, <2>3, <2>4, <2>6, <2>9, <2>10, <1>a, CommitStep
<1>19. ASSUME NEW q \in Requests, CommitDrop(q)
     PROVE  IInv'
  <2> DEFINE r == tx[q].role
  <2> DEFINE t == Deleting(tx[q], tx[q].after)
  <2>1. /\ tx[q].op = "drop" /\ tx[q].stage = "begun" /\ r \in Roles /\ r # Owner
        /\ tx[q].after \in SUBSET Keys
    BY <1>19, <1>a, <1>b DEF CommitDrop, Shaped, Tx
  <2>2. /\ roles' = roles \ {r}
        /\ assigned' = [u \in Users |-> assigned[u] \ {r}]
        /\ grants' = [grants EXCEPT ![r] = {}]
        /\ UNCHANGED <<paid, open>> /\ Committed(q, t)
    BY <1>19 DEF CommitDrop
  <2>3. /\ t \in Tx /\ Shaped(t) /\ t.op # "fill"
        /\ tx[q].after # {} => t.stage = "deleting" /\ t.after = tx[q].after
    BY <2>1, <1>b, DeletingType
  <2>4. /\ assigned' \in [Users -> SUBSET roles'] /\ grants' \in [Roles -> SUBSET Perms]
        /\ roles' \subseteq Roles /\ Owner \in roles'
    BY <2>1, <2>2, <1>a
  <2>5. tx'[q] = t
    BY <2>2, <1>a DEF Committed
  <2>6. Neglected(q) = Holders(r) \ tx[q].after /\ Neglected(q) \subseteq Keys
    BY <2>1 DEF Neglected, Holders, Keys
  <2>. HIDE DEF t
  <2>7. \A k \in tx[q].after : k \in Pending(q)'
    BY <2>3, <2>5 DEF Pending
  <2>8. \A k \in Holders(r) : k \in Neglected(q) \/ k \in Pending(q)'
    BY <2>6, <2>7
  <2>. HIDE DEF r
  <2>9. \A k \in Keys : k \notin Holders(r) => Truth(k)' = Truth(k)
    <3> SUFFICES ASSUME NEW k \in Keys, k \notin Holders(r) PROVE Truth(k)' = Truth(k)
        OBVIOUS
    <3>1. CASE k \in Users
      <4>1. assigned'[k] = assigned[k]
        BY <3>1, <2>2, <1>a DEF Holders
      <4>2. \A s \in assigned[k] : s \in Roles /\ grants'[s] = grants[s]
        BY <3>1, <2>1, <2>2, <1>a DEF Holders
      <4>3. QED BY <3>1, <4>1, <4>2 DEF Truth
    <3>2. CASE k \notin Users
      BY <3>2, <2>2 DEF Truth, Keys
    <3>3. QED BY <3>1, <3>2
  <2>10. \A k \in Changed : k \in Neglected(q) \/ k \in Pending(q)'
    BY <2>8, <2>9 DEF Changed
  <2>11. \A x \in Requests \ {q} : \A k \in Keys :
           k \in Pending(x) => k \in Pending(x)' \/ k \in Neglected(q) \/ k \in Pending(q)'
    <3> SUFFICES ASSUME NEW x \in Requests \ {q}, NEW k \in Keys,
                        k \in Pending(x), k \notin Holders(r)
               PROVE  k \in Pending(x)'
        BY <2>8
    <3>1. tx'[x].stage = tx[x].stage /\ tx'[x].role = tx[x].role /\ tx'[x].after = tx[x].after
      BY <2>2, <1>a DEF Committed, Tx
    <3>2. CASE tx[x].stage = "listing"
      <4>1. k \in Users /\ tx[x].role \in assigned[k] /\ r \notin assigned[k]
        BY <3>2 DEF Pending, Holders
      <4>2. tx[x].role \in assigned'[k]
        BY <4>1, <2>2, <1>a
      <4>3. QED BY <3>1, <3>2, <4>1, <4>2 DEF Pending, Holders
    <3>3. CASE tx[x].stage # "listing"
      BY <3>1, <3>3 DEF Pending
    <3>4. QED BY <3>2, <3>3
  <2>12. QED BY <2>1, <2>2, <2>3, <2>4, <2>6, <2>10, <2>11, <1>a, CommitStep
<1>20. ASSUME NEW q \in Requests, CommitTenant(q)
     PROVE  IInv'
  <2> DEFINE t == Deleting(tx[q], tx[q].after)
  <2>1. /\ tx[q].op \in {"tenant", "billing", "invoice", "stripe"} /\ tx[q].stage = "flushed"
        /\ tx[q].after \in SUBSET Keys /\ tx[q].paid \in BOOLEAN /\ tx[q].open \in BOOLEAN
        /\ tx[q].op = "tenant" => tx[q].after = {Tenant}
        /\ tx[q].op \in {"billing", "stripe"} => tx[q].after = {Modules}
    BY <1>20, <1>b DEF CommitTenant, Shaped, Tx
  <2>2. /\ paid' = IF tx[q].op = "tenant" THEN paid ELSE tx[q].paid
        /\ open' = IF tx[q].op \in {"tenant", "stripe"} THEN tx[q].open ELSE open
        /\ UNCHANGED <<roles, assigned, grants>> /\ Committed(q, t)
    BY <1>20 DEF CommitTenant
  <2>3. /\ t \in Tx /\ Shaped(t) /\ t.op # "fill"
        /\ tx[q].after # {} => t.stage = "deleting" /\ t.after = tx[q].after
    BY <2>1, <1>b, DeletingType
  <2>4. paid' \in BOOLEAN /\ open' \in BOOLEAN
    BY <2>1, <2>2, <1>a
  <2>5. tx'[q] = t
    BY <2>2, <1>a DEF Committed
  <2>6. Neglected(q) = IF tx[q].op = "invoice" THEN {Modules}
                       ELSE IF tx[q].op = "stripe" THEN {Tenant} ELSE {}
    BY <2>1 DEF Neglected
  <2>. HIDE DEF t
  <2>7. \A k \in tx[q].after : k \in Pending(q)'
    BY <2>3, <2>5 DEF Pending
  <2>8. /\ \A k \in Users : Truth(k)' = Truth(k)
        /\ tx[q].op = "tenant" => Truth(Modules)' = Truth(Modules)
        /\ tx[q].op \in {"billing", "invoice"} => Truth(Tenant)' = Truth(Tenant)
    BY <2>1, <2>2 DEF Truth
  <2>9. \A k \in Changed : k \in Neglected(q) \/ k \in Pending(q)'
    BY <2>1, <2>6, <2>7, <2>8 DEF Changed, Keys
  <2>10. \A x \in Requests \ {q} : \A k \in Keys : k \in Pending(x) => k \in Pending(x)'
    <3> SUFFICES ASSUME NEW x \in Requests \ {q} PROVE Pending(x)' = Pending(x)
        OBVIOUS
    <3>1. tx'[x].stage = tx[x].stage /\ tx'[x].role = tx[x].role /\ tx'[x].after = tx[x].after
      BY <2>2, <1>a DEF Committed, Tx
    <3>2. QED BY <3>1, <2>2 DEF Pending, Holders
  <2>11. Neglected(q) \subseteq Keys
    BY <2>6 DEF Keys
  <2>12. QED BY <2>1, <2>2, <2>3, <2>4, <2>9, <2>10, <2>11, <1>a, CommitStep
<1>21. ASSUME NEW k \in Keys, Expire(k)
     PROVE  IInv'
  <2>1. /\ cache' = [cache EXCEPT ![k] = Miss] /\ excused' = excused \ {k}
        /\ UNCHANGED <<roles, assigned, grants, paid, open, tx, ops>>
    BY <1>21 DEF Expire, db
  <2>2. TypeOK' /\ TxShape'
    BY <2>1, <1>a DEF IInv, TypeOK, TxShape
  <2>3. \A j \in Keys : Truth(j)' = Truth(j)
    BY <2>1, TruthKept
  <2>4. \A x \in Requests : Pending(x)' = Pending(x)
    BY <2>1, PendingKept
  <2>5. FillsKnown'
    BY <2>1, <2>3 DEF IInv, FillsKnown
  <2>6. Fresh'
    BY <2>1, <2>3, <2>4, <1>a DEF IInv, Fresh
  <2>7. QED BY <2>2, <2>5, <2>6 DEF IInv
<1>22. ASSUME NEW r \in Roles, CreateRole(r)
     PROVE  IInv'
  <2>1. /\ roles' = roles \cup {r} /\ ops' \in 0..MaxOps
        /\ UNCHANGED <<assigned, grants, paid, open, cache, tx, excused>>
    BY <1>22 DEF CreateRole, IInv, TypeOK
  <2>2. TypeOK' /\ TxShape'
    BY <2>1, <1>a DEF IInv, TypeOK, TxShape
  <2>3. \A j \in Keys : Truth(j)' = Truth(j)
    BY <2>1, TruthKept
  <2>4. \A x \in Requests : Pending(x)' = Pending(x)
    BY <2>1, PendingKept
  <2>5. FillsKnown'
    BY <2>1, <2>3 DEF IInv, FillsKnown
  <2>6. Fresh'
    BY <2>1, <2>3, <2>4 DEF IInv, Fresh
  <2>7. QED BY <2>2, <2>5, <2>6 DEF IInv
<1>23. CASE UNCHANGED vars
  <2>1. UNCHANGED <<roles, assigned, grants, paid, open, cache, tx, ops, excused>>
    BY <1>23 DEF vars, db
  <2>2. TypeOK' /\ TxShape'
    BY <2>1 DEF IInv, TypeOK, TxShape
  <2>3. \A j \in Keys : Truth(j)' = Truth(j)
    BY <2>1, TruthKept
  <2>4. \A x \in Requests : Pending(x)' = Pending(x)
    BY <2>1, PendingKept
  <2>5. FillsKnown' /\ Fresh'
    BY <2>1, <2>3, <2>4 DEF IInv, FillsKnown, Fresh
  <2>6. QED BY <2>2, <2>5 DEF IInv
<1>. QED
  BY <1>1, <1>2, <1>3, <1>4, <1>5, <1>6, <1>7, <1>8, <1>9, <1>10, <1>11, <1>12,
     <1>13, <1>14, <1>15, <1>16, <1>17, <1>18, <1>19, <1>20, <1>21, <1>22, <1>23
  DEF Next, Operation, Advance

\* The invariant holds in every reachable state.
THEOREM Inductive == Spec => []IInv
<1>1. Init => IInv
  <2> SUFFICES ASSUME Init PROVE IInv
      OBVIOUS
  <2>1. tx = [q \in Requests |-> Idle] /\ cache = [k \in Keys |-> Miss] /\ excused = {}
    BY DEF Init
  <2>2. TypeOK
    <3>1. Owner \in roles /\ roles \subseteq Roles /\ assigned \in [Users -> SUBSET roles]
      BY ConstantsAssumption DEF Init, ConstantsAssumption
    <3>2. grants \in [Roles -> SUBSET Perms]
      <4>1. (Perms \ Gated) \in SUBSET Perms /\ {} \in SUBSET Perms
        OBVIOUS
      <4>2. QED BY <4>1 DEF Init
    <3>3. cache \in [Keys -> {Miss} \cup SUBSET Rights] /\ excused \subseteq Keys
      BY <2>1
    <3>4. tx \in [Requests -> Tx]
      BY <2>1, IdleType
    <3>5. paid \in BOOLEAN /\ open \in BOOLEAN
      BY Zenon DEF Init
    <3>6. ops \in 0..MaxOps
      <4>1. MaxOps \in Nat
        BY ConstantsAssumption DEF ConstantsAssumption
      <4>2. ops = 0
        BY DEF Init
      <4>3. QED BY <4>1, <4>2
    <3>7. QED BY <3>1, <3>2, <3>3, <3>4, <3>5, <3>6 DEF TypeOK
  <2>3. TxShape
    BY <2>1, IdleType DEF TxShape
  <2>4. FillsKnown /\ Fresh
    BY <2>1 DEF FillsKnown, Fresh, Idle
  <2>5. QED BY <2>2, <2>3, <2>4 DEF IInv
<1>2. QED BY <1>1, InvStep, PTL DEF Spec

\* Every variable keeps its type: in particular no user has a role that is gone
\* (tenant_app/roles.py, users.py, router.py).
THEOREM TypeCorrect == Spec => []TypeOK
<1>1. IInv => TypeOK
  BY DEF IInv
<1>2. QED BY <1>1, Inductive, PTL

\* An entry of the cache (core/permissions.py, module_registry.py, tenant_context.py)
\* says what the database says, or is about to be deleted, or is out of date for one of
\* the named reasons, for any number of users, roles, requests and operations.
THEOREM EntriesAreFresh == Spec => []Fresh
<1>1. IInv => Fresh
  BY DEF IInv
<1>2. QED BY <1>1, Inductive, PTL
=============================================================================
