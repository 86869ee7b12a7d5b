---------------------------- MODULE ProvidersProofs ----------------------------
(***************************************************************************)
(* Proofs about Providers, for any requests, providers and slots: in a     *)
(* slot that no provider was inserted in or moved to while another save    *)
(* was in progress, the row locks leave at most one default.               *)
(***************************************************************************)
EXTENDS Providers, FiniteSetTheorems, TLAPS

USE ConstantsAssumption

-----------------------------------------------------------------------------
(* Facts about the operators *)

\* A request without a transaction holds nothing.
LEMMA IdleType == Idle \in Tx /\ Shaped(Idle) /\ Idle.op = "none" /\ Idle.me \notin Providers
BY DEF Idle, Tx, Shaped, ConstantsAssumption

\* Each column is written if the request has changed it (Merge).
LEMMA MergeRow ==
    ASSUME NEW row \in Row, NEW old \in Row, NEW new \in Row
    PROVE  /\ Merge(row, old, new) \in Row
           /\ Merge(row, old, new).slot = IF new.slot # old.slot THEN new.slot ELSE row.slot
           /\ Merge(row, old, new).default =
                  IF new.default # old.default THEN new.default ELSE row.default
<1>1. Merge(row, old, new) =
        [slot    |-> IF new.slot # old.slot THEN new.slot ELSE row.slot,
         default |-> IF new.default # old.default THEN new.default ELSE row.default,
         active  |-> IF new.active # old.active THEN new.active ELSE row.active,
         test    |-> IF new.test # old.test THEN new.test ELSE row.test]
  BY DEF Merge, Row
<1>2. QED BY <1>1 DEF Row

\* A set without two different elements has at most one.
LEMMA AtMostOne ==
    ASSUME NEW S, \A x, y \in S : x = y
    PROVE  Cardinality(S) <= 1
<1>1. CASE S = {}
  BY <1>1, FS_EmptySet
<1>2. CASE S # {}
  <2>1. PICK x \in S : TRUE
    BY <1>2
  <2>2. S = {x}
    BY <2>1
  <2>3. Cardinality({x}) = 1
    BY FS_Singleton
  <2>4. QED BY <2>2, <2>3
<1>3. QED BY <1>1, <1>2

-----------------------------------------------------------------------------
(* Types and locks *)

\* The request that a lock belongs to has cleared the row.
LockOwned == \A p \in Providers : lock[p] # Nobody => p \in tx[lock[p]].cleared

\* A transaction ends: its locks go, the others keep theirs (Release).
LEMMA ReleaseStep ==
    ASSUME TypeOK, TxShape, ClearedIsHeld, NEW q \in Requests, Release(q)
    PROVE  /\ tx' \in [Requests -> Tx] /\ TxShape' /\ LockOwned'
           /\ lock' \in [Providers -> Requests \cup {Nobody}]
           /\ tx'[q] = Idle /\ \A k \in Requests \ {q} : tx'[k] = tx[k]
           /\ \A k \in Requests \ {q} : \A p \in tx[k].cleared : lock'[p] = k
<1>1. /\ tx \in [Requests -> Tx] /\ tx' = [tx EXCEPT ![q] = Idle]
      /\ lock \in [Providers -> Requests \cup {Nobody}]
      /\ lock' = [p \in Providers |-> IF lock[p] = q THEN Nobody ELSE lock[p]]
      /\ \A p \in Providers : lock[p] # Nobody => p \in tx[lock[p]].cleared
  BY DEF TypeOK, Release
<1>2. /\ tx' \in [Requests -> Tx] /\ tx'[q] = Idle
      /\ \A k \in Requests \ {q} : tx'[k] = tx[k]
  BY <1>1, IdleType
<1>3. TxShape'
  BY <1>2, IdleType DEF TxShape
<1>4. lock' \in [Providers -> Requests \cup {Nobody}]
  BY <1>1
<1>5. LockOwned'
  BY <1>1, <1>2 DEF LockOwned
<1>6. \A k \in Requests \ {q} : \A p \in tx[k].cleared : lock'[p] = k
  <2> SUFFICES ASSUME NEW k \in Requests \ {q}, NEW p \in tx[k].cleared PROVE lock'[p] = k
      OBVIOUS
  <2>1. p \in Providers /\ lock[p] = k
    BY <1>1 DEF Tx, ClearedIsHeld
  <2>2. QED BY <1>1, <2>1
<1>7. QED BY <1>2, <1>3, <1>4, <1>5, <1>6

\* Saves that have to do with each other.
Meet(q, k) ==
    /\ tx[q].op = "save" /\ tx[k].op = "save"
    /\ tx[k].me = tx[q].me \/ Touches(q) \cap Touches(k) # {}

\* What a commit writes: the provider itself, and is_default of those that it has
\* cleared; and what it adds to the history.
LEMMA CommitFacts ==
    ASSUME TypeOK, TxShape, ClearedIsHeld, OwnRow, NEW q \in Requests, Commit(q)
    PROVE  /\ tx[q].me \in Providers /\ tx[q].new \in Row
           /\ tx[q].old \in Row \cup {NoRow}
           /\ rows' \in [Providers -> Row \cup {NoRow}]
           /\ rows'[tx[q].me] # NoRow
           /\ tx[q].old = NoRow => rows'[tx[q].me] = tx[q].new
           /\ tx[q].old # NoRow =>
                 /\ rows[tx[q].me] # NoRow
                 /\ rows'[tx[q].me].slot = IF tx[q].new.slot # tx[q].old.slot
                                           THEN tx[q].new.slot ELSE rows[tx[q].me].slot
                 /\ rows'[tx[q].me].default = IF tx[q].new.default # tx[q].old.default
                                              THEN tx[q].new.default
                                              ELSE rows[tx[q].me].default
           /\ \A p \in Providers \ {tx[q].me} :
                 IF p \in tx[q].cleared
                 THEN /\ rows[p] # NoRow /\ rows'[p] # NoRow
                      /\ rows'[p].slot = rows[p].slot /\ rows[p].slot = tx[q].new.slot
                      /\ ~rows'[p].default
                 ELSE rows'[p] = rows[p]
           /\ \A k \in Requests \ {q} : tx[q].me \in tx[k].cleared =>
                 rows[tx[q].me] # NoRow /\ rows'[tx[q].me].slot = rows[tx[q].me].slot
<1> DEFINE t == tx[q]
<1>1. /\ t.op # "none" /\ t.me \in Providers /\ t.new \in Row /\ t.old \in Row \cup {NoRow}
      /\ t.cleared \in SUBSET Providers
      /\ rows \in [Providers -> Row \cup {NoRow}]
      /\ t.old # NoRow => rows[t.me] # NoRow
      /\ t.writes => lock[t.me] = Nobody
      /\ t.writes \/ t.new = t.old
  BY DEF TypeOK, Tx, TxShape, Shaped, Commit, OwnRow
<1>2. \A p \in Providers :
        rows'[p] = IF p = t.me
                   THEN IF t.old = NoRow THEN t.new ELSE Merge(rows[p], t.old, t.new)
                   ELSE IF p \in t.cleared THEN [rows[p] EXCEPT !.default = FALSE]
                   ELSE rows[p]
  BY DEF Commit
<1>3. NoRow \notin Row
  BY DEF ConstantsAssumption
<1>4. ASSUME t.old # NoRow
      PROVE  /\ rows'[t.me] \in Row
             /\ rows'[t.me].slot = IF t.new.slot # t.old.slot THEN t.new.slot
                                   ELSE rows[t.me].slot
             /\ rows'[t.me].default = IF t.new.default # t.old.default THEN t.new.default
                                      ELSE rows[t.me].default
  <2>1. rows[t.me] \in Row /\ t.old \in Row /\ t.new \in Row
    BY <1>1, <1>4
  <2>2. rows'[t.me] = Merge(rows[t.me], t.old, t.new)
    BY <1>1, <1>2, <1>4
  <2>3. QED BY <2>1, <2>2, MergeRow
<1>5. ASSUME NEW p \in Providers \ {t.me}
      PROVE  IF p \in t.cleared
             THEN /\ rows[p] # NoRow /\ rows'[p] \in Row
                  /\ rows'[p].slot = rows[p].slot /\ rows[p].slot = t.new.slot
                  /\ ~rows'[p].default
             ELSE rows'[p] = rows[p]
  <2>1. CASE p \in t.cleared
    <3>1. rows[p] # NoRow /\ rows[p] \in Row /\ rows[p].slot = t.new.slot
      BY <1>1, <2>1 DEF ClearedIsHeld
    <3>2. rows'[p] = [rows[p] EXCEPT !.default = FALSE]
      BY <1>2, <2>1
    <3>3. QED BY <2>1, <3>1, <3>2 DEF Row
  <2>2. CASE p \notin t.cleared
    BY <1>2, <2>2
  <2>3. QED BY <2>1, <2>2
<1>6. rows' \in [Providers -> Row \cup {NoRow}]
  <2>1. \A p \in Providers : rows'[p] \in Row \cup {NoRow}
    <3>1. rows'[t.me] \in Row
      BY <1>1, <1>2, <1>4
    <3>2. QED BY <1>1, <1>5, <3>1
  <2>2. rows' = [p \in Providers |-> rows'[p]]
    BY DEF Commit
  <2>3. QED BY <2>1, <2>2
<1>7. \A k \in Requests \ {q} : t.me \in tx[k].cleared =>
        rows[t.me] # NoRow /\ rows'[t.me].slot = rows[t.me].slot
  <2> SUFFICES ASSUME NEW k \in Requests \ {q}, t.me \in tx[k].cleared
               PROVE  rows[t.me] # NoRow /\ rows'[t.me].slot = rows[t.me].slot
      OBVIOUS
  <2>1. lock[t.me] = k /\ k # Nobody /\ rows[t.me] # NoRow
    BY DEF ClearedIsHeld, ConstantsAssumption
  <2>2. t.new = t.old /\ t.old # NoRow
    BY <1>1, <1>3, <2>1
  <2>3. QED BY <1>4, <2>1, <2>2
<1>8. rows'[t.me] # NoRow /\ (t.old = NoRow => rows'[t.me] = t.new)
  BY <1>1, <1>2, <1>3, <1>4
<1>9. \A p \in Providers \ {t.me} :
         IF p \in t.cleared
         THEN /\ rows[p] # NoRow /\ rows'[p] # NoRow
              /\ rows'[p].slot = rows[p].slot /\ rows[p].slot = t.new.slot
              /\ ~rows'[p].default
         ELSE rows'[p] = rows[p]
  BY <1>3, <1>5
<1>10. QED BY <1>1, <1>4, <1>6, <1>7, <1>8, <1>9

\* What a commit adds to the history concerns the saves that it meets.
LEMMA CommitHistory ==
    ASSUME TypeOK, NEW q \in Requests, Commit(q)
    PROVE  /\ contended \subseteq contended' /\ unguarded \subseteq unguarded'
           /\ \A k \in Requests \ {q} : Meet(q, k) =>
                 /\ Touches(q) \cup Touches(k) \subseteq contended'
                 /\ Moves(q) \/ Moves(k) => Touches(q) \cup Touches(k) \subseteq unguarded'
<1> DEFINE others == {k \in Requests \ {q} : Meet(q, k)}
<1>1. /\ contended' = contended \cup UNION {Touches(q) \cup Touches(k) : k \in others}
      /\ unguarded' = unguarded \cup UNION {Touches(q) \cup Touches(k) :
                                              k \in {j \in others : Moves(q) \/ Moves(j)}}
  BY DEF Commit, Meet
<1>2. QED BY <1>1

\* The slots a request has a say in are slots, and are the history's.
LEMMA TouchesType ==
    ASSUME TypeOK, TxShape, NEW q \in Requests
    PROVE  Touches(q) \subseteq Slots
<1>1. /\ tx[q].old \in Row \cup {NoRow}
      /\ tx[q].op = "save" => tx[q].new \in Row
  BY DEF TypeOK, Tx, TxShape, Shaped
<1>2. QED BY <1>1 DEF Touches, Row

\* The types and the locks are kept when a request begins (Begin) ...
LEMMA BeginStep ==
    ASSUME TypeOK, TxShape, NEW q \in Requests, NEW t \in Tx, Shaped(t), t.cleared = {},
           tx[q].op = "none", ops < MaxOps, ops' = ops + 1, tx' = [tx EXCEPT ![q] = t],
           UNCHANGED <<rows, lock, chosen, contended, unguarded>>
    PROVE  /\ TypeOK' /\ TxShape' /\ tx'[q] = t
           /\ \A k \in Requests \ {q} : tx'[k] = tx[k]
<1>1. tx \in [Requests -> Tx] /\ lock \in [Providers -> Requests \cup {Nobody}]
  BY DEF TypeOK
<1>2. tx' \in [Requests -> Tx] /\ tx'[q] = t /\ \A k \in Requests \ {q} : tx'[k] = tx[k]
  BY <1>1
<1>3. ops' \in 0..MaxOps
  BY DEF TypeOK, ConstantsAssumption
<1>4. \A p \in Providers : lock'[p] # Nobody => p \in tx'[lock'[p]].cleared
  <2>1. tx[q].cleared = {}
    BY DEF TxShape, Shaped
  <2>2. QED BY <1>1, <1>2, <2>1 DEF TypeOK
<1>5. TypeOK'
  BY <1>2, <1>3, <1>4 DEF TypeOK
<1>6. TxShape'
  BY <1>2 DEF TxShape
<1>7. QED BY <1>2, <1>5, <1>6

\* ... and what it is going to write is well formed (Request).
LEMMA RequestShape ==
    ASSUME TypeOK, TxShape, NEW q \in Requests, Request(q)
    PROVE  \E p \in Providers, t \in Tx :
              /\ Shaped(t) /\ t.op # "none" /\ t.me = p /\ t.old = rows[p]
              /\ ~t.started /\ t.todo = {} /\ t.cleared = {}
              /\ rows[p] = NoRow => t.op = "save" /\ \A k \in Requests : tx[k].me # p
              /\ tx[q].op = "none" /\ ops < MaxOps /\ ops' = ops + 1
              /\ tx' = [tx EXCEPT ![q] = t]
              /\ UNCHANGED <<rows, lock, chosen, contended, unguarded>>
<1> DEFINE T(op, p, new, w) == [Idle EXCEPT !.op = op, !.me = p, !.old = rows[p], !.new = new,
                                             !.writes = w]
           Goal(p, t) ==
              /\ Shaped(t) /\ t.op # "none" /\ t.me = p /\ t.old = rows[p]
              /\ ~t.started /\ t.todo = {} /\ t.cleared = {}
              /\ rows[p] = NoRow => t.op = "save" /\ \A k \in Requests : tx[k].me # p
              /\ tx[q].op = "none" /\ ops < MaxOps /\ ops' = ops + 1
              /\ tx' = [tx EXCEPT ![q] = t]
              /\ UNCHANGED <<rows, lock, chosen, contended, unguarded>>
<1>0. NoRow \notin Row /\ rows \in [Providers -> Row \cup {NoRow}]
  BY DEF ConstantsAssumption, TypeOK
<1>1. ASSUME NEW p \in Providers, NEW op \in {"save", "test", "switch"}, NEW new \in Row,
             rows[p] = NoRow => op = "save" /\ \A k \in Requests : tx[k].me # p,
             op # "save" => new.slot = rows[p].slot /\ new.default = rows[p].default,
             Begin(q, op, p, new)
      PROVE  \E t \in Tx : Goal(p, t)
  <2>1. PICK w \in BOOLEAN :
           /\ w \/ new = rows[p]
           /\ tx[q].op = "none" /\ ops < MaxOps /\ ops' = ops + 1
           /\ tx' = [tx EXCEPT ![q] = T(op, p, new, w)]
           /\ UNCHANGED <<rows, lock, chosen, contended, unguarded>>
    BY <1>1 DEF Begin, history
  <2> DEFINE t == T(op, p, new, w)
  <2>2. /\ t.op = op /\ t.me = p /\ t.old = rows[p] /\ t.new = new /\ t.writes = w
        /\ ~t.started /\ t.todo = {} /\ t.cleared = {} /\ t \in Tx
    BY <1>0, <2>1 DEF Idle, Tx
  <2> HIDE DEF t
  <2>3. Shaped(t)
    BY <1>0, <1>1, <2>1, <2>2 DEF Shaped
  <2>4. tx' = [tx EXCEPT ![q] = t]
    BY <2>1 DEF t
  <2>5. QED BY <1>1, <2>1, <2>2, <2>3, <2>4
<1> HIDE DEF T, Goal
<1>2. ASSUME NEW p \in Providers, NEW s \in Slots, NEW default \in BOOLEAN,
             CreateProvider(q, p, s, default)
      PROVE  \E t \in Tx : Goal(p, t)
  <2>1. [slot |-> s, default |-> default, active |-> TRUE, test |-> "none"] \in Row
    BY DEF Row
  <2>2. QED BY <1>1, <1>2, <2>1 DEF CreateProvider
<1>3. ASSUME NEW p \in Providers, NEW s \in Slots, NEW default \in BOOLEAN,
             NEW active \in BOOLEAN, UpdateProvider(q, p, s, default, active)
      PROVE  \E t \in Tx : Goal(p, t)
  <2>1. rows[p] \in Row
    BY <1>0, <1>3 DEF UpdateProvider
  <2>2. [rows[p] EXCEPT !.slot = s, !.default = default, !.active = active] \in Row
    BY <2>1 DEF Row
  <2>3. QED BY <1>1, <1>3, <2>2 DEF UpdateProvider
<1>4. ASSUME NEW p \in Providers, NEW b \in BOOLEAN, TestProvider(q, p, b)
      PROVE  \E t \in Tx : Goal(p, t)
  <2> DEFINE result == IF rows[p].active /\ b THEN "success" ELSE "failed"
             new    == [rows[p] EXCEPT !.test = result]
  <2>1. rows[p] \in Row /\ rows[p] # NoRow
    BY <1>0, <1>4 DEF TestProvider
  <2>2. result \in {"success", "failed"}
    OBVIOUS
  <2>3. new \in Row /\ new.slot = rows[p].slot /\ new.default = rows[p].default
    <3> HIDE DEF result
    <3>1. QED BY <2>1, <2>2 DEF Row
  <2>4. Begin(q, "test", p, new)
    BY <1>4 DEF TestProvider
  <2> HIDE DEF new
  <2>5. QED BY <1>1, <2>1, <2>3, <2>4
<1>5. ASSUME NEW p \in Providers, NEW b \in BOOLEAN, SetActive(q, p, b)
      PROVE  \E t \in Tx : Goal(p, t)
  <2> DEFINE new == [rows[p] EXCEPT !.active = b]
  <2>1. rows[p] \in Row /\ rows[p] # NoRow /\ Begin(q, "switch", p, new)
    BY <1>0, <1>5 DEF SetActive
  <2>2. new \in Row /\ new.slot = rows[p].slot /\ new.default = rows[p].default
    BY <2>1 DEF Row
  <2> HIDE DEF new
  <2>3. QED BY <1>1, <2>1, <2>2
<1>6. \E p \in Providers : \E t \in Tx : Goal(p, t)
  BY <1>2, <1>3, <1>4, <1>5 DEF Request
<1>7. QED BY <1>6 DEF Goal

\* The UPDATE looks at some rows, locks and clears them (StartClearing, ClearRow).
LEMMA ClearingStep ==
    ASSUME TypeOK, TxShape, NEW q \in Requests,
           StartClearing(q) \/ \E p \in Providers : ClearRow(q, p)
    PROVE  /\ TypeOK' /\ TxShape'
           /\ \A k \in Requests \ {q} : tx'[k] = tx[k]
           /\ tx[q].op = "save" /\ tx[q].new.default
           /\ tx'[q].op = tx[q].op /\ tx'[q].me = tx[q].me /\ tx'[q].old = tx[q].old
           /\ tx'[q].new = tx[q].new
           /\ UNCHANGED <<rows, ops, chosen, contended, unguarded>>
<1>a. /\ tx \in [Requests -> Tx] /\ tx[q] \in Tx /\ Shaped(tx[q])
      /\ lock \in [Providers -> Requests \cup {Nobody}]
      /\ \A p \in Providers : lock[p] # Nobody => p \in tx[lock[p]].cleared
  BY DEF TypeOK, TxShape
<1>1. CASE StartClearing(q)
  <2> DEFINE x == [tx[q] EXCEPT !.started = TRUE, !.todo = In(tx[q].new.slot) \ {tx[q].me}]
  <2>1. /\ tx' = [tx EXCEPT ![q] = x] /\ tx[q].op = "save" /\ tx[q].new.default
        /\ UNCHANGED <<rows, lock, ops, chosen, contended, unguarded>>
    BY <1>1, <1>a DEF StartClearing, Clears, history
  <2>2. (In(tx[q].new.slot) \ {tx[q].me}) \in SUBSET Providers
    BY DEF In
  <2>3. /\ x \in Tx /\ x.op = tx[q].op /\ x.me = tx[q].me /\ x.old = tx[q].old
        /\ x.new = tx[q].new /\ x.writes = tx[q].writes /\ x.cleared = tx[q].cleared
        /\ x.started
    BY <1>a, <2>2 DEF Tx
  <2> HIDE DEF x
  <2>4. Shaped(x)
    BY <1>a, <2>1, <2>3 DEF Shaped
  <2>5. tx' \in [Requests -> Tx] /\ tx'[q] = x /\ \A k \in Requests \ {q} : tx'[k] = tx[k]
    BY <1>a, <2>1, <2>3
  <2>6. TxShape'
    BY <2>4, <2>5 DEF TxShape
  <2>7. \A p \in Providers : lock'[p] # Nobody => p \in tx'[lock'[p]].cleared
    BY <1>a, <2>1, <2>3, <2>5
  <2>8. TypeOK'
    BY <2>1, <2>5, <2>7 DEF TypeOK
  <2>9. QED BY <2>1, <2>3, <2>5, <2>6, <2>8
<1>2. ASSUME NEW p \in Providers, ClearRow(q, p)
      PROVE  /\ TypeOK' /\ TxShape'
             /\ \A k \in Requests \ {q} : tx'[k] = tx[k]
             /\ tx[q].op = "save" /\ tx[q].new.default
             /\ tx'[q].op = tx[q].op /\ tx'[q].me = tx[q].me /\ tx'[q].old = tx[q].old
             /\ tx'[q].new = tx[q].new
             /\ UNCHANGED <<rows, ops, chosen, contended, unguarded>>
  <2> DEFINE matches == rows[p].slot = tx[q].new.slot
             C == IF matches THEN tx[q].cleared \cup {p} ELSE tx[q].cleared
             x == [tx[q] EXCEPT !.todo = tx[q].todo \ {p}, !.cleared = C]
  <2>1. /\ tx' = [tx EXCEPT ![q] = x] /\ p \in tx[q].todo /\ lock[p] = Nobody
        /\ lock' = IF matches THEN [lock EXCEPT ![p] = q] ELSE lock
        /\ UNCHANGED <<rows, ops, chosen, contended, unguarded>>
    BY <1>2, <1>a DEF ClearRow, history
  <2>2. tx[q].op = "save" /\ tx[q].new.default /\ tx[q].started
    BY <1>a, <2>1 DEF Shaped
  <2>3. (tx[q].todo \ {p}) \in SUBSET Providers /\ C \in SUBSET Providers
    BY <1>a DEF Tx
  <2>4. /\ tx[q].cleared \subseteq C
        /\ IF matches THEN p \in C /\ lock' = [lock EXCEPT ![p] = q] ELSE lock' = lock
    BY <2>1
  <2> HIDE DEF C, matches
  <2>5. /\ x \in Tx /\ x.op = tx[q].op /\ x.me = tx[q].me /\ x.old = tx[q].old
        /\ x.new = tx[q].new /\ x.writes = tx[q].writes /\ x.cleared = C /\ x.started
    BY <1>a, <2>2, <2>3 DEF Tx
  <2> HIDE DEF x
  <2>6. Shaped(x)
    BY <1>a, <2>2, <2>5 DEF Shaped
  <2>7. tx' \in [Requests -> Tx] /\ tx'[q] = x /\ \A k \in Requests \ {q} : tx'[k] = tx[k]
    BY <1>a, <2>1, <2>5
  <2>8. TxShape'
    BY <2>6, <2>7 DEF TxShape
  <2>9. lock' \in [Providers -> Requests \cup {Nobody}]
    BY <1>a, <2>4
  <2>10. \A u \in Providers : lock'[u] # Nobody => u \in tx'[lock'[u]].cleared
    BY <1>a, <2>4, <2>5, <2>7
  <2>11. TypeOK'
    BY <2>1, <2>7, <2>9, <2>10 DEF TypeOK
  <2>12. QED BY <2>1, <2>2, <2>5, <2>7, <2>8, <2>11
<1>3. QED
  <2>1. CASE StartClearing(q)
    <3>1. TypeOK' /\ TxShape'
      BY <1>1, <2>1
    <3>2. QED BY <1>1, <2>1
  <2>2. CASE \E p \in Providers : ClearRow(q, p)
    BY <1>2, <2>2
  <2>3. QED BY <2>1, <2>2

-----------------------------------------------------------------------------
(* Requests and their UPDATE *)

\* What a new request has read is current.
LEMMA RequestKeeps ==
    ASSUME IInv, NEW q \in Requests, Request(q)
    PROVE  IInv'
<1>1. PICK p \in Providers, t \in Tx :
        /\ Shaped(t) /\ t.op # "none" /\ t.me = p /\ t.old = rows[p]
        /\ ~t.started /\ t.todo = {} /\ t.cleared = {}
        /\ rows[p] = NoRow => t.op = "save" /\ \A k \in Requests : tx[k].me # p
        /\ tx[q].op = "none" /\ ops < MaxOps /\ ops' = ops + 1
        /\ tx' = [tx EXCEPT ![q] = t]
        /\ UNCHANGED <<rows, lock, chosen, contended, unguarded>>
  BY RequestShape DEF IInv
<1>2. /\ TypeOK' /\ TxShape' /\ tx'[q] = t
      /\ \A k \in Requests \ {q} : tx'[k] = tx[k]
  BY <1>1, BeginStep DEF IInv
<1>3. ClearedIsHeld'
  BY <1>1, <1>2 DEF IInv, ClearedIsHeld
<1>4. OwnRow'
  <2> SUFFICES ASSUME NEW k \in Requests, tx'[k].op # "none"
               PROVE  IF tx'[k].old # NoRow THEN rows[tx'[k].me] # NoRow
                      ELSE /\ rows[tx'[k].me] = NoRow
                           /\ \A j \in Requests \ {k} : tx'[j].me # tx'[k].me
      BY <1>1 DEF OwnRow
  <2>1. CASE k = q
    BY <1>1, <1>2, <2>1
  <2>2. CASE k # q
    BY <1>1, <1>2, <2>2 DEF IInv, OwnRow
  <2>3. QED BY <2>1, <2>2
<1>5. AllInView'
  BY <1>1, <1>2 DEF IInv, AllInView, Clears, In
<1>6. SlotIsFresh'
  BY <1>1, <1>2 DEF IInv, SlotIsFresh, Around, Touches
<1>7. MoveIsFresh'
  BY <1>1, <1>2 DEF IInv, MoveIsFresh, Moves
<1>8. CopyIsFresh'
  BY <1>1, <1>2 DEF IInv, CopyIsFresh, Around, Touches
<1>9. Unique' /\ DefaultKept'
  BY <1>1 DEF IInv, Unique, DefaultKept, Defaults, In
<1>10. QED BY <1>2, <1>3, <1>4, <1>5, <1>6, <1>7, <1>8, <1>9 DEF IInv

\* The UPDATE sees what is committed in its slot; a row that it finds elsewhere has
\* left the slot.
LEMMA ClearingKeeps ==
    ASSUME IInv, NEW q \in Requests, StartClearing(q) \/ \E p \in Providers : ClearRow(q, p)
    PROVE  IInv'
<1>1. /\ TypeOK' /\ TxShape'
      /\ \A k \in Requests \ {q} : tx'[k] = tx[k]
      /\ tx'[q].op = tx[q].op /\ tx'[q].me = tx[q].me /\ tx'[q].old = tx[q].old
      /\ tx'[q].new = tx[q].new /\ tx[q].op = "save" /\ tx[q].new.default
      /\ UNCHANGED <<rows, ops, chosen, contended, unguarded>>
  BY ClearingStep DEF IInv
<1>2. \A k \in Requests : /\ tx'[k].op = tx[k].op /\ tx'[k].me = tx[k].me
                          /\ tx'[k].old = tx[k].old /\ tx'[k].new = tx[k].new
  BY <1>1
<1>3. OwnRow'
  BY <1>1, <1>2 DEF IInv, OwnRow
<1>4. SlotIsFresh'
  BY <1>1, <1>2 DEF IInv, SlotIsFresh, Around, Touches
<1>5. MoveIsFresh'
  BY <1>1, <1>2 DEF IInv, MoveIsFresh, Moves
<1>6. CopyIsFresh'
  BY <1>1, <1>2 DEF IInv, CopyIsFresh, Around, Touches
<1>7. Unique' /\ DefaultKept'
  BY <1>1 DEF IInv, Unique, DefaultKept, Defaults, In
<1>a. tx[q] \in Tx /\ tx \in [Requests -> Tx] /\ lock \in [Providers -> Requests \cup {Nobody}]
  BY DEF IInv, TypeOK
<1>8. ClearedIsHeld' /\ AllInView'
  <2>1. CASE StartClearing(q)
    <3>1. /\ tx'[q].cleared = tx[q].cleared /\ lock' = lock
          /\ tx'[q].todo = In(tx[q].new.slot) \ {tx[q].me}
      BY <1>a, <2>1 DEF StartClearing, Tx
    <3>2. ClearedIsHeld'
      BY <1>1, <3>1 DEF IInv, ClearedIsHeld, In
    <3>3. AllInView'
      BY <1>1, <3>1 DEF IInv, AllInView, Clears, In
    <3>4. QED BY <3>2, <3>3
  <2>2. ASSUME NEW p \in Providers, ClearRow(q, p) PROVE ClearedIsHeld' /\ AllInView'
    <3> DEFINE matches == rows[p].slot = tx[q].new.slot
    <3>1. /\ tx'[q].cleared = IF matches THEN tx[q].cleared \cup {p} ELSE tx[q].cleared
          /\ tx'[q].todo = tx[q].todo \ {p} /\ tx'[q].started = tx[q].started
          /\ lock' = IF matches THEN [lock EXCEPT ![p] = q] ELSE lock
          /\ p \in tx[q].todo /\ lock[p] = Nobody
      BY <1>a, <2>2 DEF ClearRow, Tx
    <3>2. AllInView'
      BY <1>1, <3>1 DEF IInv, AllInView, Clears, In
    <3>3. ClearedIsHeld'
      <4> SUFFICES ASSUME NEW k \in Requests, NEW u \in tx'[k].cleared
                   PROVE  /\ lock'[u] = k /\ rows[u] # NoRow
                          /\ rows[u].slot = tx'[k].new.slot
        <5>1. \A k \in Requests : \A u \in tx'[k].todo : rows'[u] # NoRow
          BY <1>1, <3>1 DEF IInv, ClearedIsHeld
        <5>2. QED BY <1>1, <5>1 DEF ClearedIsHeld
      <4>1. CASE u \in tx[k].cleared
        <5>1. lock[u] = k /\ rows[u] # NoRow /\ rows[u].slot = tx[k].new.slot /\ u # p
          BY <3>1, <4>1 DEF IInv, ClearedIsHeld, ConstantsAssumption
        <5>2. u \in Providers
          BY <1>a, <4>1 DEF Tx
        <5>3. QED BY <1>a, <1>2, <3>1, <5>1, <5>2
      <4>2. CASE u \notin tx[k].cleared
        <5>1. k = q /\ u = p /\ matches
          BY <1>1, <3>1, <4>2
        <5>2. lock'[u] = k /\ rows[u].slot = tx'[k].new.slot
          BY <1>a, <1>2, <3>1, <5>1
        <5>3. rows[p] # NoRow
          BY <1>a, <3>1 DEF IInv, ClearedIsHeld
        <5>4. QED BY <5>1, <5>2, <5>3
      <4>3. QED BY <4>1, <4>2
    <3>4. QED BY <3>2, <3>3
  <2>3. QED BY <2>1, <2>2
<1>9. QED BY <1>1, <1>3, <1>4, <1>5, <1>6, <1>7, <1>8 DEF IInv

-----------------------------------------------------------------------------
(* Commits *)

\* A transaction that is rolled back leaves no trace.
LEMMA ReleaseKeeps ==
    ASSUME IInv, NEW q \in Requests, Release(q),
           UNCHANGED <<rows, ops, chosen, contended, unguarded>>
    PROVE  IInv'
<1>1. /\ tx' \in [Requests -> Tx] /\ TxShape' /\ LockOwned'
      /\ lock' \in [Providers -> Requests \cup {Nobody}]
      /\ tx'[q] = Idle /\ \A k \in Requests \ {q} : tx'[k] = tx[k]
      /\ \A k \in Requests \ {q} : \A p \in tx[k].cleared : lock'[p] = k
  BY ReleaseStep DEF IInv
<1>2. TypeOK'
  BY <1>1 DEF IInv, TypeOK, LockOwned
<1>3. /\ Idle.op = "none" /\ Idle.cleared = {} /\ Idle.todo = {} /\ Idle.me = Nobody
      /\ Nobody \notin Providers
  BY DEF Idle, ConstantsAssumption
<1>4. ClearedIsHeld'
  BY <1>1, <1>3 DEF IInv, ClearedIsHeld
<1>5. OwnRow'
  BY <1>1, <1>3 DEF IInv, OwnRow, TxShape, Shaped
<1>6. AllInView'
  BY <1>1, <1>3 DEF IInv, AllInView, Clears, In
<1>7. SlotIsFresh' /\ CopyIsFresh'
  BY <1>1, <1>3 DEF IInv, SlotIsFresh, CopyIsFresh, Around, Touches
<1>8. MoveIsFresh'
  BY <1>1, <1>3 DEF IInv, MoveIsFresh, Moves
<1>9. Unique' /\ DefaultKept'
  BY DEF IInv, Unique, DefaultKept, Defaults, In
<1>10. QED BY <1>1, <1>2, <1>4, <1>5, <1>6, <1>7, <1>8, <1>9 DEF IInv

\* What a commit of p writes never stays behind what another has read without the
\* history telling; the default it writes is the only one where all were in view.
LEMMA CommitKeeps ==
    ASSUME IInv, NEW q \in Requests, Commit(q)
    PROVE  IInv'
<1> DEFINE t == tx[q]
           p == t.me
<1>1. /\ p \in Providers /\ t.new \in Row /\ t.old \in Row \cup {NoRow}
      /\ rows' \in [Providers -> Row \cup {NoRow}]
      /\ rows'[p] # NoRow
      /\ t.old = NoRow => rows'[p] = t.new
      /\ t.old # NoRow =>
            /\ rows[p] # NoRow
            /\ rows'[p].slot = IF t.new.slot # t.old.slot THEN t.new.slot ELSE rows[p].slot
            /\ rows'[p].default = IF t.new.default # t.old.default THEN t.new.default
                                  ELSE rows[p].default
  BY CommitFacts DEF IInv
<1>2. /\ \A u \in Providers \ {p} :
            IF u \in t.cleared
            THEN /\ rows[u] # NoRow /\ rows'[u] # NoRow
                 /\ rows'[u].slot = rows[u].slot /\ rows[u].slot = t.new.slot
                 /\ ~rows'[u].default
            ELSE rows'[u] = rows[u]
      /\ \A k \in Requests \ {q} : p \in tx[k].cleared =>
            rows[p] # NoRow /\ rows'[p].slot = rows[p].slot
  BY CommitFacts DEF IInv
<1>3. /\ tx' \in [Requests -> Tx] /\ TxShape' /\ LockOwned'
      /\ lock' \in [Providers -> Requests \cup {Nobody}]
      /\ tx'[q] = Idle /\ \A k \in Requests \ {q} : tx'[k] = tx[k]
      /\ \A k \in Requests \ {q} : \A u \in tx[k].cleared : lock'[u] = k
  BY ReleaseStep DEF IInv, Commit
<1>4. /\ contended \subseteq contended' /\ unguarded \subseteq unguarded'
      /\ unguarded \subseteq contended
      /\ \A k \in Requests \ {q} : Meet(q, k) =>
            /\ Touches(q) \cup Touches(k) \subseteq contended'
            /\ Moves(q) \/ Moves(k) => Touches(q) \cup Touches(k) \subseteq unguarded'
  BY CommitHistory DEF IInv, TypeOK
<1>5. /\ Idle.op = "none" /\ Idle.cleared = {} /\ Idle.todo = {} /\ Idle.me = Nobody
      /\ Nobody \notin Providers /\ NoRow \notin Row
  BY DEF Idle, ConstantsAssumption
<1>6. /\ t.op \in {"save", "test", "switch"}
      /\ t.op # "save" => /\ t.old # NoRow /\ t.cleared = {}
                          /\ t.new.slot = t.old.slot /\ t.new.default = t.old.default
      /\ t.cleared # {} => Clears(q)
      /\ Clears(q) => t.started /\ t.todo = {}
  <2>1. t \in Tx /\ t.op # "none" /\ Shaped(t) /\ (Clears(q) => t.started /\ t.todo = {})
    BY DEF IInv, TypeOK, TxShape, Commit
  <2>2. QED BY <1>5, <2>1 DEF Tx, Shaped, Clears
<1>7. \A k \in Requests \ {q} : tx[k].op # "none" =>
        /\ tx[k].me \in Providers /\ tx[k].new \in Row /\ tx[k].old \in Row \cup {NoRow}
        /\ tx[k].me = p => t.old # NoRow /\ tx[k].old # NoRow
        /\ tx[k].todo \in SUBSET Providers /\ tx[k].cleared \in SUBSET Providers
  BY <1>6 DEF IInv, TypeOK, Tx, TxShape, Shaped, OwnRow
<1>8. \A u \in Providers : /\ rows[u] # NoRow => rows'[u] # NoRow
                           /\ u # p /\ rows'[u] # NoRow =>
                                 /\ rows[u] # NoRow /\ rows'[u].slot = rows[u].slot
                                 /\ rows'[u].default => rows[u].default
  BY <1>1, <1>2
<1>9. p \in Providers /\ t.op # "save" /\ rows'[p] # NoRow =>
         rows[p] # NoRow /\ rows'[p].slot = rows[p].slot /\ rows'[p].default = rows[p].default
  BY <1>1, <1>6
<1>10. TypeOK'
  <2>1. chosen' \in [Slots -> Providers \cup {Nobody}]
    BY <1>1 DEF Commit, IInv, TypeOK
  <2>2. unguarded' \subseteq contended' /\ contended' \subseteq Slots
    <3> DEFINE others == {k \in Requests \ {q} : Meet(q, k)}
    <3>1. /\ contended' = contended \cup UNION {Touches(q) \cup Touches(k) : k \in others}
          /\ unguarded' = unguarded \cup UNION {Touches(q) \cup Touches(k) :
                                                  k \in {j \in others : Moves(q) \/ Moves(j)}}
      BY DEF Commit, Meet
    <3>2. \A k \in Requests : Touches(k) \subseteq Slots
      BY TouchesType DEF IInv
    <3>3. contended \subseteq Slots
      BY DEF IInv, TypeOK
    <3>4. QED BY <1>4, <3>1, <3>2, <3>3
  <2>3. ops' \in 0..MaxOps
    BY DEF Commit, IInv, TypeOK
  <2>4. QED BY <1>1, <1>3, <2>1, <2>2, <2>3 DEF TypeOK, LockOwned
<1>11. ClearedIsHeld'
  <2> SUFFICES ASSUME NEW k \in Requests
               PROVE  /\ \A u \in tx'[k].todo : rows'[u] # NoRow
                      /\ \A u \in tx'[k].cleared :
                            lock'[u] = k /\ rows'[u] # NoRow /\ rows'[u].slot = tx'[k].new.slot
      BY DEF ClearedIsHeld
  <2>1. CASE k = q
    BY <1>3, <1>5, <2>1
  <2>2. CASE k # q
    <3>1. tx[k].todo \in SUBSET Providers /\ tx[k].cleared \in SUBSET Providers
      BY DEF IInv, TypeOK, Tx
    <3>2. QED BY <1>2, <1>3, <1>8, <2>2, <3>1 DEF IInv, ClearedIsHeld
  <2>3. QED BY <2>1, <2>2
<1>12. OwnRow'
  <2> SUFFICES ASSUME NEW k \in Requests, tx'[k].op # "none"
               PROVE  IF tx'[k].old # NoRow THEN rows'[tx'[k].me] # NoRow
                      ELSE /\ rows'[tx'[k].me] = NoRow
                           /\ \A j \in Requests \ {k} : tx'[j].me # tx'[k].me
      BY DEF OwnRow
  <2>1. k # q /\ tx'[k] = tx[k] /\ tx[k].me \in Providers
    BY <1>3, <1>5, <1>7
  <2>2. CASE tx[k].old # NoRow
    BY <1>8, <2>1, <2>2 DEF IInv, OwnRow
  <2>3. CASE tx[k].old = NoRow
    <3>1. rows[tx[k].me] = NoRow /\ \A j \in Requests \ {k} : tx[j].me # tx[k].me
      BY <2>1, <2>3 DEF IInv, OwnRow
    <3>2. QED BY <1>2, <1>3, <1>5, <2>1, <2>3, <3>1
  <2>4. QED BY <2>2, <2>3
<1>13. AllInView'
  <2> SUFFICES ASSUME NEW k \in Requests, tx'[k].op = "save", tx'[k].new.default,
                      tx'[k].started, tx'[k].new.slot \notin unguarded', NEW u \in Providers,
                      rows'[u] # NoRow, rows'[u].slot = tx'[k].new.slot, u # tx'[k].me
               PROVE  u \in tx'[k].todo \cup tx'[k].cleared
      BY DEF AllInView, Clears, In
  <2> DEFINE s == tx[k].new.slot
  <2>1. /\ k # q /\ tx'[k] = tx[k] /\ Clears(k) /\ tx[k].op = "save"
        /\ rows'[u].slot = s /\ u # tx[k].me
    BY <1>3, <1>5 DEF Clears
  <2>2. In(s) \subseteq {tx[k].me} \cup tx[k].todo \cup tx[k].cleared
    BY <1>4, <2>1 DEF IInv, AllInView
  <2>3. u \in In(s)
    <3>1. CASE u # p
      BY <1>8, <2>1, <3>1 DEF In
    <3>2. CASE u = p
      <4>1. SUFFICES ASSUME rows[p] = NoRow \/ rows[p].slot # s PROVE FALSE
        BY <2>1, <3>2 DEF In
      <4>2. Moves(q) /\ t.op = "save" /\ t.new.slot = s
        BY <1>1, <1>6, <2>1, <3>2, <4>1 DEF Moves
      <4>3. s \in Touches(q) /\ s \in Touches(k)
        BY <2>1, <4>2 DEF Touches
      <4>4. QED BY <1>4, <2>1, <4>2, <4>3 DEF Meet
    <3>3. QED BY <3>1, <3>2
  <2>4. QED BY <2>1, <2>2, <2>3
<1>14. SlotIsFresh'
  <2> SUFFICES ASSUME NEW k \in Requests, tx'[k].op = "save", tx'[k].old # NoRow
               PROVE  \/ rows'[tx'[k].me].slot = tx'[k].old.slot
                      \/ Around(k)' \subseteq unguarded'
      BY DEF SlotIsFresh
  <2>1. k # q /\ tx'[k] = tx[k] /\ tx[k].me \in Providers /\ tx[k].op = "save"
    BY <1>3, <1>5, <1>7
  <2>2. /\ Touches(k)' = Touches(k) /\ rows[tx[k].me] # NoRow
        /\ rows[tx[k].me].slot = tx[k].old.slot \/ Around(k) \subseteq unguarded
    BY <2>1 DEF Touches, IInv, SlotIsFresh, OwnRow
  <2>3. CASE rows'[tx[k].me].slot = rows[tx[k].me].slot
    BY <1>4, <2>1, <2>2, <2>3 DEF Around
  <2>4. CASE rows'[tx[k].me].slot # rows[tx[k].me].slot
    <3>1. tx[k].me = p
      BY <1>8, <2>1, <2>2, <2>4
    <3>2. t.op = "save" /\ Moves(q) /\ rows'[p].slot = t.new.slot
      BY <1>1, <1>6, <1>7, <2>1, <2>4, <3>1 DEF Moves
    <3>3. Meet(q, k) /\ t.new.slot \in Touches(q)
      BY <2>1, <3>1, <3>2 DEF Meet, Touches
    <3>4. QED BY <1>4, <2>1, <2>2, <3>1, <3>2, <3>3 DEF Around
  <2>5. QED BY <2>3, <2>4
<1>15. MoveIsFresh'
  <2> SUFFICES ASSUME NEW k \in Requests, Moves(k)', tx'[k].old # NoRow,
                      ~tx'[k].old.default, rows'[tx'[k].me].default
               PROVE  tx'[k].new.slot \in unguarded'
      BY DEF MoveIsFresh
  <2>1. /\ k # q /\ tx'[k] = tx[k] /\ tx[k].me \in Providers /\ tx[k].op = "save" /\ Moves(k)
        /\ rows[tx[k].me] # NoRow
    BY <1>3, <1>5, <1>7 DEF Moves, IInv, OwnRow
  <2>2. CASE rows[tx[k].me].default
    BY <1>4, <2>1, <2>2 DEF IInv, MoveIsFresh
  <2>3. CASE ~rows[tx[k].me].default
    <3>1. tx[k].me = p
      BY <1>8, <2>1, <2>3
    <3>2. t.op = "save"
      BY <1>9, <1>1, <2>1, <2>3, <3>1
    <3>3. Meet(q, k) /\ tx[k].new.slot \in Touches(k)
      BY <2>1, <3>1, <3>2 DEF Meet, Touches
    <3>4. QED BY <1>4, <2>1, <3>3
  <2>4. QED BY <2>2, <2>3
<1>16. CopyIsFresh'
  <2> SUFFICES ASSUME NEW k \in Requests, tx'[k].op = "save", tx'[k].old # NoRow
               PROVE  \/ /\ rows'[tx'[k].me].slot = tx'[k].old.slot
                         /\ rows'[tx'[k].me].default = tx'[k].old.default
                      \/ Around(k)' \subseteq contended'
      BY DEF CopyIsFresh
  <2> DEFINE m == tx[k].me
  <2>1. /\ k # q /\ tx'[k] = tx[k] /\ m \in Providers /\ tx[k].op = "save"
        /\ tx[k].old # NoRow /\ rows[m] # NoRow /\ rows'[m] # NoRow
    BY <1>3, <1>5, <1>7, <1>8 DEF IInv, OwnRow
  <2>2. /\ Around(k)' = Touches(k) \cup {rows'[m].slot}
        /\ Around(k) = Touches(k) \cup {rows[m].slot}
        /\ \/ rows[m].slot = tx[k].old.slot /\ rows[m].default = tx[k].old.default
           \/ Around(k) \subseteq contended
    BY <2>1 DEF Around, Touches, IInv, CopyIsFresh
  <2>3. CASE rows'[m].slot = rows[m].slot /\ rows'[m].default = rows[m].default
    BY <1>4, <2>1, <2>2, <2>3
  <2>4. CASE m = p /\ t.op = "save"
    <3>1. Touches(q) \cup Touches(k) \subseteq contended'
      BY <1>4, <2>1, <2>4 DEF Meet
    <3>2. t.old # NoRow /\ t.new.slot \in Touches(q) /\ t.old.slot \in Touches(q)
      BY <1>7, <2>1, <2>4 DEF Touches
    <3>3. rows[p].slot = t.old.slot \/ rows[p].slot \in contended
      BY <2>4, <3>2 DEF IInv, CopyIsFresh, Around
    <3>4. rows'[p].slot \in {t.new.slot, rows[p].slot}
      BY <1>1, <3>2
    <3>5. QED BY <1>4, <2>1, <2>2, <2>4, <3>1, <3>2, <3>3, <3>4
  <2>5. CASE m # p /\ m \in t.cleared
    <3>1. rows'[m].slot = rows[m].slot /\ rows[m].slot = t.new.slot /\ t.op = "save"
      BY <1>2, <1>6, <2>1, <2>5
    <3>2. CASE rows[m].slot = tx[k].old.slot
      <4>1. t.new.slot \in Touches(q) /\ t.new.slot \in Touches(k)
        BY <2>1, <3>1, <3>2 DEF Touches
      <4>2. Touches(q) \cup Touches(k) \subseteq contended'
        BY <1>4, <2>1, <3>1, <4>1 DEF Meet
      <4>3. QED BY <2>1, <2>2, <3>1, <4>1, <4>2
    <3>3. CASE rows[m].slot # tx[k].old.slot
      BY <1>4, <2>1, <2>2, <3>1, <3>3
    <3>4. QED BY <3>2, <3>3
  <2>6. QED BY <1>2, <1>9, <2>1, <2>3, <2>4, <2>5
<1>17. \A s \in Slots, u \in Providers \ {p} :
          u \in Defaults(s)' <=> u \in Defaults(s) /\ u \notin t.cleared
  BY <1>2 DEF Defaults, In
<1>18. ASSUME NEW s \in Slots \ unguarded, Clears(q), s = t.new.slot
       PROVE  \A u \in Providers \ {p} : u \notin Defaults(s)'
  <2>1. In(s) \subseteq {p} \cup t.cleared
    BY <1>6, <1>18 DEF IInv, AllInView
  <2>2. QED BY <1>17, <2>1 DEF Defaults
<1>19. Unique'
  <2> SUFFICES ASSUME NEW s \in Slots \ unguarded', NEW x \in Defaults(s)',
                      NEW y \in Defaults(s)'
               PROVE  x = y
      BY DEF Unique
  <2>1. s \in Slots \ unguarded /\ x \in Providers /\ y \in Providers
    BY <1>4 DEF Defaults, In
  <2>2. ASSUME p \in Defaults(s)'
        PROVE  p \in Defaults(s) \/ (Clears(q) /\ s = t.new.slot)
    <3>1. rows'[p].slot = s /\ rows'[p].default
      BY <2>2 DEF Defaults, In
    <3>2. CASE t.old = NoRow
      BY <1>1, <1>6, <3>1, <3>2 DEF Clears
    <3>3. CASE t.op # "save"
      BY <1>1, <1>9, <3>1, <3>3 DEF Defaults, In
    <3>4. CASE t.op = "save" /\ t.old # NoRow
      <4>1. rows[p].slot = t.old.slot
        <5>1. SUFFICES ASSUME Around(q) \subseteq unguarded PROVE FALSE
          BY <3>4 DEF IInv, SlotIsFresh
        <5>2. t.new.slot \in Around(q) /\ rows[p].slot \in Around(q)
          BY <3>4 DEF Around, Touches
        <5>3. QED BY <1>1, <2>1, <3>1, <3>4, <5>1, <5>2
      <4>2. s = t.new.slot
        BY <1>1, <3>1, <3>4, <4>1
      <4>3. CASE t.new.default
        BY <3>4, <4>2, <4>3 DEF Clears
      <4>4. CASE ~t.new.default
        <5>1. ~t.old.default /\ rows[p].default /\ t.new.default = t.old.default
          <6>1. t.new.default \in BOOLEAN /\ t.old.default \in BOOLEAN
            BY <1>1, <3>4 DEF Row
          <6>2. QED BY <1>1, <3>1, <3>4, <4>4, <6>1
        <5>2. ~Moves(q)
          BY <2>1, <3>4, <4>2, <5>1 DEF IInv, MoveIsFresh
        <5>3. QED BY <1>1, <3>4, <4>1, <4>2, <5>1, <5>2 DEF Moves, Defaults, In
      <4>5. QED BY <4>3, <4>4
    <3>5. QED BY <3>2, <3>3, <3>4
  <2>3. ASSUME NEW u \in Providers, u \in Defaults(s)'
        PROVE  u \in Defaults(s) \/ (u = p /\ Clears(q) /\ s = t.new.slot)
    BY <1>17, <2>1, <2>2, <2>3
  <2>4. CASE Clears(q) /\ s = t.new.slot
    BY <1>18, <2>1, <2>4
  <2>5. CASE ~(Clears(q) /\ s = t.new.slot)
    BY <2>1, <2>3, <2>5 DEF IInv, Unique
  <2>6. QED BY <2>4, <2>5
<1>20. DefaultKept'
  <2> SUFFICES ASSUME NEW s \in Slots \ contended'
               PROVE  Defaults(s)' = IF chosen'[s] = Nobody THEN {} ELSE {chosen'[s]}
      BY DEF DefaultKept
  <2>1. s \in Slots \ contended /\ s \in Slots \ unguarded
    BY <1>4
  <2>2. /\ Defaults(s) = IF chosen[s] = Nobody THEN {} ELSE {chosen[s]}
        /\ chosen'[s] = IF Clears(q) /\ s = t.new.slot THEN p
                        ELSE IF t.op = "save" /\ chosen[s] = p THEN Nobody ELSE chosen[s]
        /\ Defaults(s) \subseteq Providers /\ Defaults(s)' \subseteq Providers
    BY <2>1 DEF IInv, DefaultKept, Commit, Defaults, In
  <2>3. t.op = "save" => (p \in Defaults(s)' <=> t.new.default /\ s = t.new.slot)
    <3> SUFFICES ASSUME t.op = "save"
                 PROVE  p \in Defaults(s)' <=> t.new.default /\ s = t.new.slot
        OBVIOUS
    <3>1. CASE t.old = NoRow
      BY <1>1, <3>1 DEF Defaults, In
    <3>2. CASE t.old # NoRow
      <4>1. CASE rows[p].slot = t.old.slot /\ rows[p].default = t.old.default
        BY <1>1, <3>2, <4>1 DEF Defaults, In
      <4>2. CASE Around(q) \subseteq contended
        <5>1. t.new.slot \in Around(q) /\ rows[p].slot \in Around(q)
          BY <3>2 DEF Around, Touches
        <5>2. QED BY <1>1, <2>1, <3>2, <4>2, <5>1 DEF Defaults, In
      <4>3. QED BY <3>2, <4>1, <4>2 DEF IInv, CopyIsFresh
    <3>3. QED BY <3>1, <3>2
  <2>4. t.op # "save" => (p \in Defaults(s)' <=> p \in Defaults(s))
    BY <1>1, <1>9 DEF Defaults, In
  <2>5. CASE Clears(q) /\ s = t.new.slot
    <3>1. p \in Defaults(s)'
      BY <2>3, <2>5 DEF Clears
    <3>2. \A u \in Providers \ {p} : u \notin Defaults(s)'
      BY <1>18, <2>1, <2>5
    <3>3. chosen'[s] = p /\ p # Nobody
      BY <1>1, <1>5, <2>2, <2>5
    <3>4. QED BY <2>2, <3>1, <3>2, <3>3
  <2>6. CASE ~(Clears(q) /\ s = t.new.slot)
    <3>1. \A u \in Providers \ {p} : u \in Defaults(s)' <=> u \in Defaults(s)
      <4>1. \A u \in Providers \ {p} : u \in Defaults(s) => u \notin t.cleared
        BY <1>2, <1>6, <2>6 DEF Defaults, In
      <4>2. QED BY <1>17, <2>1, <4>1
    <3>2. CASE t.op = "save"
      <4>1. p \notin Defaults(s)'
        BY <2>3, <2>6, <3>2 DEF Clears
      <4>2. QED BY <1>1, <1>5, <2>2, <2>6, <3>1, <3>2, <4>1
    <3>3. CASE t.op # "save"
      <4>1. Defaults(s)' = Defaults(s)
        BY <1>1, <2>2, <2>4, <3>1, <3>3
      <4>2. QED BY <2>2, <2>6, <3>3, <4>1
    <3>4. QED BY <3>2, <3>3
  <2>7. QED BY <2>5, <2>6
<1>21. QED
  BY <1>3, <1>10, <1>11, <1>12, <1>13, <1>14, <1>15, <1>16, <1>19, <1>20 DEF IInv

-----------------------------------------------------------------------------
(* The theorems *)

\* No provider is the default, no request in progress.
LEMMA InitIInv == Init => IInv
<1> SUFFICES ASSUME Init PROVE IInv
    OBVIOUS
<1> DEFINE first == [slot |-> Home, default |-> FALSE, active |-> TRUE, test |-> "none"]
<1>1. /\ first \in Row /\ NoRow \notin Row /\ 0 \in 0..MaxOps
      /\ \A p \in Providers : rows[p] = IF p \in First THEN first ELSE NoRow
      /\ rows = [p \in Providers |-> IF p \in First THEN first ELSE NoRow]
  BY DEF Init, Row, ConstantsAssumption
<1>2. \A q \in Requests : tx[q] = Idle
  BY DEF Init
<1>3. /\ Idle.op = "none" /\ Idle.cleared = {} /\ Idle.todo = {} /\ Idle \in Tx /\ Shaped(Idle)
  BY IdleType DEF Idle
<1>4. TypeOK /\ TxShape
  BY <1>1, <1>2, <1>3 DEF Init, TypeOK, TxShape
<1>5. ClearedIsHeld /\ OwnRow
  BY <1>2, <1>3 DEF ClearedIsHeld, OwnRow
<1>6. AllInView /\ SlotIsFresh /\ MoveIsFresh /\ CopyIsFresh
  BY <1>2, <1>3 DEF AllInView, Clears, SlotIsFresh, MoveIsFresh, Moves, CopyIsFresh
<1>7. \A s \in Slots : Defaults(s) = {}
  BY <1>1 DEF Defaults, In
<1>8. Unique /\ DefaultKept
  BY <1>7 DEF Init, Unique, DefaultKept
<1>9. QED BY <1>4, <1>5, <1>6, <1>8 DEF IInv

\* Every step keeps the invariant.
LEMMA StepIInv == IInv /\ [Next]_vars => IInv'
<1> SUFFICES ASSUME IInv, [Next]_vars PROVE IInv'
    OBVIOUS
<1>1. ASSUME NEW q \in Requests, Request(q) PROVE IInv'
  BY <1>1, RequestKeeps
<1>2. ASSUME NEW q \in Requests, Advance(q) PROVE IInv'
  BY <1>2, ClearingKeeps, CommitKeeps DEF Advance
<1>3. ASSUME NEW q \in Requests, Abort(q) \/ DeadlockDetected(q) PROVE IInv'
  BY <1>3, ReleaseKeeps DEF Abort, DeadlockDetected, history
<1>4. CASE UNCHANGED vars
  BY <1>4 DEF vars, history, IInv, TypeOK, TxShape, ClearedIsHeld, OwnRow, AllInView,
     SlotIsFresh, MoveIsFresh, CopyIsFresh, Unique, DefaultKept, Clears, Moves, Around, Touches,
     Defaults, In
<1>5. QED BY <1>1, <1>2, <1>3, <1>4 DEF Next

\* The invariant is inductive: a request that clears the defaults of a slot has all
\* providers of it in view, or the history tells which slot was left unguarded.
THEOREM Inductive == Spec => []IInv
BY InitIInv, StepIInv, PTL DEF Spec

\* Every variable keeps its type, and a lock belongs to a request in progress that has
\* cleared the row.
THEOREM TypeCorrect == Spec => []TypeOK
<1>1. IInv => TypeOK
  BY DEF IInv
<1>2. QED BY <1>1, Inductive, PTL

\* create_provider and update_provider leave a slot one default, whatever the order in
\* which requests read, clear and commit, unless one inserted or moved a provider while
\* another save was in progress.
THEOREM AtMostOneDefault == Spec => []OneDefault
<1>1. IInv => OneDefault
  BY AtMostOne DEF IInv, Unique, OneDefault
<1>2. QED BY <1>1, Inductive, PTL

\* The default is the provider that was last saved as such, where saves did not overlap.
THEOREM DefaultIsTheLastSaved == Spec => []DefaultKept
<1>1. IInv => DefaultKept
  BY DEF IInv
<1>2. QED BY <1>1, Inductive, PTL
=============================================================================
