---------------------------- MODULE BillingProofs ----------------------------
(***************************************************************************)
(* Proofs about Billing, for any handlers, subscriptions, plans, scheduled *)
(* changes and invoices: what a handler commits is what it meant, or the   *)
(* row was raced; what is withdrawn stays withdrawn.                       *)
(***************************************************************************)
EXTENDS Billing, FiniteSetTheorems, TLAPS

USE ConstantsAssumption

-----------------------------------------------------------------------------
(* Facts about the operators *)

\* A table has a row or it has none.
LEMMA NoRowIsNoRow == NoRow \notin SubIds /\ NoRow \notin Row /\ NoRow \notin Bill
BY DEF ConstantsAssumption

\* A handler between two operations holds nothing.
LEMMA IdleType ==
    /\ Idle \in Tx /\ Shaped(Idle) /\ Idle.op = "none" /\ Idle.insert = NoRow
    /\ \A s \in SubIds : Idle.old[s] = NoRow /\ Idle.new[s] = NoRow
BY DEF Idle, Tx, Shaped

\* Each column is written if the handler has changed it (Merge): a subscription ...
LEMMA MergeRow ==
    ASSUME NEW row \in Row, NEW old \in Row, NEW new \in Row
    PROVE  /\ Merge(row, old, new) \in Row
           /\ Merge(row, old, new).ending =
                  IF new.ending # old.ending THEN new.ending ELSE row.ending
           /\ row = old => Merge(row, old, new) = new
<1>1. Merge(row, old, new) =
        [plan   |-> IF new.plan # old.plan THEN new.plan ELSE row.plan,
         status |-> IF new.status # old.status THEN new.status ELSE row.status,
         ending |-> IF new.ending # old.ending THEN new.ending ELSE row.ending,
         stripe |-> IF new.stripe # old.stripe THEN new.stripe ELSE row.stripe]
  BY NoRowIsNoRow DEF Merge, Row
<1>2. QED BY <1>1 DEF Row

\* ... and an invoice.
LEMMA MergeBill ==
    ASSUME NEW row \in Bill, NEW old \in Bill, NEW new \in Bill
    PROVE  /\ Merge(row, old, new) \in Bill
           /\ Merge(row, old, new).status =
                  IF new.status # old.status THEN new.status ELSE row.status
<1>1. Merge(row, old, new) =
        [status |-> IF new.status # old.status THEN new.status ELSE row.status,
         paid   |-> IF new.paid # old.paid THEN new.paid ELSE row.paid]
  BY NoRowIsNoRow DEF Merge, Bill
<1>2. QED BY <1>1 DEF Bill

\* What was not read, or is not there, is not written (Merge).
LEMMA MergeNothing ==
    ASSUME NEW row, NEW old, NEW new, old = NoRow \/ row = NoRow
    PROVE  Merge(row, old, new) = row
BY DEF Merge

\* A set without two different elements has at most one.
LEMMA AtMostOne ==
    ASSUME NEW S, \A x, y \in S : x = y
    PROVE  Cardinality(S) <= 1
<1>1. CASE S = {}
  BY <1>1, FS_EmptySet
<1>2. CASE S # {}
  <2>1. PICK x \in S : TRUE
    BY <1>2
  <2>2. S = {x}
    BY <2>1
  <2>3. Cardinality({x}) = 1
    BY FS_Singleton
  <2>4. QED BY <2>2, <2>3
<1>3. QED BY <1>1, <1>2

\* An operation ends, the other handlers keep what they hold (End).
LEMMA EndStep ==
    ASSUME IInv, NEW h \in Handlers, End(h)
    PROVE  /\ tx' \in [Handlers -> Tx] /\ TxShape' /\ tx'[h] = Idle
           /\ \A k \in Handlers \ {h} : tx'[k] = tx[k]
<1>1. tx \in [Handlers -> Tx] /\ tx' = [tx EXCEPT ![h] = Idle] /\ TxShape
  BY DEF IInv, TypeOK, End
<1>2. tx' \in [Handlers -> Tx] /\ tx'[h] = Idle /\ \A k \in Handlers \ {h} : tx'[k] = tx[k]
  BY <1>1, IdleType
<1>3. TxShape'
  BY <1>1, <1>2, IdleType DEF TxShape
<1>4. QED BY <1>2, <1>3

-----------------------------------------------------------------------------
(* Operations *)

\* What may be begun: all that is read is current, and nothing that another handler
\* has deleted is deleted again.
Sound(t) ==
    /\ t \in Tx /\ Shaped(t)
    /\ \A s \in SubIds : t.old[s] = NoRow \/ t.old[s] = subs[s]
    /\ t.insert # NoRow => Existing = {}
    /\ t.op = "downgrade" => t.sub \in Existing
    /\ t.op \in {"downgrade", "withdraw"} =>
          \A c \in t.takes : changes[c].state = "pending" /\ c \notin Locked

\* A handler begins what may be begun (Begin).
LEMMA BeginKeeps ==
    ASSUME IInv, NEW h \in Handlers, NEW t, Sound(t), Begin(h, t)
    PROVE  IInv'
<1>1. /\ tx \in [Handlers -> Tx] /\ tx[h].op = "none" /\ tx' = [tx EXCEPT ![h] = t]
      /\ ops < MaxOps /\ ops' = ops + 1
      /\ UNCHANGED <<subs, tenant, changes, bills, payments, doubled, raced, ended, ran>>
  BY DEF IInv, TypeOK, Begin, tables, history
<1>2. tx' \in [Handlers -> Tx] /\ tx'[h] = t /\ \A k \in Handlers \ {h} : tx'[k] = tx[k]
  BY <1>1 DEF Sound
<1>3. TypeOK'
  <2>1. ops' \in 0..MaxOps
    BY <1>1 DEF IInv, TypeOK, ConstantsAssumption
  <2>2. QED BY <1>1, <1>2, <2>1 DEF IInv, TypeOK
<1>4. TxShape'
  BY <1>2 DEF IInv, TxShape, Sound
<1>5. ReferencesExist' /\ Alone'
  BY <1>1, <1>2 DEF IInv, ReferencesExist, Alone, Existing, Sound
<1>6. TakesAreHeld'
  <2> SUFFICES ASSUME NEW k \in Handlers, Withdraws(k)'
               PROVE  /\ \A c \in tx'[k].takes : changes[c].state = "pending"
                      /\ \A j \in Handlers \ {k} : Withdraws(j)' =>
                            tx'[k].takes \cap tx'[j].takes = {}
      BY <1>1 DEF TakesAreHeld
  <2>1. \A j \in Handlers \ {h} : Withdraws(j)' =>
          Withdraws(j) /\ tx'[j].takes = tx[j].takes /\ tx[j].takes \subseteq Locked
    BY <1>2 DEF Withdraws, Locked
  <2>2. CASE k = h
    BY <1>2, <2>1, <2>2 DEF Sound, Withdraws
  <2>3. CASE k # h
    <3>1. Withdraws(h)' => tx'[h].takes \cap Locked = {}
      BY <1>2 DEF Sound, Withdraws
    <3>2. QED BY <2>1, <2>3, <3>1 DEF IInv, TakesAreHeld
  <2>4. QED BY <2>2, <2>3
<1>7. CopyIsFresh'
  BY <1>1, <1>2 DEF IInv, CopyIsFresh, Sound
<1>8. WithdrawnNeverRuns' /\ StripeCancelsItsOwn'
  BY <1>1 DEF IInv, WithdrawnNeverRuns, StripeCancelsItsOwn, Existing
<1>9. QED BY <1>3, <1>4, <1>5, <1>6, <1>7, <1>8 DEF IInv

\* One subscription is read and edited (Edit); only SubscriptionDeleted cancels it.
LEMMA EditIsSound ==
    ASSUME IInv, NEW op \in {"change", "cancel", "upgrade", "checkout", "paid", "failed",
                             "updated", "deleted"},
           NEW s \in Existing, NEW row \in Row,
           row.status = "cancelled" => subs[s].status = "cancelled"
                                          /\ subs[s].stripe = row.stripe
    PROVE  /\ Edit(op, s, row) \in Tx
           /\ op # "paid" => Sound(Edit(op, s, row))
           /\ Edit(op, s, row).op = op /\ Edit(op, s, row).insert = NoRow
           /\ \A u \in SubIds : /\ Edit(op, s, row).old[u] = IF u = s THEN subs[s] ELSE NoRow
                                /\ Edit(op, s, row).new[u] = IF u = s THEN row ELSE NoRow
<1> DEFINE t == Edit(op, s, row)
           old == Read({s})
           new == [Read({s}) EXCEPT ![s] = row]
<1>1. /\ s \in SubIds /\ subs[s] \in Row /\ subs[s] # NoRow /\ row # NoRow
      /\ subs \in [SubIds -> Row \cup {NoRow}]
  BY NoRowIsNoRow DEF IInv, TypeOK, Existing
<1>2. /\ old \in [SubIds -> Row \cup {NoRow}] /\ new \in [SubIds -> Row \cup {NoRow}]
      /\ \A u \in SubIds : /\ old[u] = IF u = s THEN subs[s] ELSE NoRow
                           /\ new[u] = IF u = s THEN row ELSE NoRow
  BY <1>1 DEF Read
<1>3. t = [Idle EXCEPT !.op = op, !.old = old, !.new = new]
  BY DEF Edit
<1> HIDE DEF old, new
<1>4. /\ t \in Tx /\ t.op = op /\ t.old = old /\ t.new = new /\ t.insert = NoRow
      /\ t.tenant = "keep"
  BY <1>2, <1>3 DEF Idle, Tx
<1> HIDE DEF t
<1>5. op # "paid" => Shaped(t)
  BY <1>1, <1>2, <1>4 DEF Shaped
<1>6. op # "paid" => Sound(t)
  BY <1>1, <1>2, <1>4, <1>5 DEF Sound
<1>7. QED BY <1>2, <1>4, <1>6 DEF t

\* A first subscription is inserted (Insert).
LEMMA InsertIsSound ==
    ASSUME IInv, NEW op \in {"change", "checkout"}, NEW row \in Row, row.status = "active",
           Existing = {}
    PROVE  /\ Sound(Insert(op, row))
           /\ Insert(op, row).op = op /\ Insert(op, row).stripe = NoStripe
<1> DEFINE t == Insert(op, row)
<1>1. /\ t \in Tx /\ t.op = op /\ t.insert = row /\ t.tenant = "keep" /\ t.stripe = NoStripe
      /\ \A s \in SubIds : t.old[s] = NoRow /\ t.new[s] = NoRow
  BY DEF Insert, Idle, Tx
<1> HIDE DEF t
<1>2. Shaped(t)
  BY <1>1 DEF Shaped
<1>3. Sound(t)
  BY <1>1, <1>2 DEF Sound
<1>4. QED BY <1>1, <1>3 DEF t

\* An event that changes the tenant's status as well.
LEMMA TenantIsSound ==
    ASSUME NEW t, Sound(t), t.op # "deleted", NEW value \in {"keep", "active"}
    PROVE  Sound([t EXCEPT !.tenant = value])
<1> DEFINE x == [t EXCEPT !.tenant = value]
<1>1. /\ x \in Tx /\ x.op = t.op /\ x.old = t.old /\ x.new = t.new /\ x.insert = t.insert
      /\ x.tenant = value /\ x.stripe = t.stripe /\ x.takes = t.takes /\ x.sub = t.sub
      /\ x.plan = t.plan /\ x.invoice = t.invoice /\ x.oldBill = t.oldBill
      /\ x.newBill = t.newBill
  BY DEF Sound, Tx
<1> HIDE DEF x
<1>2. Shaped(x)
  BY <1>1 DEF Sound, Shaped
<1>3. Sound(x)
  BY <1>1, <1>2 DEF Sound
<1>4. QED BY <1>3 DEF x

\* Every operation begins with what it has read.
LEMMA OperationKeeps ==
    ASSUME IInv, NEW h \in Handlers, Operation(h)
    PROVE  IInv'
<1>a. /\ subs \in [SubIds -> Row \cup {NoRow}] /\ changes \in [Changes -> Change]
      /\ bills \in [Invoices -> Bill \cup {NoRow}] /\ payments \in [Invoices -> Nat]
      /\ \A s \in Existing : s \in SubIds /\ subs[s] \in Row
      /\ tenant \in {"trial", "active", "suspended"}
  BY DEF IInv, TypeOK, Existing
<1>b. \A value \in {"active", "suspended"} : SetTenant(value) \in {"keep", value}
  BY DEF SetTenant
<1>1. ASSUME NEW p \in Plans, ChangePlan(h, p) PROVE IInv'
  <2>1. ASSUME NEW s \in Existing,
               Begin(h, Edit("change", s, [subs[s] EXCEPT !.plan = p, !.status = "active"]))
        PROVE  IInv'
    <3> DEFINE row == [subs[s] EXCEPT !.plan = p, !.status = "active"]
    <3>1. row \in Row /\ row.status = "active"
      BY <1>a DEF Row, Statuses
    <3> HIDE DEF row
    <3>2. Sound(Edit("change", s, row))
      BY <3>1, EditIsSound
    <3>3. QED BY <2>1, <3>2, BeginKeeps DEF row
  <2>2. ASSUME Existing = {},
               Begin(h, Insert("change", [plan |-> p, status |-> "active",
                                          ending |-> FALSE, stripe |-> NoStripe]))
        PROVE  IInv'
    <3>1. [plan |-> p, status |-> "active", ending |-> FALSE, stripe |-> NoStripe] \in Row
      BY DEF Row, Statuses
    <3>2. QED BY <2>2, <3>1, InsertIsSound, BeginKeeps
  <2>3. QED BY <1>1, <2>1, <2>2 DEF ChangePlan
<1>2. CASE CancelAtPeriodEnd(h)
  <2>1. PICK s \in Existing : Begin(h, Edit("cancel", s, [subs[s] EXCEPT !.ending = TRUE]))
    BY <1>2 DEF CancelAtPeriodEnd
  <2> DEFINE row == [subs[s] EXCEPT !.ending = TRUE]
  <2>2. row \in Row /\ row.status = subs[s].status /\ row.stripe = subs[s].stripe
    BY <1>a DEF Row
  <2> HIDE DEF row
  <2>3. Sound(Edit("cancel", s, row))
    BY <2>2, EditIsSound
  <2>4. QED BY <2>1, <2>3, BeginKeeps DEF row
<1>3. ASSUME NEW p \in Plans, Upgrade(h, p) PROVE IInv'
  <2>1. PICK s \in Existing :
          Begin(h, Edit("upgrade", s, [subs[s] EXCEPT !.plan = p, !.status = "active",
                                                      !.ending = FALSE]))
    BY <1>3 DEF Upgrade
  <2> DEFINE row == [subs[s] EXCEPT !.plan = p, !.status = "active", !.ending = FALSE]
  <2>2. row \in Row /\ row.status = "active"
    BY <1>a DEF Row, Statuses
  <2> HIDE DEF row
  <2>3. Sound(Edit("upgrade", s, row))
    BY <2>2, EditIsSound
  <2>4. QED BY <2>1, <2>3, BeginKeeps DEF row
<1>4. ASSUME NEW p \in Plans, Downgrade(h, p) PROVE IInv'
  <2>1. PICK s \in Existing :
          /\ Pending(s) \cap Locked = {}
          /\ Begin(h, [Idle EXCEPT !.op = "downgrade", !.sub = s, !.plan = p,
                                   !.takes = Pending(s)])
    BY <1>4 DEF Downgrade
  <2> DEFINE t == [Idle EXCEPT !.op = "downgrade", !.sub = s, !.plan = p, !.takes = Pending(s)]
  <2>2. Pending(s) \in SUBSET Changes /\ \A c \in Pending(s) : changes[c].state = "pending"
    BY DEF Pending
  <2>3. /\ t \in Tx /\ t.op = "downgrade" /\ t.sub = s /\ t.plan = p /\ t.takes = Pending(s)
        /\ t.insert = NoRow /\ t.tenant = "keep"
        /\ \A u \in SubIds : t.old[u] = NoRow /\ t.new[u] = NoRow
    BY <1>a, <2>2 DEF Idle, Tx
  <2> HIDE DEF t
  <2>4. Sound(t)
    BY <1>a, <2>1, <2>2, <2>3 DEF Sound, Shaped
  <2>5. QED BY <2>1, <2>4, BeginKeeps DEF t
<1>5. CASE CancelDowngrade(h)
  <2>1. PICK s \in Existing :
          /\ Pending(s) \cap Locked = {}
          /\ Begin(h, [Idle EXCEPT !.op = "withdraw", !.takes = Pending(s)])
    BY <1>5 DEF CancelDowngrade
  <2> DEFINE t == [Idle EXCEPT !.op = "withdraw", !.takes = Pending(s)]
  <2>2. Pending(s) \in SUBSET Changes /\ \A c \in Pending(s) : changes[c].state = "pending"
    BY DEF Pending
  <2>3. /\ t \in Tx /\ t.op = "withdraw" /\ t.takes = Pending(s)
        /\ t.insert = NoRow /\ t.tenant = "keep"
        /\ \A u \in SubIds : t.old[u] = NoRow /\ t.new[u] = NoRow
    BY <2>2 DEF Idle, Tx
  <2> HIDE DEF t
  <2>4. Sound(t)
    BY <2>1, <2>2, <2>3 DEF Sound, Shaped
  <2>5. QED BY <2>1, <2>4, BeginKeeps DEF t
<1>6. ASSUME NEW e \in StripeSubs, NEW p \in Plans, Checkout(h, e, p) PROVE IInv'
  <2>1. ASSUME NEW s \in Existing,
               Begin(h, [Edit("checkout", s, [subs[s] EXCEPT !.plan = p, !.status = "active",
                                                             !.stripe = e])
                         EXCEPT !.tenant = SetTenant("active")])
        PROVE  IInv'
    <3> DEFINE row == [subs[s] EXCEPT !.plan = p, !.status = "active", !.stripe = e]
    <3>1. row \in Row /\ row.status = "active"
      BY <1>a DEF Row, Statuses
    <3> HIDE DEF row
    <3>2. Sound(Edit("checkout", s, row)) /\ Edit("checkout", s, row).op = "checkout"
      BY <3>1, EditIsSound
    <3>3. Sound([Edit("checkout", s, row) EXCEPT !.tenant = SetTenant("active")])
      BY <1>b, <3>2, TenantIsSound
    <3>4. QED BY <2>1, <3>3, BeginKeeps DEF row
  <2>2. ASSUME Existing = {},
               Begin(h, [Insert("checkout", [plan |-> p, status |-> "active",
                                             ending |-> FALSE, stripe |-> e])
                         EXCEPT !.tenant = SetTenant("active")])
        PROVE  IInv'
    <3> DEFINE row == [plan |-> p, status |-> "active", ending |-> FALSE, stripe |-> e]
    <3>1. row \in Row /\ row.status = "active"
      BY DEF Row, Statuses
    <3> HIDE DEF row
    <3>2. Sound(Insert("checkout", row)) /\ Insert("checkout", row).op = "checkout"
      BY <2>2, <3>1, InsertIsSound
    <3>3. Sound([Insert("checkout", row) EXCEPT !.tenant = SetTenant("active")])
      BY <1>b, <3>2, TenantIsSound
    <3>4. QED BY <2>2, <3>3, BeginKeeps DEF row
  <2>3. QED BY <1>6, <2>1, <2>2 DEF Checkout
<1>7. ASSUME NEW e \in StripeSubs, NEW i \in Invoices, InvoicePaid(h, e, i) PROVE IInv'
  <2>1. PICK s \in Linked(e) :
          Begin(h, [Edit("paid", s, [subs[s] EXCEPT !.status = "active"])
                    EXCEPT !.invoice = i, !.oldBill = bills[i],
                           !.newBill = [status |-> "paid", paid |-> Total]])
    BY <1>7 DEF InvoicePaid
  <2> DEFINE row  == [subs[s] EXCEPT !.status = "active"]
             old  == Read({s})
             new  == [Read({s}) EXCEPT ![s] = row]
             held == bills[i]
             bill == [status |-> "paid", paid |-> Total]
             t    == [Edit("paid", s, row) EXCEPT !.invoice = i, !.oldBill = held,
                                                  !.newBill = bill]
  <2>2. /\ s \in Existing /\ s \in SubIds /\ subs[s] # NoRow /\ subs[s] \in Row
        /\ row \in Row /\ row # NoRow /\ row.status = "active"
    BY <1>a, NoRowIsNoRow DEF Linked, Existing, Row, Statuses
  <2>3. /\ old \in [SubIds -> Row \cup {NoRow}] /\ new \in [SubIds -> Row \cup {NoRow}]
        /\ \A u \in SubIds : /\ old[u] = IF u = s THEN subs[s] ELSE NoRow
                             /\ new[u] = IF u = s THEN row ELSE NoRow
    <3> HIDE DEF row
    <3>1. QED BY <1>a, <2>2 DEF Read
  <2>4. bill \in Bill /\ held \in Bill \cup {NoRow}
    BY <1>a DEF Bill, ConstantsAssumption
  <2>5. t = [Idle EXCEPT !.op = "paid", !.old = old, !.new = new, !.invoice = i,
                         !.oldBill = held, !.newBill = bill]
    BY DEF Edit, Idle
  <2> HIDE DEF row, old, new, held, bill, t
  <2>6. /\ t.op = "paid" /\ t.insert = NoRow /\ t.tenant = "keep"
        /\ t.invoice = i /\ t.newBill = bill /\ t.old = old /\ t.new = new
    BY <2>5 DEF Idle
  <2>7. t \in Tx
    BY <2>3, <2>4, <2>5 DEF Idle, Tx
  <2>8. Sound(t)
    BY <2>2, <2>3, <2>4, <2>6, <2>7 DEF Sound, Shaped
  <2>9. QED BY <2>1, <2>8, BeginKeeps DEF t, row, held, bill
<1>8. ASSUME NEW e \in StripeSubs, PaymentFailed(h, e) PROVE IInv'
  <2>1. PICK s \in Linked(e) :
          Begin(h, Edit("failed", s, [subs[s] EXCEPT !.status = "past_due"]))
    BY <1>8 DEF PaymentFailed
  <2> DEFINE row == [subs[s] EXCEPT !.status = "past_due"]
  <2>2. s \in Existing /\ row \in Row /\ row.status = "past_due"
    BY <1>a DEF Linked, Row, Statuses
  <2> HIDE DEF row
  <2>3. Sound(Edit("failed", s, row))
    BY <2>2, EditIsSound
  <2>4. QED BY <2>1, <2>3, BeginKeeps DEF row
<1>9. ASSUME NEW e \in StripeSubs, NEW status \in {"active", "past_due"},
             NEW ending \in BOOLEAN, NEW p \in Plans,
             SubscriptionUpdated(h, e, status, ending, p)
      PROVE  IInv'
  <2>1. PICK s \in Linked(e) :
          Begin(h, Edit("updated", s, [subs[s] EXCEPT !.status = status, !.ending = ending,
                                                      !.plan = p]))
    BY <1>9 DEF SubscriptionUpdated
  <2> DEFINE row == [subs[s] EXCEPT !.status = status, !.ending = ending, !.plan = p]
  <2>2. s \in Existing /\ row \in Row /\ row.status # "cancelled"
    BY <1>a DEF Linked, Row, Statuses
  <2> HIDE DEF row
  <2>3. Sound(Edit("updated", s, row))
    BY <2>2, EditIsSound
  <2>4. QED BY <2>1, <2>3, BeginKeeps DEF row
<1>10. ASSUME NEW e \in StripeSubs, SubscriptionDeleted(h, e) PROVE IInv'
  <2>1. PICK s \in Linked(e) :
          Begin(h, [Edit("deleted", s, [subs[s] EXCEPT !.status = "cancelled"])
                    EXCEPT !.tenant = SetTenant("suspended"), !.stripe = e])
    BY <1>10 DEF SubscriptionDeleted
  <2> DEFINE row == [subs[s] EXCEPT !.status = "cancelled"]
             old == Read({s})
             new == [Read({s}) EXCEPT ![s] = row]
             value == SetTenant("suspended")
             t   == [Edit("deleted", s, row) EXCEPT !.tenant = value, !.stripe = e]
  <2>2. /\ s \in Existing /\ s \in SubIds /\ subs[s] # NoRow /\ subs[s] \in Row
        /\ row \in Row /\ row # NoRow /\ row.stripe = e
    BY <1>a, NoRowIsNoRow DEF Linked, Existing, Row, Statuses
  <2>3. /\ old \in [SubIds -> Row \cup {NoRow}] /\ new \in [SubIds -> Row \cup {NoRow}]
        /\ \A u \in SubIds : /\ old[u] = IF u = s THEN subs[s] ELSE NoRow
                             /\ new[u] = IF u = s THEN row ELSE NoRow
    <3> HIDE DEF row
    <3>1. QED BY <1>a, <2>2 DEF Read
  <2>4. value \in {"keep", "suspended"}
    BY <1>b
  <2>5. t = [Idle EXCEPT !.op = "deleted", !.old = old, !.new = new, !.tenant = value,
                         !.stripe = e]
    BY DEF Edit, Idle
  <2> HIDE DEF row, old, new, value, t
  <2>6. /\ t \in Tx /\ t.op = "deleted" /\ t.insert = NoRow /\ t.tenant = value
        /\ t.stripe = e /\ t.old = old /\ t.new = new
    BY <2>3, <2>4, <2>5 DEF Idle, Tx
  <2>7. Sound(t)
    BY <2>2, <2>3, <2>6 DEF Sound, Shaped
  <2>8. QED BY <2>1, <2>7, BeginKeeps DEF t, row, value
<1>11. ASSUME NEW i \in Invoices, NEW amount \in 1..Total, Refund(h, i, amount) PROVE IInv'
  <2> DEFINE left == IF amount > bills[i].paid THEN 0 ELSE bills[i].paid - amount
             bill == [status |-> "refunded", paid |-> left]
             t == [Idle EXCEPT !.op = "refund", !.invoice = i, !.oldBill = bills[i],
                               !.newBill = bill]
  <2>1. bills[i] \in Bill
    BY <1>a, <1>11 DEF Refund, IInv, ReferencesExist
  <2>2. left \in 0..Total
    <3>1. bills[i].paid \in 0..Total /\ Total \in Nat
      BY <2>1 DEF Bill, ConstantsAssumption
    <3>2. QED BY <3>1
  <2> HIDE DEF left
  <2>3. bill \in Bill /\ bill.status = "refunded"
    BY <2>2 DEF Bill
  <2> HIDE DEF bill
  <2>4. /\ t \in Tx /\ t.op = "refund" /\ t.invoice = i /\ t.oldBill = bills[i]
        /\ t.newBill = bill /\ t.insert = NoRow /\ t.tenant = "keep"
        /\ \A u \in SubIds : t.old[u] = NoRow /\ t.new[u] = NoRow
    BY <2>1, <2>3 DEF Idle, Tx
  <2>5. Begin(h, t)
    BY <1>11 DEF Refund, bill, left
  <2> HIDE DEF t
  <2>6. Sound(t)
    BY <2>1, <2>3, <2>4 DEF Sound, Shaped
  <2>7. QED BY <2>5, <2>6, BeginKeeps
<1>12. CASE RunChanges(h)
  <2> DEFINE due == {c \in Changes : changes[c].state = "pending" /\ changes[c].due}
             S   == {changes[c].sub : c \in due}
  <2>1. PICK last \in [S -> due] :
          /\ \A s \in S : changes[last[s]].sub = s
          /\ Begin(h, [Idle EXCEPT !.op = "run", !.takes = due, !.old = Read(S),
                 !.new = [s \in SubIds |->
                    IF s \in S
                    THEN [subs[s] EXCEPT !.plan = changes[last[s]].plan, !.ending = FALSE]
                    ELSE NoRow]])
    BY <1>12 DEF RunChanges
  <2> DEFINE row(s) == [subs[s] EXCEPT !.plan = changes[last[s]].plan, !.ending = FALSE]
             old == Read(S)
             new == [s \in SubIds |-> IF s \in S THEN row(s) ELSE NoRow]
             t   == [Idle EXCEPT !.op = "run", !.takes = due, !.old = old, !.new = new]
  <2>2. \A s \in S : s \in Existing /\ last[s] \in due /\ changes[last[s]].plan \in Plans
    BY DEF IInv, ReferencesExist
  <2>3. due \in SUBSET Changes
    OBVIOUS
  <2> HIDE DEF due, S
  <2>4. \A s \in S : /\ s \in SubIds /\ subs[s] \in Row /\ subs[s] # NoRow
                     /\ row(s) \in Row /\ row(s) # NoRow
                     /\ row(s).status = subs[s].status /\ row(s).stripe = subs[s].stripe
    <3> SUFFICES ASSUME NEW s \in S
                 PROVE  /\ s \in SubIds /\ subs[s] \in Row /\ subs[s] # NoRow
                        /\ row(s) \in Row /\ row(s) # NoRow
                        /\ row(s).status = subs[s].status /\ row(s).stripe = subs[s].stripe
        OBVIOUS
    <3>1. s \in SubIds /\ subs[s] \in Row /\ subs[s] # NoRow /\ changes[last[s]].plan \in Plans
      BY <1>a, <2>2, NoRowIsNoRow
    <3>2. QED BY <3>1, NoRowIsNoRow DEF Row
  <2> HIDE DEF row
  <2>5. /\ old \in [SubIds -> Row \cup {NoRow}] /\ new \in [SubIds -> Row \cup {NoRow}]
        /\ \A u \in SubIds : /\ old[u] = IF u \in S THEN subs[u] ELSE NoRow
                             /\ new[u] = IF u \in S THEN row(u) ELSE NoRow
    BY <1>a, <2>4 DEF Read
  <2>6. Begin(h, t)
    BY <2>1 DEF row
  <2> HIDE DEF old, new
  <2>7. /\ t \in Tx /\ t.op = "run" /\ t.takes = due /\ t.insert = NoRow /\ t.tenant = "keep"
        /\ t.old = old /\ t.new = new
    BY <2>3, <2>5 DEF Idle, Tx
  <2> HIDE DEF t
  <2>8. Sound(t)
    BY <2>4, <2>5, <2>7 DEF Sound, Shaped
  <2>9. QED BY <2>6, <2>8, BeginKeeps
<1>13. QED
  BY <1>1, <1>2, <1>3, <1>4, <1>5, <1>6, <1>7, <1>8, <1>9, <1>10, <1>11, <1>12
  DEF Operation

-----------------------------------------------------------------------------
(* What commits do to each table *)

\* A commit leaves the changes alone, and so what withdrawals hold.
LEMMA TakesKept ==
    ASSUME IInv, NEW h \in Handlers, tx'[h] = Idle, UNCHANGED changes,
           \A k \in Handlers \ {h} : tx'[k] = tx[k]
    PROVE  TakesAreHeld'
BY IdleType DEF IInv, TakesAreHeld, Withdraws

\* Subscriptions are written (WriteSubs): where nobody else held a copy, a row is what
\* was meant, and if it is cancelled its Stripe subscription has ended.
LEMMA SubsWritten ==
    ASSUME IInv, NEW h \in Handlers, WriteSubs(h), tx'[h] = Idle,
           \A k \in Handlers \ {h} : tx'[k] = tx[k],
           ended \subseteq ended',
           tx[h].op = "deleted" /\ tx[h].stripe \in StripeSubs => tx[h].stripe \in ended'
    PROVE  /\ subs' \in [SubIds -> Row \cup {NoRow}] /\ raced' \subseteq SubIds
           /\ doubled' = doubled /\ Existing' = Existing
           /\ CopyIsFresh' /\ Alone'
           /\ \A s \in Existing' \ raced' : subs'[s].status = "cancelled" =>
                                               subs'[s].stripe \in ended'
<1> DEFINE old(s) == tx[h].old[s]
           new(s) == tx[h].new[s]
<1>1. /\ subs \in [SubIds -> Row \cup {NoRow}] /\ raced \subseteq SubIds
      /\ \A s \in SubIds : /\ old(s) \in Row \cup {NoRow} /\ new(s) \in Row \cup {NoRow}
                           /\ old(s) = NoRow <=> new(s) = NoRow
                           /\ old(s) # NoRow => subs[s] # NoRow
                                                   /\ (subs[s] = old(s) \/ s \in raced)
  BY DEF IInv, TypeOK, Tx, TxShape, Shaped, CopyIsFresh
<1>2. \A s \in SubIds : subs'[s] = Merge(subs[s], old(s), new(s))
  BY DEF WriteSubs
<1>3. \A s \in SubIds :
        /\ subs'[s] \in Row \cup {NoRow}
        /\ subs[s] = NoRow => subs'[s] = NoRow
        /\ subs[s] # NoRow => subs'[s] # NoRow
        /\ old(s) = NoRow => subs'[s] = subs[s]
        /\ old(s) # NoRow /\ s \notin raced => subs'[s] = new(s)
  <2> SUFFICES ASSUME NEW s \in SubIds
               PROVE  /\ subs'[s] \in Row \cup {NoRow}
                      /\ subs[s] = NoRow => subs'[s] = NoRow
                      /\ subs[s] # NoRow => subs'[s] # NoRow
                      /\ old(s) = NoRow => subs'[s] = subs[s]
                      /\ old(s) # NoRow /\ s \notin raced => subs'[s] = new(s)
      OBVIOUS
  <2> HIDE DEF old, new
  <2>1. CASE old(s) = NoRow \/ subs[s] = NoRow
    <3>1. subs'[s] = subs[s]
      BY <1>2, <2>1, MergeNothing
    <3>2. QED BY <1>1, <2>1, <3>1
  <2>2. CASE old(s) # NoRow /\ subs[s] # NoRow
    <3>1. subs[s] \in Row /\ old(s) \in Row /\ new(s) \in Row
      BY <1>1, <2>2
    <3>2. subs'[s] \in Row /\ (subs[s] = old(s) => subs'[s] = new(s))
      BY <1>2, <3>1, MergeRow
    <3>3. QED BY <1>1, <2>2, <3>2, NoRowIsNoRow
  <2>3. QED BY <2>1, <2>2
<1>4. subs' \in [SubIds -> Row \cup {NoRow}]
  <2>1. subs' = [s \in SubIds |-> subs'[s]]
    BY DEF WriteSubs
  <2>2. QED BY <1>3, <2>1
<1>5. /\ raced \subseteq raced' /\ raced' \subseteq SubIds /\ doubled' = doubled
      /\ \A s \in SubIds, k \in Handlers \ {h} :
            old(s) # NoRow /\ tx[k].old[s] # NoRow => s \in raced'
  BY <1>1 DEF WriteSubs
<1>6. Existing' = Existing
  BY <1>3 DEF Existing
<1>7. CopyIsFresh'
  <2> SUFFICES ASSUME NEW k \in Handlers, NEW s \in SubIds, tx'[k].old[s] # NoRow
               PROVE  subs'[s] # NoRow /\ (subs'[s] = tx'[k].old[s] \/ s \in raced')
      BY DEF CopyIsFresh
  <2>1. k # h /\ tx'[k] = tx[k]
    BY IdleType
  <2>2. subs[s] # NoRow /\ (subs[s] = tx[k].old[s] \/ s \in raced)
    BY <2>1 DEF IInv, CopyIsFresh
  <2>3. QED BY <1>3, <1>5, <2>1, <2>2
<1>8. Alone'
  BY <1>5, <1>6, IdleType DEF IInv, Alone
<1>9. ASSUME NEW s \in Existing' \ raced', subs'[s].status = "cancelled"
      PROVE  subs'[s].stripe \in ended'
  <2>1. s \in Existing \ raced /\ s \in SubIds
    BY <1>5, <1>6, <1>9 DEF Existing
  <2>2. CASE old(s) = NoRow
    BY <1>3, <1>9, <2>1, <2>2 DEF IInv, StripeCancelsItsOwn
  <2>3. CASE old(s) # NoRow
    <3>1. /\ subs'[s] = new(s) /\ subs[s] = old(s) /\ new(s) # NoRow
          /\ new(s).status = "cancelled"
      BY <1>1, <1>3, <1>9, <2>1, <2>3
    <3>2. \/ /\ tx[h].op = "deleted" /\ tx[h].stripe \in StripeSubs
             /\ new(s).stripe = tx[h].stripe
          \/ old(s).status = "cancelled" /\ old(s).stripe = new(s).stripe
      BY <2>1, <3>1 DEF IInv, TxShape, Shaped
    <3>3. old(s).status = "cancelled" => old(s).stripe \in ended
      BY <2>1, <3>1 DEF IInv, StripeCancelsItsOwn
    <3>4. QED BY <3>1, <3>2, <3>3
  <2>4. QED BY <2>2, <2>3
<1>10. QED BY <1>4, <1>5, <1>6, <1>7, <1>8, <1>9

\* A subscription is inserted (InsertSub).
LEMMA SubInserted ==
    ASSUME IInv, NEW h \in Handlers, tx[h].insert # NoRow, InsertSub(h), tx'[h] = Idle,
           \A k \in Handlers \ {h} : tx'[k] = tx[k], ended \subseteq ended'
    PROVE  /\ subs' \in [SubIds -> Row \cup {NoRow}] /\ raced' \subseteq SubIds
           /\ doubled' \in BOOLEAN /\ Existing \subseteq Existing'
           /\ CopyIsFresh' /\ Alone'
           /\ \A s \in Existing' \ raced' : subs'[s].status = "cancelled" =>
                                               subs'[s].stripe \in ended'
<1>1. PICK s \in SubIds \ Existing : subs' = [subs EXCEPT ![s] = tx[h].insert]
  BY DEF InsertSub
<1>2. /\ subs \in [SubIds -> Row \cup {NoRow}] /\ raced \subseteq SubIds /\ doubled \in BOOLEAN
      /\ tx[h].insert \in Row /\ tx[h].insert.status # "cancelled"
      /\ subs[s] = NoRow /\ raced' = raced
      /\ doubled' = (doubled \/ \E k \in Handlers \ {h} : tx[k].insert # NoRow)
  BY <1>1 DEF IInv, TypeOK, Tx, TxShape, Shaped, Existing, InsertSub
<1>3. subs' \in [SubIds -> Row \cup {NoRow}] /\ doubled' \in BOOLEAN
  BY <1>1, <1>2
<1>4. /\ subs'[s] = tx[h].insert /\ subs'[s] # NoRow
      /\ \A u \in SubIds \ {s} : subs'[u] = subs[u]
      /\ Existing' = Existing \cup {s}
  BY <1>1, <1>2 DEF Existing
<1>5. CopyIsFresh'
  BY <1>2, <1>4, IdleType DEF IInv, CopyIsFresh
<1>6. Alone'
  <2> SUFFICES ASSUME ~doubled'
               PROVE  /\ \A x, y \in Existing' : x = y
                      /\ \A k \in Handlers : tx'[k].insert # NoRow => Existing' = {}
      BY DEF Alone
  <2>1. ~doubled /\ \A k \in Handlers \ {h} : tx[k].insert = NoRow
    BY <1>2
  <2>2. Existing = {}
    BY <2>1 DEF IInv, Alone
  <2>3. QED BY <1>4, <2>1, <2>2, IdleType
<1>7. ASSUME NEW u \in Existing' \ raced', subs'[u].status = "cancelled"
      PROVE  subs'[u].stripe \in ended'
  BY <1>2, <1>4, <1>7 DEF IInv, StripeCancelsItsOwn, Existing
<1>8. QED BY <1>2, <1>3, <1>4, <1>5, <1>6, <1>7

\* An operation that has nothing to do with subscriptions ends.
LEMMA SubsKept ==
    ASSUME IInv, NEW h \in Handlers, tx'[h] = Idle, \A k \in Handlers \ {h} : tx'[k] = tx[k],
           UNCHANGED <<subs, tenant, doubled, raced, ended>>
    PROVE  Existing' = Existing /\ CopyIsFresh' /\ Alone' /\ StripeCancelsItsOwn'
<1>1. Existing' = Existing
  BY DEF Existing
<1>2. CopyIsFresh'
  BY IdleType DEF IInv, CopyIsFresh
<1>3. Alone' /\ StripeCancelsItsOwn'
  BY <1>1, IdleType DEF IInv, Alone, StripeCancelsItsOwn
<1>4. QED BY <1>1, <1>2, <1>3

\* What refers to a subscription refers to one still.
LEMMA ReferencesKept ==
    ASSUME IInv, NEW h \in Handlers, tx'[h] = Idle, \A k \in Handlers \ {h} : tx'[k] = tx[k],
           Existing \subseteq Existing',
           \A c \in Changes : changes'[c].state = "pending" =>
              \/ changes[c].state = "pending" /\ changes'[c].sub = changes[c].sub
                                              /\ changes'[c].plan = changes[c].plan
              \/ changes'[c].sub \in Existing' /\ changes'[c].plan \in Plans,
           \A i \in Invoices : payments'[i] > 0 => bills'[i] # NoRow
    PROVE  ReferencesExist'
<1>1. \A c \in Changes : changes'[c].state = "pending" =>
         changes'[c].sub \in Existing' /\ changes'[c].plan \in Plans
  BY DEF IInv, ReferencesExist
<1>2. \A k \in Handlers : tx'[k].op = "downgrade" => tx'[k].sub \in Existing'
  BY IdleType DEF IInv, ReferencesExist
<1>3. QED BY <1>1, <1>2 DEF ReferencesExist

-----------------------------------------------------------------------------
(* Commits *)

\* Subscriptions and the tenant are written (CommitSubscription).
LEMMA CommitSubscriptionKeeps ==
    ASSUME IInv, NEW h \in Handlers, CommitSubscription(h)
    PROVE  IInv'
<1>1. /\ tx' \in [Handlers -> Tx] /\ TxShape' /\ tx'[h] = Idle
      /\ \A k \in Handlers \ {h} : tx'[k] = tx[k]
  BY EndStep DEF CommitSubscription
<1>2. /\ tenant' = IF tx[h].tenant = "keep" THEN tenant ELSE tx[h].tenant
      /\ ended' = ended \cup ({tx[h].stripe} \ {NoStripe})
      /\ UNCHANGED <<changes, bills, payments, ops, ran>>
      /\ IF tx[h].insert = NoRow THEN WriteSubs(h) ELSE InsertSub(h)
  BY DEF CommitSubscription
<1>3. /\ tenant \in {"trial", "active", "suspended"} /\ ended \subseteq StripeSubs
      /\ tx[h].tenant \in {"keep", "active", "suspended"}
      /\ tx[h].stripe \in StripeSubs \cup {NoStripe}
  BY DEF IInv, TypeOK, Tx
<1>4. /\ tenant' \in {"trial", "active", "suspended"} /\ ended' \subseteq StripeSubs
      /\ ended \subseteq ended'
      /\ tx[h].op = "deleted" /\ tx[h].stripe \in StripeSubs => tx[h].stripe \in ended'
  BY <1>2, <1>3 DEF ConstantsAssumption
<1>5. /\ subs' \in [SubIds -> Row \cup {NoRow}] /\ raced' \subseteq SubIds
      /\ doubled' \in BOOLEAN /\ Existing \subseteq Existing'
      /\ CopyIsFresh' /\ Alone'
      /\ \A s \in Existing' \ raced' : subs'[s].status = "cancelled" =>
                                          subs'[s].stripe \in ended'
  <2>1. CASE tx[h].insert = NoRow
    <3>1. doubled \in BOOLEAN
      BY DEF IInv, TypeOK
    <3>2. WriteSubs(h)
      BY <1>2, <2>1
    <3>3. QED BY <1>1, <1>4, <3>1, <3>2, SubsWritten
  <2>2. CASE tx[h].insert # NoRow
    <3>1. InsertSub(h)
      BY <1>2, <2>2
    <3>2. QED BY <1>1, <1>4, <2>2, <3>1, SubInserted
  <2>3. QED BY <2>1, <2>2
<1>6. StripeCancelsItsOwn'
  <2>1. tenant' = "suspended" => ended' # {}
    <3>1. tenant = "suspended" => ended # {}
      BY DEF IInv, StripeCancelsItsOwn
    <3>2. tx[h].tenant = "suspended" => tx[h].op = "deleted" /\ tx[h].stripe \in StripeSubs
      BY DEF IInv, TxShape, Shaped
    <3>3. QED BY <1>2, <1>4, <3>1, <3>2
  <2>2. QED BY <1>5, <2>1 DEF StripeCancelsItsOwn
<1>7. TakesAreHeld' /\ WithdrawnNeverRuns'
  BY <1>1, <1>2, TakesKept DEF IInv, WithdrawnNeverRuns
<1>8. ReferencesExist'
  BY <1>1, <1>2, <1>5, ReferencesKept DEF IInv, ReferencesExist
<1>9. TypeOK'
  BY <1>1, <1>2, <1>4, <1>5 DEF IInv, TypeOK
<1>10. QED BY <1>1, <1>5, <1>6, <1>7, <1>8, <1>9 DEF IInv

\* A withdrawal deletes what it holds, and may insert a change: nothing of that was
\* applied, or is held by another withdrawal.
LEMMA Withdrawn ==
    ASSUME IInv, NEW h \in Handlers, Withdraws(h), tx'[h] = Idle,
           \A k \in Handlers \ {h} : tx'[k] = tx[k],
           NEW N, \A c \in N : changes[c].state = "none",
           \A c \in Changes \ (tx[h].takes \cup N) : changes'[c] = changes[c], ran' = ran
    PROVE  TakesAreHeld' /\ WithdrawnNeverRuns'
<1>1. \A c \in tx[h].takes : changes[c].state = "pending"
  BY DEF IInv, TakesAreHeld
<1>2. \A k \in Handlers : tx[k].takes \subseteq Changes
  BY DEF IInv, TypeOK, Tx
<1>3. WithdrawnNeverRuns'
  BY <1>1 DEF IInv, TypeOK, WithdrawnNeverRuns
<1>4. TakesAreHeld'
  <2> SUFFICES ASSUME NEW k \in Handlers, Withdraws(k)'
               PROVE  /\ \A c \in tx'[k].takes : changes'[c].state = "pending"
                      /\ \A j \in Handlers \ {k} : Withdraws(j)' =>
                            tx'[k].takes \cap tx'[j].takes = {}
      BY DEF TakesAreHeld
  <2>1. \A j \in Handlers : Withdraws(j)' => j # h /\ tx'[j] = tx[j] /\ Withdraws(j)
    BY IdleType DEF Withdraws
  <2>2. /\ \A c \in tx[k].takes : changes[c].state = "pending"
        /\ \A j \in Handlers \ {k} : Withdraws(j) => tx[k].takes \cap tx[j].takes = {}
    BY <2>1 DEF IInv, TakesAreHeld
  <2>3. \A c \in tx[k].takes : c \in Changes \ (tx[h].takes \cup N)
    BY <1>2, <2>1, <2>2
  <2>4. QED BY <2>1, <2>2, <2>3
<1>5. QED BY <1>3, <1>4

\* Pending changes are deleted and the new one is inserted (CommitDowngrade).
LEMMA CommitDowngradeKeeps ==
    ASSUME IInv, NEW h \in Handlers, CommitDowngrade(h)
    PROVE  IInv'
<1>1. /\ tx' \in [Handlers -> Tx] /\ TxShape' /\ tx'[h] = Idle
      /\ \A k \in Handlers \ {h} : tx'[k] = tx[k]
  BY EndStep DEF CommitDowngrade
<1>2. /\ UNCHANGED <<subs, tenant, bills, payments, ops, doubled, raced, ended, ran>>
      /\ tx[h].op = "downgrade"
  BY DEF CommitDowngrade, history
<1>3. PICK c \in Changes :
        /\ changes[c].state = "none"
        /\ changes' = [d \in Changes |->
              IF d \in tx[h].takes THEN [changes[d] EXCEPT !.state = "deleted"]
              ELSE IF d = c THEN [state |-> "pending", sub |-> tx[h].sub,
                                  plan |-> tx[h].plan, due |-> FALSE]
              ELSE changes[d]]
  BY DEF CommitDowngrade
<1>4. tx[h].sub \in Existing /\ tx[h].sub \in SubIds /\ tx[h].plan \in Plans
  BY <1>2 DEF IInv, ReferencesExist, TxShape, Shaped
<1>5. \A d \in Changes :
        /\ changes'[d] \in Change
        /\ d \notin tx[h].takes \cup {c} => changes'[d] = changes[d]
        /\ changes'[d].state = "pending" =>
              \/ changes'[d] = changes[d]
              \/ changes'[d].sub = tx[h].sub /\ changes'[d].plan = tx[h].plan
  <2> SUFFICES ASSUME NEW d \in Changes
               PROVE  /\ changes'[d] \in Change
                      /\ d \notin tx[h].takes \cup {c} => changes'[d] = changes[d]
                      /\ changes'[d].state = "pending" =>
                            \/ changes'[d] = changes[d]
                            \/ changes'[d].sub = tx[h].sub /\ changes'[d].plan = tx[h].plan
      OBVIOUS
  <2>0. changes[d] \in Change
    BY DEF IInv, TypeOK
  <2>1. CASE d \in tx[h].takes
    <3>1. changes'[d] = [changes[d] EXCEPT !.state = "deleted"]
      BY <1>3, <2>1
    <3>2. QED BY <2>0, <2>1, <3>1 DEF Change
  <2>2. CASE d \notin tx[h].takes /\ d = c
    <3>1. changes'[d] = [state |-> "pending", sub |-> tx[h].sub, plan |-> tx[h].plan,
                         due |-> FALSE]
      BY <1>3, <2>2
    <3>2. QED BY <1>4, <2>2, <3>1 DEF Change
  <2>3. CASE d \notin tx[h].takes /\ d # c
    BY <1>3, <2>0, <2>3
  <2>4. QED BY <2>1, <2>2, <2>3
<1>6. changes' \in [Changes -> Change]
  BY <1>3, <1>5
<1>7. Existing' = Existing /\ CopyIsFresh' /\ Alone' /\ StripeCancelsItsOwn'
  BY <1>1, <1>2, SubsKept
<1>8. TakesAreHeld' /\ WithdrawnNeverRuns'
  <2> DEFINE N == {c}
  <2>1. Withdraws(h)
    BY <1>2 DEF Withdraws
  <2>2. /\ \A d \in N : changes[d].state = "none"
        /\ \A d \in Changes \ (tx[h].takes \cup N) : changes'[d] = changes[d]
    BY <1>3, <1>5
  <2> HIDE DEF N
  <2>3. QED BY <1>1, <1>2, <2>1, <2>2, Withdrawn
<1>9. ReferencesExist'
  BY <1>1, <1>2, <1>4, <1>5, <1>7, ReferencesKept DEF IInv, ReferencesExist
<1>10. TypeOK'
  BY <1>1, <1>2, <1>6 DEF IInv, TypeOK
<1>11. QED BY <1>1, <1>7, <1>8, <1>9, <1>10 DEF IInv

\* Pending changes are deleted (CommitCancelDowngrade).
LEMMA CommitCancelDowngradeKeeps ==
    ASSUME IInv, NEW h \in Handlers, CommitCancelDowngrade(h)
    PROVE  IInv'
<1>1. /\ tx' \in [Handlers -> Tx] /\ TxShape' /\ tx'[h] = Idle
      /\ \A k \in Handlers \ {h} : tx'[k] = tx[k]
  BY EndStep DEF CommitCancelDowngrade
<1>2. /\ UNCHANGED <<subs, tenant, bills, payments, ops, doubled, raced, ended, ran>>
      /\ tx[h].op = "withdraw"
      /\ changes' = [d \in Changes |->
            IF d \in tx[h].takes THEN [changes[d] EXCEPT !.state = "deleted"]
            ELSE changes[d]]
  BY DEF CommitCancelDowngrade, history
<1>3. \A d \in Changes :
        /\ changes'[d] \in Change
        /\ d \notin tx[h].takes => changes'[d] = changes[d]
        /\ changes'[d].state = "pending" => changes'[d] = changes[d]
  <2> SUFFICES ASSUME NEW d \in Changes
               PROVE  /\ changes'[d] \in Change
                      /\ d \notin tx[h].takes => changes'[d] = changes[d]
                      /\ changes'[d].state = "pending" => changes'[d] = changes[d]
      OBVIOUS
  <2>1. changes[d] \in Change
    BY DEF IInv, TypeOK
  <2>2. QED BY <1>2, <2>1 DEF Change
<1>4. changes' \in [Changes -> Change]
  BY <1>2, <1>3
<1>5. Existing' = Existing /\ CopyIsFresh' /\ Alone' /\ StripeCancelsItsOwn'
  BY <1>1, <1>2, SubsKept
<1>6. TakesAreHeld' /\ WithdrawnNeverRuns'
  <2> DEFINE N == {}
  <2>1. Withdraws(h)
    BY <1>2 DEF Withdraws
  <2>2. /\ \A d \in N : changes[d].state = "none"
        /\ \A d \in Changes \ (tx[h].takes \cup N) : changes'[d] = changes[d]
    BY <1>3
  <2> HIDE DEF N
  <2>3. QED BY <1>1, <1>2, <2>1, <2>2, Withdrawn
<1>7. ReferencesExist'
  BY <1>1, <1>2, <1>3, <1>5, ReferencesKept DEF IInv, ReferencesExist
<1>8. TypeOK'
  BY <1>1, <1>2, <1>4 DEF IInv, TypeOK
<1>9. QED BY <1>1, <1>5, <1>6, <1>7, <1>8 DEF IInv

\* Changes that are due are applied (CommitRun): nobody has deleted them.
LEMMA CommitRunKeeps ==
    ASSUME IInv, NEW h \in Handlers, CommitRun(h)
    PROVE  IInv'
<1>1. /\ tx' \in [Handlers -> Tx] /\ TxShape' /\ tx'[h] = Idle
      /\ \A k \in Handlers \ {h} : tx'[k] = tx[k]
  BY EndStep DEF CommitRun
<1>2. /\ UNCHANGED <<tenant, bills, payments, ops, ended>>
      /\ tx[h].op = "run" /\ tx[h].takes \cap Locked = {} /\ WriteSubs(h)
      /\ changes' = [d \in Changes |->
            IF d \in tx[h].takes THEN [changes[d] EXCEPT !.state = "executed"]
            ELSE changes[d]]
      /\ ran' = ran \cup tx[h].takes
  BY DEF CommitRun
<1>3. tx[h].takes \in SUBSET Changes /\ ran \subseteq Changes
  BY DEF IInv, TypeOK, Tx
<1>4. \A d \in Changes :
        /\ changes'[d] \in Change
        /\ IF d \in tx[h].takes THEN changes'[d].state = "executed"
           ELSE changes'[d] = changes[d]
  <2> SUFFICES ASSUME NEW d \in Changes
               PROVE  /\ changes'[d] \in Change
                      /\ IF d \in tx[h].takes THEN changes'[d].state = "executed"
                         ELSE changes'[d] = changes[d]
      OBVIOUS
  <2>1. changes[d] \in Change
    BY DEF IInv, TypeOK
  <2>2. QED BY <1>2, <2>1 DEF Change
<1>5. changes' \in [Changes -> Change] /\ ran' \subseteq Changes
  BY <1>2, <1>3, <1>4
<1>6. /\ subs' \in [SubIds -> Row \cup {NoRow}] /\ raced' \subseteq SubIds
      /\ doubled' = doubled /\ Existing' = Existing
      /\ CopyIsFresh' /\ Alone'
      /\ \A s \in Existing' \ raced' : subs'[s].status = "cancelled" =>
                                          subs'[s].stripe \in ended'
  BY <1>1, <1>2, SubsWritten
<1>7. StripeCancelsItsOwn'
  BY <1>2, <1>6 DEF IInv, StripeCancelsItsOwn
<1>8. WithdrawnNeverRuns'
  BY <1>2, <1>3, <1>4 DEF IInv, WithdrawnNeverRuns
<1>9. TakesAreHeld'
  <2> SUFFICES ASSUME NEW k \in Handlers, Withdraws(k)'
               PROVE  /\ \A c \in tx'[k].takes : changes'[c].state = "pending"
                      /\ \A j \in Handlers \ {k} : Withdraws(j)' =>
                            tx'[k].takes \cap tx'[j].takes = {}
      BY DEF TakesAreHeld
  <2>1. \A j \in Handlers : Withdraws(j)' =>
          /\ j # h /\ tx'[j] = tx[j] /\ Withdraws(j)
          /\ tx[j].takes \subseteq Locked /\ tx[j].takes \subseteq Changes
    BY <1>1, IdleType DEF IInv, TypeOK, Tx, Withdraws, Locked
  <2>2. /\ \A c \in tx[k].takes : changes[c].state = "pending"
        /\ \A j \in Handlers \ {k} : Withdraws(j) => tx[k].takes \cap tx[j].takes = {}
    BY <2>1 DEF IInv, TakesAreHeld
  <2>3. \A c \in tx[k].takes : changes'[c] = changes[c]
    BY <1>2, <1>4, <2>1
  <2>4. QED BY <2>1, <2>2, <2>3
<1>10. ReferencesExist'
  <2>1. \A c \in Changes : changes'[c].state = "pending" => changes'[c] = changes[c]
    BY <1>4
  <2>2. QED BY <1>1, <1>2, <1>6, <2>1, ReferencesKept DEF IInv, ReferencesExist
<1>11. TypeOK'
  BY <1>1, <1>2, <1>5, <1>6 DEF IInv, TypeOK
<1>12. QED BY <1>1, <1>6, <1>7, <1>8, <1>9, <1>10, <1>11 DEF IInv

\* An invoice is inserted or updated, a payment is added to it (CommitPaid).
LEMMA CommitPaidKeeps ==
    ASSUME IInv, NEW h \in Handlers, CommitPaid(h)
    PROVE  IInv'
<1> DEFINE i == tx[h].invoice
<1>1. /\ tx' \in [Handlers -> Tx] /\ TxShape' /\ tx'[h] = Idle
      /\ \A k \in Handlers \ {h} : tx'[k] = tx[k]
  BY EndStep DEF CommitPaid
<1>2. /\ UNCHANGED <<tenant, changes, ops, ended, ran>>
      /\ tx[h].op = "paid" /\ WriteSubs(h)
      /\ bills' = [bills EXCEPT ![i] = IF @ = NoRow THEN tx[h].newBill
                                       ELSE Merge(@, tx[h].oldBill, tx[h].newBill)]
      /\ payments' = [payments EXCEPT ![i] = @ + 1]
  BY DEF CommitPaid
<1>3. /\ i \in Invoices /\ tx[h].newBill \in Bill /\ tx[h].oldBill \in Bill \cup {NoRow}
      /\ bills \in [Invoices -> Bill \cup {NoRow}] /\ payments \in [Invoices -> Nat]
  BY <1>2 DEF IInv, TypeOK, Tx, TxShape, Shaped
<1> HIDE DEF i
<1>4. bills'[i] \in Bill
  <2>1. CASE bills[i] = NoRow
    BY <1>2, <1>3, <2>1
  <2>2. CASE bills[i] # NoRow /\ tx[h].oldBill = NoRow
    BY <1>2, <1>3, <2>2, MergeNothing
  <2>3. CASE bills[i] # NoRow /\ tx[h].oldBill # NoRow
    <3>1. Merge(bills[i], tx[h].oldBill, tx[h].newBill) \in Bill
      BY <1>3, <2>3, MergeBill
    <3>2. QED BY <1>2, <1>3, <2>3, <3>1
  <2>4. QED BY <2>1, <2>2, <2>3
<1>5. /\ bills' \in [Invoices -> Bill \cup {NoRow}] /\ payments' \in [Invoices -> Nat]
      /\ \A j \in Invoices \ {i} : bills'[j] = bills[j] /\ payments'[j] = payments[j]
  BY <1>2, <1>3, <1>4
<1>6. /\ subs' \in [SubIds -> Row \cup {NoRow}] /\ raced' \subseteq SubIds
      /\ doubled' = doubled /\ Existing' = Existing
      /\ CopyIsFresh' /\ Alone'
      /\ \A s \in Existing' \ raced' : subs'[s].status = "cancelled" =>
                                          subs'[s].stripe \in ended'
  BY <1>1, <1>2, SubsWritten
<1>7. StripeCancelsItsOwn'
  BY <1>2, <1>6 DEF IInv, StripeCancelsItsOwn
<1>8. TakesAreHeld' /\ WithdrawnNeverRuns'
  BY <1>1, <1>2, TakesKept DEF IInv, WithdrawnNeverRuns
<1>9. ReferencesExist'
  <2>1. \A j \in Invoices : payments'[j] > 0 => bills'[j] # NoRow
    BY <1>4, <1>5, NoRowIsNoRow DEF IInv, ReferencesExist
  <2>2. QED BY <1>1, <1>2, <1>6, <2>1, ReferencesKept
<1>10. TypeOK'
  BY <1>1, <1>2, <1>5, <1>6 DEF IInv, TypeOK
<1>11. QED BY <1>1, <1>6, <1>7, <1>8, <1>9, <1>10 DEF IInv

\* An invoice is updated (CommitRefund).
LEMMA CommitRefundKeeps ==
    ASSUME IInv, NEW h \in Handlers, CommitRefund(h)
    PROVE  IInv'
<1> DEFINE i == tx[h].invoice
<1>1. /\ tx' \in [Handlers -> Tx] /\ TxShape' /\ tx'[h] = Idle
      /\ \A k \in Handlers \ {h} : tx'[k] = tx[k]
  BY EndStep DEF CommitRefund
<1>2. /\ UNCHANGED <<subs, tenant, changes, payments, ops, doubled, raced, ended, ran>>
      /\ tx[h].op = "refund"
      /\ bills' = [bills EXCEPT ![i] = Merge(@, tx[h].oldBill, tx[h].newBill)]
  BY DEF CommitRefund, history
<1>3. /\ i \in Invoices /\ tx[h].newBill \in Bill /\ tx[h].oldBill \in Bill
      /\ bills \in [Invoices -> Bill \cup {NoRow}]
  BY <1>2 DEF IInv, TypeOK, TxShape, Shaped
<1> HIDE DEF i
<1>4. bills'[i] \in Bill \cup {NoRow} /\ (bills[i] # NoRow => bills'[i] # NoRow)
  <2>1. bills'[i] = Merge(bills[i], tx[h].oldBill, tx[h].newBill)
    BY <1>2, <1>3
  <2>2. CASE bills[i] = NoRow
    BY <2>1, <2>2, MergeNothing
  <2>3. CASE bills[i] # NoRow
    <3>1. bills'[i] \in Bill
      BY <1>3, <2>1, <2>3, MergeBill
    <3>2. QED BY <3>1, NoRowIsNoRow
  <2>4. QED BY <2>2, <2>3
<1>5. /\ bills' \in [Invoices -> Bill \cup {NoRow}]
      /\ \A j \in Invoices \ {i} : bills'[j] = bills[j]
  BY <1>2, <1>3, <1>4
<1>6. Existing' = Existing /\ CopyIsFresh' /\ Alone' /\ StripeCancelsItsOwn'
  BY <1>1, <1>2, SubsKept
<1>7. TakesAreHeld' /\ WithdrawnNeverRuns'
  BY <1>1, <1>2, TakesKept DEF IInv, WithdrawnNeverRuns
<1>8. ReferencesExist'
  <2>1. \A j \in Invoices : payments'[j] > 0 => bills'[j] # NoRow
    BY <1>2, <1>4, <1>5 DEF IInv, ReferencesExist
  <2>2. QED BY <1>1, <1>2, <1>6, <2>1, ReferencesKept
<1>9. TypeOK'
  BY <1>1, <1>2, <1>5 DEF IInv, TypeOK
<1>10. QED BY <1>1, <1>6, <1>7, <1>8, <1>9 DEF IInv

\* What was read is forgotten (Abort).
LEMMA AbortKeeps ==
    ASSUME IInv, NEW h \in Handlers, Abort(h)
    PROVE  IInv'
<1>1. /\ tx' \in [Handlers -> Tx] /\ TxShape' /\ tx'[h] = Idle
      /\ \A k \in Handlers \ {h} : tx'[k] = tx[k]
  BY EndStep DEF Abort
<1>2. UNCHANGED <<subs, tenant, changes, bills, payments, ops, doubled, raced, ended, ran>>
  BY DEF Abort, tables, history
<1>3. Existing' = Existing /\ CopyIsFresh' /\ Alone' /\ StripeCancelsItsOwn'
  BY <1>1, <1>2, SubsKept
<1>4. TakesAreHeld' /\ WithdrawnNeverRuns'
  BY <1>1, <1>2, TakesKept DEF IInv, WithdrawnNeverRuns
<1>5. ReferencesExist'
  BY <1>1, <1>2, <1>3, ReferencesKept DEF IInv, ReferencesExist
<1>6. TypeOK'
  BY <1>1, <1>2 DEF IInv, TypeOK
<1>7. QED BY <1>1, <1>3, <1>4, <1>5, <1>6 DEF IInv

\* A change becomes due (PeriodEnds).
LEMMA PeriodEndsKeeps ==
    ASSUME IInv, NEW c \in Changes, PeriodEnds(c)
    PROVE  IInv'
<1>1. /\ UNCHANGED <<subs, tenant, bills, payments, tx, ops, doubled, raced, ended, ran>>
      /\ changes' = [changes EXCEPT ![c].due = TRUE] /\ changes \in [Changes -> Change]
  BY DEF PeriodEnds, history, IInv, TypeOK
<1>2. /\ changes' \in [Changes -> Change]
      /\ \A d \in Changes : /\ changes'[d].state = changes[d].state
                            /\ changes'[d].sub = changes[d].sub
                            /\ changes'[d].plan = changes[d].plan
  BY <1>1 DEF Change
<1>3. TypeOK' /\ TxShape' /\ Alone' /\ CopyIsFresh' /\ StripeCancelsItsOwn'
  BY <1>1, <1>2 DEF IInv, TypeOK, TxShape, Alone, CopyIsFresh, StripeCancelsItsOwn, Existing
<1>4. ReferencesExist'
  BY <1>1, <1>2 DEF IInv, ReferencesExist, Existing
<1>5. \A h \in Handlers : tx[h].takes \subseteq Changes
  BY DEF IInv, TypeOK, Tx
<1>6. TakesAreHeld'
  BY <1>1, <1>2, <1>5 DEF IInv, TakesAreHeld, Withdraws
<1>7. WithdrawnNeverRuns'
  BY <1>1, <1>2 DEF IInv, TypeOK, WithdrawnNeverRuns
<1>8. QED BY <1>3, <1>4, <1>6, <1>7 DEF IInv

-----------------------------------------------------------------------------
(* The invariant *)

LEMMA InitIInv == Init => IInv
<1> SUFFICES ASSUME Init PROVE IInv
    OBVIOUS
<1>1. Existing = {}
  BY DEF Init, Existing
<1>2. TypeOK
  <2>1. NoChange \in Change
    BY DEF NoChange, Change
  <2>2. ops \in 0..MaxOps
    BY DEF Init, ConstantsAssumption
  <2>3. QED BY <2>1, <2>2, IdleType DEF Init, TypeOK
<1>3. TxShape /\ TakesAreHeld /\ CopyIsFresh
  BY IdleType DEF Init, TxShape, TakesAreHeld, Withdraws, CopyIsFresh
<1>4. ReferencesExist
  BY IdleType DEF Init, ReferencesExist, NoChange
<1>5. Alone /\ WithdrawnNeverRuns /\ StripeCancelsItsOwn
  BY <1>1 DEF Init, Alone, WithdrawnNeverRuns, StripeCancelsItsOwn
<1>6. QED BY <1>2, <1>3, <1>4, <1>5 DEF IInv

LEMMA StepIInv == IInv /\ [Next]_vars => IInv'
<1> SUFFICES ASSUME IInv, [Next]_vars PROVE IInv'
    OBVIOUS
<1>1. ASSUME NEW h \in Handlers, Operation(h) PROVE IInv'
  BY <1>1, OperationKeeps
<1>2. ASSUME NEW h \in Handlers, Commit(h) PROVE IInv'
  <2>1. CASE CommitSubscription(h)
    BY <2>1, CommitSubscriptionKeeps
  <2>2. CASE CommitDowngrade(h)
    BY <2>2, CommitDowngradeKeeps
  <2>3. CASE CommitCancelDowngrade(h)
    BY <2>3, CommitCancelDowngradeKeeps
  <2>4. CASE CommitRun(h)
    BY <2>4, CommitRunKeeps
  <2>5. CASE CommitPaid(h)
    BY <2>5, CommitPaidKeeps
  <2>6. CASE CommitRefund(h)
    BY <2>6, CommitRefundKeeps
  <2>7. QED BY <1>2, <2>1, <2>2, <2>3, <2>4, <2>5, <2>6 DEF Commit
<1>3. ASSUME NEW h \in Handlers, Abort(h) PROVE IInv'
  BY <1>3, AbortKeeps
<1>4. ASSUME NEW c \in Changes, PeriodEnds(c) PROVE IInv'
  BY <1>4, PeriodEndsKeeps
<1>5. CASE UNCHANGED vars
  <2>1. UNCHANGED <<subs, tenant, changes, bills, payments, tx, ops, doubled, raced, ended,
                    ran>>
    BY <1>5 DEF vars, tables, history
  <2>2. TypeOK' /\ TxShape' /\ ReferencesExist' /\ Alone'
    BY <2>1 DEF IInv, TypeOK, TxShape, ReferencesExist, Alone, Existing
  <2>3. TakesAreHeld' /\ WithdrawnNeverRuns' /\ CopyIsFresh' /\ StripeCancelsItsOwn'
    BY <2>1 DEF IInv, TakesAreHeld, Withdraws, WithdrawnNeverRuns, CopyIsFresh,
                StripeCancelsItsOwn, Existing
  <2>4. QED BY <2>2, <2>3 DEF IInv
<1>6. QED BY <1>1, <1>2, <1>3, <1>4, <1>5 DEF Next

\* What handlers hold, what refers to a subscription and what was raced stay consistent,
\* whatever requests, Stripe events, job runs and crashes interleave.
THEOREM Inductive == Spec => []IInv
BY InitIInv, StepIInv, PTL DEF Spec

\* Every variable keeps its type (TypeOK): no commit writes half a row.
THEOREM TypeCorrect == Spec => []TypeOK
<1>1. IInv => TypeOK
  BY DEF IInv
<1>2. QED BY <1>1, Inductive, PTL

\* A tenant has one subscription, unless two requests have found none and each
\* inserted one: no unique constraint stops them (OneSubscription).
THEOREM OneRow == Spec => []OneSubscription
<1>1. IInv => OneSubscription
  BY AtMostOne DEF IInv, Alone, OneSubscription
<1>2. QED BY <1>1, Inductive, PTL

\* A downgrade that was withdrawn is never applied, one that was applied is never
\* withdrawn, however the job and the tenant's requests overlap (WithdrawnNeverRuns).
THEOREM WithdrawalsLast == Spec => []WithdrawnNeverRuns
<1>1. IInv => WithdrawnNeverRuns
  BY DEF IInv
<1>2. QED BY <1>1, Inductive, PTL

\* Only the end of the Stripe subscription it is linked to cancels a subscription that
\* no two handlers have held at a time, and suspends the tenant (StripeCancelsItsOwn).
THEOREM CancelledByItsOwn == Spec => []StripeCancelsItsOwn
<1>1. IInv => StripeCancelsItsOwn
  BY DEF IInv
<1>2. QED BY <1>1, Inductive, PTL

-----------------------------------------------------------------------------
(* What a step takes back *)

\* Columns are written by who has changed them (WriteSubs).
LEMMA EndingWasRead ==
    ASSUME IInv, NEW h \in Handlers, WriteSubs(h), NEW s \in Existing,
           subs[s].ending, ~subs'[s].ending
    PROVE  tx[h].old[s] # NoRow /\ tx[h].old[s].ending
<1> DEFINE old == tx[h].old[s]
           new == tx[h].new[s]
<1>1. /\ s \in SubIds /\ subs[s] \in Row /\ subs[s] # NoRow
      /\ old \in Row \cup {NoRow} /\ new \in Row \cup {NoRow} /\ (old = NoRow <=> new = NoRow)
  BY DEF IInv, TypeOK, Tx, TxShape, Shaped, Existing
<1>2. subs'[s] = Merge(subs[s], old, new)
  BY <1>1 DEF WriteSubs
<1> HIDE DEF old, new
<1>3. old # NoRow
  BY <1>2, MergeNothing
<1>4. subs'[s].ending = IF new.ending # old.ending THEN new.ending ELSE subs[s].ending
  <2>1. old \in Row /\ new \in Row
    BY <1>1, <1>3
  <2>2. Merge(subs[s], old, new).ending = IF new.ending # old.ending THEN new.ending
                                          ELSE subs[s].ending
    BY <1>1, <2>1, MergeRow, Zenon
  <2>3. QED BY <1>2, <2>2, Zenon
<1>5. old.ending \in BOOLEAN /\ new.ending \in BOOLEAN
  BY <1>1, <1>3 DEF Row
<1>6. old.ending
  BY <1>4, <1>5
<1>7. QED BY <1>3, <1>6 DEF old

\* A cancellation at the end of the period is taken back by who has read it.
LEMMA EndingIsSeen ==
    ASSUME IInv, [Next]_vars, NEW s \in Existing, subs[s].ending, ~subs'[s].ending
    PROVE  \E h \in Handlers : /\ tx[h].op # "none" /\ tx'[h].op = "none"
                               /\ tx[h].old[s] # NoRow /\ tx[h].old[s].ending
<1>1. subs'[s] # subs[s]
  OBVIOUS
<1>2. PICK h \in Handlers : WriteSubs(h) /\ End(h) /\ tx[h].op # "none"
  <2>1. ASSUME NEW h \in Handlers, Operation(h) PROVE FALSE
    <3>1. UNCHANGED subs
      BY <2>1 DEF Operation, ChangePlan, Upgrade, Downgrade, CancelAtPeriodEnd,
                  CancelDowngrade, RunChanges, Checkout, InvoicePaid, PaymentFailed,
                  SubscriptionDeleted, SubscriptionUpdated, Refund, Begin, tables
    <3>2. QED BY <1>1, <3>1
  <2>2. ASSUME NEW h \in Handlers, InsertSub(h) PROVE FALSE
    BY <1>1, <2>2 DEF InsertSub, IInv, TypeOK, Existing
  <2>3. ASSUME NEW h \in Handlers, Commit(h)
        PROVE  WriteSubs(h) /\ End(h) /\ tx[h].op # "none"
    BY <1>1, <2>2, <2>3 DEF Commit, CommitSubscription, CommitDowngrade,
       CommitCancelDowngrade, CommitRun, CommitPaid, CommitRefund
  <2>4. ASSUME NEW h \in Handlers, Abort(h) PROVE FALSE
    BY <1>1, <2>4 DEF Abort, tables
  <2>5. ASSUME NEW c \in Changes, PeriodEnds(c) PROVE FALSE
    BY <1>1, <2>5 DEF PeriodEnds
  <2>6. CASE UNCHANGED vars
    BY <1>1, <2>6 DEF vars, tables
  <2>7. QED BY <2>1, <2>3, <2>4, <2>5, <2>6 DEF Next
<1>3. tx[h].old[s] # NoRow /\ tx[h].old[s].ending
  BY <1>2, EndingWasRead
<1>4. tx'[h].op = "none"
  BY <1>2, EndStep, IdleType
<1>5. QED BY <1>2, <1>3, <1>4

\* A refund is taken back by who has read it.
LEMMA RefundIsSeen ==
    ASSUME IInv, [Next]_vars, NEW i \in Invoices, bills[i] # NoRow,
           bills[i].status = "refunded", bills'[i].status = "paid"
    PROVE  \E h \in Handlers : /\ tx[h].op # "none" /\ tx'[h].op = "none"
                               /\ tx[h].oldBill # NoRow
                               /\ tx[h].oldBill.status = "refunded"
<1>1. bills'[i] # bills[i]
  OBVIOUS
<1>2. bills \in [Invoices -> Bill \cup {NoRow}] /\ bills[i] \in Bill
  BY DEF IInv, TypeOK
<1>3. PICK h \in Handlers : CommitPaid(h) \/ CommitRefund(h)
  <2>1. ASSUME NEW h \in Handlers, Operation(h) PROVE FALSE
    <3>1. UNCHANGED bills
      BY <2>1 DEF Operation, ChangePlan, Upgrade, Downgrade, CancelAtPeriodEnd,
                  CancelDowngrade, RunChanges, Checkout, InvoicePaid, PaymentFailed,
                  SubscriptionDeleted, SubscriptionUpdated, Refund, Begin, tables
    <3>2. QED BY <1>1, <3>1
  <2>2. ASSUME NEW h \in Handlers, Commit(h) PROVE CommitPaid(h) \/ CommitRefund(h)
    BY <1>1, <2>2 DEF Commit, CommitSubscription, CommitDowngrade, CommitCancelDowngrade,
                      CommitRun
  <2>3. ASSUME NEW h \in Handlers, Abort(h) PROVE FALSE
    BY <1>1, <2>3 DEF Abort, tables
  <2>4. ASSUME NEW c \in Changes, PeriodEnds(c) PROVE FALSE
    BY <1>1, <2>4 DEF PeriodEnds
  <2>5. CASE UNCHANGED vars
    BY <1>1, <2>5 DEF vars, tables
  <2>6. QED BY <2>1, <2>2, <2>3, <2>4, <2>5 DEF Next
<1> DEFINE old == tx[h].oldBill
           new == tx[h].newBill
<1>4. /\ tx[h].op \in {"paid", "refund"} /\ End(h)
      /\ bills'[i] = Merge(bills[i], old, new)
  BY <1>1, <1>2, <1>3 DEF CommitPaid, CommitRefund
<1>5. /\ old \in Bill \cup {NoRow} /\ new \in Bill
      /\ tx[h].op = "refund" => new.status = "refunded"
  BY <1>4 DEF IInv, TypeOK, Tx, TxShape, Shaped
<1> HIDE DEF old, new
<1>6. old # NoRow
  BY <1>1, <1>4, MergeNothing
<1>7. bills'[i].status = IF new.status # old.status THEN new.status ELSE bills[i].status
  BY <1>2, <1>4, <1>5, <1>6, MergeBill
<1>8. old.status = "refunded"
  BY <1>5, <1>6, <1>7 DEF Bill
<1>9. tx'[h].op = "none"
  BY <1>4, EndStep, IdleType
<1>10. QED BY <1>4, <1>6, <1>8, <1>9 DEF old

\* A cancellation at the end of the period that came in between survives a change of
\* plan, and a refund survives a late invoice.paid, because the ORM writes the columns
\* that were changed and no others (NoBlindReset).
THEOREM ResetsAreSeen == Spec => NoBlindReset
<1>1. IInv /\ [Next]_vars => [ResetWasSeen]_vars
  BY EndingIsSeen, RefundIsSeen DEF ResetWasSeen
<1>2. QED BY <1>1, Inductive, PTL DEF Spec, NoBlindReset

=============================================================================
