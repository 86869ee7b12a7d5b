------------------------------- MODULE Billing -------------------------------
(***************************************************************************)
(* The subscription of one tenant, its scheduled changes, and the invoices *)
(* Stripe bills it for: tenant_app/billing.py, platform/webhooks.py,       *)
(* platform/payments.py and process_scheduled_subscription_changes of      *)
(* jobs/cleanup.py.                                                        *)
(*                                                                         *)
(* Every operation reads its rows, computes, and commits once; nothing is  *)
(* locked in between, except rows it has deleted.  The ORM writes the      *)
(* columns whose value differs from the one that was read, no others.      *)
(* Stripe delivers an event at least once and in any order.                *)
(***************************************************************************)
EXTENDS Integers, FiniteSets

CONSTANTS
    Handlers,     \* requests, deliveries and job runs in progress at a time
    SubIds,       \* rows of subscriptions
    Plans,        \* the plans for sale, all with a price for every billing cycle
    StripeSubs,   \* ids of Stripe subscriptions
    Changes,      \* rows of subscription_scheduled_changes
    Invoices,     \* ids of Stripe invoices
    Total,        \* what an invoice is about
    MaxOps,       \* bound: operations that are begun
    NoRow, NoStripe, NoPlan, NoInvoice

Statuses == {"active", "past_due", "cancelled"}

Row == [plan : Plans, status : Statuses, ending : BOOLEAN,
        stripe : StripeSubs \cup {NoStripe}]

Bill == [status : {"paid", "refunded"}, paid : 0..Total]

Change == [state : {"none", "pending", "executed", "deleted"},
           sub : SubIds \cup {NoRow}, plan : Plans \cup {NoPlan}, due : BOOLEAN]

NoChange == [state |-> "none", sub |-> NoRow, plan |-> NoPlan, due |-> FALSE]

ASSUME ConstantsAssumption ==
    /\ NoStripe \notin StripeSubs /\ NoPlan \notin Plans
    /\ NoInvoice \notin Invoices
    /\ NoRow \notin SubIds \cup Row \cup Bill
    /\ Total \in Nat \ {0} /\ MaxOps \in Nat

VARIABLES
    subs,        \* the tenant's rows of subscriptions
    tenant,      \* the tenant's status
    changes,     \* scheduled changes
    bills,       \* billing_invoices of Stripe invoices
    payments,    \* number of billing_payments of each invoice
    tx,          \* what each handler has read and will commit
    ops,         \* operations begun so far
    doubled,     \* history: two first subscriptions were created at a time
    raced,       \* history: rows committed while another handler held a copy
    ended,       \* history: Stripe subscriptions reported as deleted
    ran          \* history: scheduled changes that were applied

tables  == <<subs, tenant, changes, bills, payments>>
history == <<doubled, raced, ended, ran>>
vars    == <<tables, tx, ops, history>>

\* What a handler holds: the rows it has read and will write, a row to insert, what
\* becomes of the tenant, the changes it deletes or applies.
Tx == [op : {"none", "change", "cancel", "upgrade", "downgrade", "withdraw", "checkout", "paid",
             "failed", "updated", "deleted", "refund", "run"},
       old : [SubIds -> Row \cup {NoRow}], new : [SubIds -> Row \cup {NoRow}],
       insert : Row \cup {NoRow}, tenant : {"keep", "active", "suspended"},
       stripe : StripeSubs \cup {NoStripe}, takes : SUBSET Changes,
       sub : SubIds \cup {NoRow}, plan : Plans \cup {NoPlan},
       invoice : Invoices \cup {NoInvoice}, oldBill : Bill \cup {NoRow},
       newBill : Bill \cup {NoRow}]

\* A handler between two operations.
Idle == [op |-> "none", old |-> [s \in SubIds |-> NoRow],
         new |-> [s \in SubIds |-> NoRow], insert |-> NoRow, tenant |-> "keep",
         stripe |-> NoStripe, takes |-> {}, sub |-> NoRow, plan |-> NoPlan,
         invoice |-> NoInvoice, oldBill |-> NoRow, newBill |-> NoRow]

Init ==
    /\ subs = [s \in SubIds |-> NoRow]
    /\ tenant = "trial"
    /\ changes = [c \in Changes |-> NoChange]
    /\ bills = [i \in Invoices |-> NoRow]
    /\ payments = [i \in Invoices |-> 0]
    /\ tx = [h \in Handlers |-> Idle]
    /\ ops = 0
    /\ doubled = FALSE
    /\ raced = {}
    /\ ended = {}
    /\ ran = {}

-----------------------------------------------------------------------------
(* Helpers *)

Existing == {s \in SubIds : subs[s] # NoRow}

Linked(e) == {s \in Existing : subs[s].stripe = e}

Pending(s) == {c \in Changes : changes[c].state = "pending" /\ changes[c].sub = s}

\* Rows deleted by a transaction that has not ended.
Locked == UNION {IF tx[h].op \in {"downgrade", "withdraw"} THEN tx[h].takes ELSE {} :
                    h \in Handlers}

\* The rows in S as a handler holds them; those it edits are in new.
Read(S) == [s \in SubIds |-> IF s \in S THEN subs[s] ELSE NoRow]

Edit(op, s, row) ==
    [Idle EXCEPT !.op = op, !.old = Read({s}), !.new = [Read({s}) EXCEPT ![s] = row]]

Insert(op, row) == [Idle EXCEPT !.op = op, !.insert = row]

\* tenant.status = value: not written if that is what was read.
SetTenant(value) == IF tenant = value THEN "keep" ELSE value

\* A handler begins an operation: it reads, and knows what it will commit.
Begin(h, t) ==
    /\ tx[h].op = "none"
    /\ ops < MaxOps
    /\ ops' = ops + 1
    /\ tx' = [tx EXCEPT ![h] = t]
    /\ UNCHANGED <<tables, history>>

End(h) == tx' = [tx EXCEPT ![h] = Idle]

\* Mutant: the row is written back as it was read, not only what was changed.
MergeAll(row, old, new) == IF old = NoRow \/ row = NoRow THEN row ELSE new

\* UPDATE with the columns that were changed.
Merge(row, old, new) ==
    IF old = NoRow \/ row = NoRow THEN row
    ELSE [c \in DOMAIN row |-> IF new[c] # old[c] THEN new[c] ELSE row[c]]

\* What h commits to subscriptions and to the tenant.
WriteSubs(h) ==
    /\ subs' = [s \in SubIds |-> Merge(subs[s], tx[h].old[s], tx[h].new[s])]
    /\ raced' = raced \cup {s \in SubIds : /\ tx[h].old[s] # NoRow
                                           /\ \E k \in Handlers \ {h} : tx[k].old[s] # NoRow}
    /\ UNCHANGED doubled

InsertSub(h) ==
    /\ \E s \in SubIds \ Existing : subs' = [subs EXCEPT ![s] = tx[h].insert]
    /\ doubled' = (doubled \/ \E k \in Handlers \ {h} : tx[k].insert # NoRow)
    /\ UNCHANGED raced

-----------------------------------------------------------------------------
(* The tenant's own operations *)

\* Mutant: only an active subscription is looked up, as check_limit does.
ChangePlanOfActive(h, p) ==
    \/ \E s \in Existing :
          /\ subs[s].status = "active"
          /\ Begin(h, Edit("change", s, [subs[s] EXCEPT !.plan = p]))
    \/ /\ \A s \in Existing : subs[s].status # "active"
       /\ Begin(h, Insert("change", [plan |-> p, status |-> "active",
                                     ending |-> FALSE, stripe |-> NoStripe]))

ChangePlan(h, p) ==
    \/ \E s \in Existing :
          Begin(h, Edit("change", s, [subs[s] EXCEPT !.plan = p, !.status = "active"]))
    \/ /\ Existing = {}
       /\ Begin(h, Insert("change", [plan |-> p, status |-> "active",
                                     ending |-> FALSE, stripe |-> NoStripe]))

CancelAtPeriodEnd(h) ==
    \E s \in Existing : Begin(h, Edit("cancel", s, [subs[s] EXCEPT !.ending = TRUE]))

\* The billing cycle is left out: the present plan may be asked for in the other
\* cycle.  Scheduled changes stay as they are.
Upgrade(h, p) ==
    \E s \in Existing :
        Begin(h, Edit("upgrade", s, [subs[s] EXCEPT !.plan = p, !.status = "active",
                                                    !.ending = FALSE]))

\* Pending changes are deleted at once, the new one is inserted.
Downgrade(h, p) ==
    \E s \in Existing :
        /\ Pending(s) \cap Locked = {}
        /\ Begin(h, [Idle EXCEPT !.op = "downgrade", !.sub = s, !.plan = p,
                                 !.takes = Pending(s)])

CancelDowngrade(h) ==
    \E s \in Existing :
        /\ Pending(s) # {}
        /\ Pending(s) \cap Locked = {}
        /\ Begin(h, [Idle EXCEPT !.op = "withdraw", !.takes = Pending(s)])

-----------------------------------------------------------------------------
(* Stripe events.  An event of a subscription that no row is linked to is   *)
(* acknowledged and dropped.                                                *)

\* checkout.session.completed
Checkout(h, e, p) ==
    \/ \E s \in Existing :
          Begin(h, [Edit("checkout", s, [subs[s] EXCEPT !.plan = p, !.status = "active",
                                                        !.stripe = e])
                    EXCEPT !.tenant = SetTenant("active")])
    \/ /\ Existing = {}
       /\ Begin(h, [Insert("checkout", [plan |-> p, status |-> "active",
                                        ending |-> FALSE, stripe |-> e])
                    EXCEPT !.tenant = SetTenant("active")])

\* invoice.paid
InvoicePaid(h, e, i) ==
    \E s \in Linked(e) :
        Begin(h, [Edit("paid", s, [subs[s] EXCEPT !.status = "active"])
                  EXCEPT !.invoice = i, !.oldBill = bills[i],
                         !.newBill = [status |-> "paid", paid |-> Total]])

\* invoice.payment_failed
PaymentFailed(h, e) ==
    \E s \in Linked(e) :
        Begin(h, Edit("failed", s, [subs[s] EXCEPT !.status = "past_due"]))

\* customer.subscription.updated
SubscriptionUpdated(h, e, status, ending, p) ==
    \E s \in Linked(e) :
        Begin(h, Edit("updated", s, [subs[s] EXCEPT !.status = status, !.ending = ending,
                                                    !.plan = p]))

\* Mutant: the subscription is looked up by tenant.
SubscriptionDeletedOfTenant(h, e) ==
    \E s \in Existing :
        Begin(h, [Edit("deleted", s, [subs[s] EXCEPT !.status = "cancelled"])
                  EXCEPT !.tenant = SetTenant("suspended"), !.stripe = e])

\* customer.subscription.deleted
SubscriptionDeleted(h, e) ==
    \E s \in Linked(e) :
        Begin(h, [Edit("deleted", s, [subs[s] EXCEPT !.status = "cancelled"])
                  EXCEPT !.tenant = SetTenant("suspended"), !.stripe = e])

-----------------------------------------------------------------------------
(* Refunds, scheduled changes *)

\* Mutant: amount_paid is not held at zero.
RefundUnclamped(h, i, amount) ==
    /\ payments[i] > 0
    /\ Begin(h, [Idle EXCEPT !.op = "refund", !.invoice = i, !.oldBill = bills[i],
                    !.newBill = [status |-> "refunded",
                                 paid |-> bills[i].paid - amount]])

\* refund_payment: a payment may be refunded again.
Refund(h, i, amount) ==
    /\ payments[i] > 0
    /\ Begin(h, [Idle EXCEPT !.op = "refund", !.invoice = i, !.oldBill = bills[i],
                    !.newBill = [status |-> "refunded",
                                 paid |-> IF amount > bills[i].paid THEN 0
                                          ELSE bills[i].paid - amount]])

\* process_scheduled_subscription_changes reads what is due.
RunChanges(h) ==
    LET due == {c \in Changes : changes[c].state = "pending" /\ changes[c].due}
        S   == {changes[c].sub : c \in due}
    IN
    /\ due # {}
    /\ \E last \in [S -> due] :
          /\ \A s \in S : changes[last[s]].sub = s
          /\ Begin(h, [Idle EXCEPT !.op = "run", !.takes = due, !.old = Read(S),
                  !.new = [s \in SubIds |->
                     IF s \in S
                     THEN [subs[s] EXCEPT !.plan = changes[last[s]].plan, !.ending = FALSE]
                     ELSE NoRow]])

-----------------------------------------------------------------------------
(* Commits *)

\* The operations that write subscriptions, and perhaps the tenant.
CommitSubscription(h) ==
    /\ tx[h].op \in {"change", "cancel", "upgrade", "checkout", "failed", "updated",
                     "deleted"}
    /\ IF tx[h].insert = NoRow THEN WriteSubs(h) ELSE InsertSub(h)
    /\ tenant' = IF tx[h].tenant = "keep" THEN tenant ELSE tx[h].tenant
    /\ ended' = ended \cup ({tx[h].stripe} \ {NoStripe})
    /\ End(h)
    /\ UNCHANGED <<changes, bills, payments, ops, ran>>

CommitDowngrade(h) ==
    /\ tx[h].op = "downgrade"
    /\ \E c \in Changes :
          /\ changes[c].state = "none"
          /\ changes' = [d \in Changes |->
                IF d \in tx[h].takes THEN [changes[d] EXCEPT !.state = "deleted"]
                ELSE IF d = c THEN [state |-> "pending", sub |-> tx[h].sub,
                                    plan |-> tx[h].plan, due |-> FALSE]
                ELSE changes[d]]
    /\ End(h)
    /\ UNCHANGED <<subs, tenant, bills, payments, ops, history>>

CommitCancelDowngrade(h) ==
    /\ tx[h].op = "withdraw"
    /\ changes' = [d \in Changes |->
          IF d \in tx[h].takes THEN [changes[d] EXCEPT !.state = "deleted"] ELSE changes[d]]
    /\ End(h)
    /\ UNCHANGED <<subs, tenant, bills, payments, ops, history>>

\* Mutant: is_executed is set by a bulk update, which does not miss a row.
CommitRunUnchecked(h) ==
    /\ tx[h].op = "run"
    /\ tx[h].takes \cap Locked = {}
    /\ WriteSubs(h)
    /\ changes' = [d \in Changes |->
          IF d \in tx[h].takes /\ changes[d].state = "pending"
          THEN [changes[d] EXCEPT !.state = "executed"] ELSE changes[d]]
    /\ ran' = ran \cup tx[h].takes
    /\ End(h)
    /\ UNCHANGED <<tenant, bills, payments, ops, ended>>

CommitRun(h) ==
    /\ tx[h].op = "run"
    /\ tx[h].takes \cap Locked = {}
    /\ \A c \in tx[h].takes : changes[c].state # "deleted"
    /\ WriteSubs(h)
    /\ changes' = [d \in Changes |->
          IF d \in tx[h].takes THEN [changes[d] EXCEPT !.state = "executed"] ELSE changes[d]]
    /\ ran' = ran \cup tx[h].takes
    /\ End(h)
    /\ UNCHANGED <<tenant, bills, payments, ops, ended>>

\* The invoice is inserted or updated, a payment is added to it.
CommitPaid(h) ==
    LET i == tx[h].invoice IN
    /\ tx[h].op = "paid"
    /\ tx[h].oldBill = NoRow => bills[i] = NoRow
    /\ WriteSubs(h)
    /\ bills' = [bills EXCEPT ![i] = IF @ = NoRow THEN tx[h].newBill
                                     ELSE Merge(@, tx[h].oldBill, tx[h].newBill)]
    /\ payments' = [payments EXCEPT ![i] = @ + 1]
    /\ End(h)
    /\ UNCHANGED <<tenant, changes, ops, ended, ran>>

CommitRefund(h) ==
    LET i == tx[h].invoice IN
    /\ tx[h].op = "refund"
    /\ bills' = [bills EXCEPT ![i] = Merge(@, tx[h].oldBill, tx[h].newBill)]
    /\ End(h)
    /\ UNCHANGED <<subs, tenant, changes, payments, ops, history>>

\* A deleted change cannot be updated, an invoice cannot be inserted twice, a
\* commit fails or the process dies: what was read is forgotten.
Abort(h) ==
    /\ tx[h].op # "none"
    /\ End(h)
    /\ UNCHANGED <<tables, ops, history>>

\* The period at whose end a change is to be applied is over.
PeriodEnds(c) ==
    /\ changes[c].state = "pending" /\ ~changes[c].due
    /\ changes' = [changes EXCEPT ![c].due = TRUE]
    /\ UNCHANGED <<subs, tenant, bills, payments, tx, ops, history>>

-----------------------------------------------------------------------------
Operation(h) ==
    \/ \E p \in Plans : ChangePlan(h, p) \/ Upgrade(h, p) \/ Downgrade(h, p)
    \/ CancelAtPeriodEnd(h) \/ CancelDowngrade(h) \/ RunChanges(h)
    \/ \E e \in StripeSubs :
          \/ \E p \in Plans : Checkout(h, e, p)
          \/ \E i \in Invoices : InvoicePaid(h, e, i)
          \/ PaymentFailed(h, e) \/ SubscriptionDeleted(h, e)
          \/ \E status \in {"active", "past_due"}, ending \in BOOLEAN, p \in Plans :
                SubscriptionUpdated(h, e, status, ending, p)
    \/ \E i \in Invoices, amount \in 1..Total : Refund(h, i, amount)

Commit(h) ==
    \/ CommitSubscription(h) \/ CommitDowngrade(h) \/ CommitCancelDowngrade(h)
    \/ CommitRun(h) \/ CommitPaid(h) \/ CommitRefund(h)

Next ==
    \/ \E h \in Handlers : Operation(h) \/ Commit(h) \/ Abort(h)
    \/ \E c \in Changes : PeriodEnds(c)

Spec == Init /\ [][Next]_vars

-----------------------------------------------------------------------------
(* Properties *)

\* Every variable keeps its type.
TypeOK ==
    /\ subs \in [SubIds -> Row \cup {NoRow}]
    /\ tenant \in {"trial", "active", "suspended"}
    /\ changes \in [Changes -> Change]
    /\ bills \in [Invoices -> Bill \cup {NoRow}]
    /\ payments \in [Invoices -> Nat]
    /\ tx \in [Handlers -> Tx]
    /\ ops \in 0..MaxOps
    /\ doubled \in BOOLEAN
    /\ raced \subseteq SubIds
    /\ ended \subseteq StripeSubs
    /\ ran \subseteq Changes

\* get_subscription, cancel and the others take the first row they find: a tenant
\* has one, unless its first two were created at the same time.
OneSubscription == ~doubled => Cardinality(Existing) <= 1

\* A downgrade that cancel-downgrade or a later downgrade has withdrawn is never
\* applied, and one that was applied cannot be withdrawn, however they overlap.
WithdrawnNeverRuns == \A c \in ran : changes[c].state = "executed"

\* A subscription is cancelled by the end of the Stripe subscription it is linked
\* to, never by the end of one it has replaced, unless operations overlapped.
StripeCancelsItsOwn ==
    /\ \A s \in Existing \ raced : subs[s].status = "cancelled" => subs[s].stripe \in ended
    /\ tenant = "suspended" => ended # {}

\* A step that takes back a cancellation at the end of the period, or a refund, is the
\* commit of an operation that had read it.
ResetWasSeen ==
    /\ \A s \in Existing : subs[s].ending /\ ~subs'[s].ending =>
          \E h \in Handlers : /\ tx[h].op # "none" /\ tx'[h].op = "none"
                              /\ tx[h].old[s] # NoRow /\ tx[h].old[s].ending
    /\ \A i \in Invoices :
          bills[i] # NoRow /\ bills[i].status = "refunded" /\ bills'[i].status = "paid" =>
             \E h \in Handlers : /\ tx[h].op # "none" /\ tx'[h].op = "none"
                                 /\ tx[h].oldBill # NoRow
                                 /\ tx[h].oldBill.status = "refunded"

\* Neither is taken back by an operation that had not seen it.
NoBlindReset == [][ResetWasSeen]_vars

\* What the code does not give.  "Déduplication par signature / ID unique": a Stripe
\* invoice is paid once, however often invoice.paid is delivered.
PaidOnce == \A i \in Invoices : payments[i] <= 1

-----------------------------------------------------------------------------
(* The inductive invariant behind these properties *)

\* What a handler holds in each operation; only the end of a Stripe subscription
\* cancels a row, and suspends the tenant.
Shaped(t) ==
    /\ \A s \in SubIds : t.old[s] = NoRow <=> t.new[s] = NoRow
    /\ \A s \in SubIds : t.new[s] # NoRow /\ t.new[s].status = "cancelled" =>
          \/ t.op = "deleted" /\ t.stripe \in StripeSubs /\ t.new[s].stripe = t.stripe
          \/ t.old[s].status = "cancelled" /\ t.old[s].stripe = t.new[s].stripe
    /\ t.insert # NoRow => t.insert.status # "cancelled"
    /\ t.tenant = "suspended" => t.op = "deleted" /\ t.stripe \in StripeSubs
    /\ t.op = "downgrade" => t.sub \in SubIds /\ t.plan \in Plans
    /\ t.op = "paid" => t.invoice \in Invoices /\ t.newBill \in Bill
    /\ t.op = "refund" =>
          /\ t.invoice \in Invoices /\ t.oldBill \in Bill /\ t.newBill \in Bill
          /\ t.newBill.status = "refunded"

TxShape == \A h \in Handlers : Shaped(tx[h])

\* What refers to a subscription, a pending change or one to be inserted, or to an
\* invoice that was paid, refers to a row that exists.
ReferencesExist ==
    /\ \A c \in Changes : changes[c].state = "pending" =>
          changes[c].sub \in Existing /\ changes[c].plan \in Plans
    /\ \A h \in Handlers : tx[h].op = "downgrade" => tx[h].sub \in Existing
    /\ \A i \in Invoices : payments[i] > 0 => bills[i] # NoRow

\* OneSubscription without counting, and the first one is inserted where there is none.
Alone ==
    ~doubled => /\ \A s, u \in Existing : s = u
                /\ \A h \in Handlers : tx[h].insert # NoRow => Existing = {}

\* Changes that a request has deleted and not committed are pending for the others,
\* and nobody else has deleted them.
Withdraws(h) == tx[h].op \in {"downgrade", "withdraw"}

TakesAreHeld ==
    \A h \in Handlers : Withdraws(h) =>
        /\ \A c \in tx[h].takes : changes[c].state = "pending"
        /\ \A k \in Handlers \ {h} : Withdraws(k) => tx[h].takes \cap tx[k].takes = {}

\* A subscription that was read is there, and is as it was read unless it is raced.
CopyIsFresh ==
    \A h \in Handlers, s \in SubIds : tx[h].old[s] # NoRow =>
        subs[s] # NoRow /\ (subs[s] = tx[h].old[s] \/ s \in raced)

\* Together with the properties they are inductive.
IInv ==
    /\ TypeOK
    /\ TxShape
    /\ ReferencesExist
    /\ Alone
    /\ TakesAreHeld /\ WithdrawnNeverRuns
    /\ CopyIsFresh /\ StripeCancelsItsOwn
=============================================================================
