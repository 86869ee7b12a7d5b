---------------------------- MODULE CashRegister ----------------------------
(***************************************************************************)
(* The cash register of one tenant on one business day, and the usage      *)
(* quota it draws on: create_sale, cancel_sale and create_day_closure      *)
(* (modules/cash_register_simple/services.py) over check_limit and         *)
(* increment_usage (core/quota.py), while Stripe events and plan changes   *)
(* move the subscription from period to period (platform/webhooks.py).     *)
(*                                                                         *)
(* Nothing is locked between the queries of a request.  increment_usage    *)
(* commits the sale together with the counter, the event of the sale and   *)
(* its audit entry are a second commit.  Each step below is one commit, or *)
(* the queries whose result is used after the next one.                    *)
(***************************************************************************)
EXTENDS Naturals

CONSTANTS
    Sellers,      \* POST /sales requests; a sale is named for its request
    Cancellers,   \* POST /sales/{id}/cancel requests
    Closers,      \* POST /closures requests
    Periods,      \* billing periods the subscription can be in
    Limit,        \* limit_value of cash_register_simple.sales.monthly
    Capped,       \* the plan has that limit and allows no overage
    MaxChanges,   \* bound: changes of the subscription
    MaxFaults,    \* bound: crashes and failed commits together
    NoPeriod,     \* the period "now, now + 30 days" nobody looks up again
    NoSale

Requests == Sellers \cup Cancellers \cup Closers

ASSUME ConstantsAssumption ==
    /\ Sellers \cap Cancellers = {}
    /\ Closers \cap (Sellers \cup Cancellers) = {}
    /\ NoPeriod \notin Periods /\ NoSale \notin Sellers
    /\ Limit \in Nat /\ Capped \in BOOLEAN
    /\ MaxChanges \in Nat /\ MaxFaults \in Nat

VARIABLES
    sub,          \* the subscription: is it active or trialing, its period
    counter,      \* usage_counters: current_value per period, 0 without a row
    sale,         \* status of each sale
    saleEvents,   \* sale_created events in the outbox
    cancelEvents, \* sale_cancelled events in the outbox, per sale
    closures,     \* committed day closures
    pc,           \* where each request is
    seen,         \* what increment_usage read: period and current_value
    target,       \* the sale a cancellation has loaded
    day,          \* the sales a closure has read
    changes,      \* changes of the subscription so far
    faults,       \* faults so far
    sold,         \* history: sales booked per period
    overlaps,     \* history: sales booked per period while another was in progress
    entered,      \* history: changes into a period under a sale that was checked
    interrupted,  \* history: sales whose request died before the event
    crossed       \* history: cancellations per sale while another was in progress

tables  == <<sub, counter, sale, saleEvents, cancelEvents, closures>>
copies  == <<seen, target, day>>
bounds  == <<changes, faults>>
history == <<sold, overlaps, entered, interrupted, crossed>>
vars    == <<tables, pc, copies, bounds, history>>

Pcs == {"new", "count", "commit", "emit",   \* create_sale
        "cancel",                           \* cancel_sale
        "close",                            \* create_day_closure
        "done", "refused", "failed"}

Init ==
    /\ sub \in [active : {TRUE}, period : Periods]
    /\ counter = [p \in Periods |-> 0]
    /\ sale = [s \in Sellers |-> "none"]
    /\ saleEvents = {}
    /\ cancelEvents = [s \in Sellers |-> 0]
    /\ closures = {}
    /\ pc = [r \in Requests |-> "new"]
    /\ seen = [s \in Sellers |-> [period |-> NoPeriod, used |-> 0]]
    /\ target = [c \in Cancellers |-> NoSale]
    /\ day = [k \in Closers |-> {}]
    /\ changes = 0
    /\ faults = 0
    /\ sold = [p \in Periods |-> 0]
    /\ overlaps = [p \in Periods |-> 0]
    /\ entered = [p \in Periods |-> 0]
    /\ interrupted = {}
    /\ crossed = [s \in Sellers |-> 0]

-----------------------------------------------------------------------------
(* Helpers *)

Goto(r, label) == pc' = [pc EXCEPT ![r] = label]

\* Sales between their check and their commit that may be booked on p, s aside.
Underway(s, p) ==
    {t \in Sellers \ {s} : pc[t] = "count" \/ (pc[t] = "commit" /\ seen[t].period = p)}

\* Mutant: the last unit is given away twice.
WithinLimitOrEqual(used) == Capped => used <= Limit

\* current_value + 1 > limit_value is refused, unless there is no limit or it
\* may be exceeded.
WithinLimit(used) == Capped => used + 1 <= Limit

-----------------------------------------------------------------------------
(* create_sale *)

\* check_limit
CheckLimit(s) ==
    /\ pc[s] = "new"
    /\ IF sub.active /\ WithinLimit(counter[sub.period])
       THEN Goto(s, "count") ELSE Goto(s, "refused")
    /\ UNCHANGED <<tables, copies, bounds, history>>

\* The sale is flushed, not committed; increment_usage reads the subscription
\* again and the counter of the period it now has.
CountUsage(s) ==
    /\ pc[s] = "count"
    /\ seen' = [seen EXCEPT ![s] =
          IF sub.active
          THEN [period |-> sub.period, used |-> counter[sub.period]]
          ELSE [period |-> NoPeriod, used |-> 0]]
    /\ Goto(s, "commit")
    /\ UNCHANGED <<tables, target, day, bounds, history>>

\* A counter that did not exist is inserted, one that did is overwritten with
\* the value read plus one.
CommitSale(s) ==
    LET p == seen[s].period
        n == seen[s].used + 1
    IN
    /\ pc[s] = "commit"
    /\ sale' = [sale EXCEPT ![s] = "completed"]
    /\ IF p = NoPeriod
       THEN UNCHANGED <<counter, sold, overlaps>>
       ELSE /\ seen[s].used = 0 => counter[p] = 0
            /\ counter' = [counter EXCEPT ![p] = n]
            /\ sold' = [sold EXCEPT ![p] = @ + 1]
            /\ overlaps' = IF Underway(s, p) = {} THEN overlaps
                           ELSE [overlaps EXCEPT ![p] = @ + 1]
    /\ Goto(s, "emit")
    /\ UNCHANGED <<sub, saleEvents, cancelEvents, closures, copies, bounds,
                   entered, interrupted, crossed>>

\* Mutant: the lost insert is repeated as an update outside the transaction.
CounterExistsRetried(s) ==
    LET p == seen[s].period IN
    /\ pc[s] = "commit"
    /\ p # NoPeriod /\ seen[s].used = 0 /\ counter[p] > 0
    /\ counter' = [counter EXCEPT ![p] = @ + 1]
    /\ Goto(s, "failed")
    /\ UNCHANGED <<sub, sale, saleEvents, cancelEvents, closures, copies, bounds,
                   history>>

\* uq_usage_counters_tenant_metric_period: another request inserted the counter
\* first; sale and counter are rolled back.
CounterExists(s) ==
    LET p == seen[s].period IN
    /\ pc[s] = "commit"
    /\ p # NoPeriod /\ seen[s].used = 0 /\ counter[p] > 0
    /\ Goto(s, "failed")
    /\ UNCHANGED <<tables, copies, bounds, history>>

\* Mutant: nothing commits after emit_event.
EmitSaleEventUncommitted(s) ==
    /\ pc[s] = "emit"
    /\ Goto(s, "done")
    /\ UNCHANGED <<tables, copies, bounds, history>>

\* emit_event, and write_audit_log, which commits.
EmitSaleEvent(s) ==
    /\ pc[s] = "emit"
    /\ saleEvents' = saleEvents \cup {s}
    /\ Goto(s, "done")
    /\ UNCHANGED <<sub, counter, sale, cancelEvents, closures, copies, bounds,
                   history>>

-----------------------------------------------------------------------------
(* cancel_sale *)

\* Mutant: a sale that is cancelled already is cancelled again.
LoadAnySale(c, s) ==
    /\ pc[c] = "new"
    /\ sale[s] # "none"
    /\ target' = [target EXCEPT ![c] = s]
    /\ Goto(c, "cancel")
    /\ UNCHANGED <<tables, seen, day, bounds, history>>

LoadSale(c, s) ==
    /\ pc[c] = "new"
    /\ sale[s] # "none"
    /\ IF sale[s] = "cancelled"
       THEN Goto(c, "done") /\ UNCHANGED target
       ELSE Goto(c, "cancel") /\ target' = [target EXCEPT ![c] = s]
    /\ UNCHANGED <<tables, seen, day, bounds, history>>

\* Mutant: the unit goes back to the quota of the current period.
CommitCancelCredited(c) ==
    LET s == target[c] IN
    /\ pc[c] = "cancel"
    /\ sale' = [sale EXCEPT ![s] = "cancelled"]
    /\ counter' = [counter EXCEPT ![sub.period] = @ - 1]
    /\ cancelEvents' = [cancelEvents EXCEPT ![s] = @ + 1]
    /\ Goto(c, "done")
    /\ UNCHANGED <<sub, saleEvents, closures, copies, bounds, history>>

\* The sale, its event and the audit entry in one commit; the status is not
\* looked at again.
CommitCancel(c) ==
    LET s == target[c] IN
    /\ pc[c] = "cancel"
    /\ sale' = [sale EXCEPT ![s] = "cancelled"]
    /\ cancelEvents' = [cancelEvents EXCEPT ![s] = @ + 1]
    /\ Goto(c, "done")
    /\ crossed' = IF \E d \in Cancellers \ {c} : pc[d] = "cancel" /\ target[d] = s
                  THEN [crossed EXCEPT ![s] = @ + 1] ELSE crossed
    /\ UNCHANGED <<sub, counter, saleEvents, closures, copies, bounds, sold,
                   overlaps, entered, interrupted>>

-----------------------------------------------------------------------------
(* create_day_closure *)

ReadDay(k) ==
    /\ pc[k] = "new"
    /\ day' = [day EXCEPT ![k] = {s \in Sellers : sale[s] = "completed"}]
    /\ Goto(k, "close")
    /\ UNCHANGED <<tables, seen, target, bounds, history>>

CommitClosure(k) ==
    /\ pc[k] = "close"
    /\ closures' = closures \cup {k}
    /\ Goto(k, "done")
    /\ UNCHANGED <<sub, counter, sale, saleEvents, cancelEvents, copies, bounds,
                   history>>

-----------------------------------------------------------------------------
(* The subscription, faults *)

\* invoice.paid, customer.subscription.updated, a plan change: active, in the
\* period of the event, which may be an earlier one.
EnterPeriod(p) ==
    /\ changes < MaxChanges
    /\ changes' = changes + 1
    /\ sub' = [active |-> TRUE, period |-> p]
    /\ entered' = IF \E s \in Sellers : pc[s] = "count"
                  THEN [entered EXCEPT ![p] = @ + 1] ELSE entered
    /\ UNCHANGED <<counter, sale, saleEvents, cancelEvents, closures, pc, copies,
                   faults, sold, overlaps, interrupted, crossed>>

\* invoice.payment_failed, customer.subscription.deleted
Lapse ==
    /\ changes < MaxChanges
    /\ changes' = changes + 1
    /\ sub' = [sub EXCEPT !.active = FALSE]
    /\ UNCHANGED <<counter, sale, saleEvents, cancelEvents, closures, pc, copies,
                   faults, history>>

\* The process dies or a commit fails: what is not committed is gone.
Fail(r) ==
    /\ pc[r] \in {"count", "commit", "emit", "cancel", "close"}
    /\ faults < MaxFaults
    /\ faults' = faults + 1
    /\ Goto(r, "failed")
    /\ interrupted' = IF pc[r] = "emit" THEN interrupted \cup {r} ELSE interrupted
    /\ UNCHANGED <<tables, copies, changes, sold, overlaps, entered, crossed>>

-----------------------------------------------------------------------------
SaleStep(s) ==
    \/ CheckLimit(s)    \/ CountUsage(s) \/ CommitSale(s)
    \/ CounterExists(s) \/ EmitSaleEvent(s)

Next ==
    \/ \E s \in Sellers : SaleStep(s)
    \/ \E c \in Cancellers : CommitCancel(c) \/ \E s \in Sellers : LoadSale(c, s)
    \/ \E k \in Closers : ReadDay(k) \/ CommitClosure(k)
    \/ \E p \in Periods : EnterPeriod(p)
    \/ Lapse
    \/ \E r \in Requests : Fail(r)

Spec == Init /\ [][Next]_vars

-----------------------------------------------------------------------------
(* Properties *)

\* Every variable keeps its type.
TypeOK ==
    /\ sub \in [active : BOOLEAN, period : Periods]
    /\ counter \in [Periods -> Nat]
    /\ sale \in [Sellers -> {"none", "completed", "cancelled"}]
    /\ saleEvents \in SUBSET Sellers
    /\ cancelEvents \in [Sellers -> Nat]
    /\ closures \in SUBSET Closers
    /\ pc \in [Requests -> Pcs]
    /\ seen \in [Sellers -> [period : Periods \cup {NoPeriod}, used : Nat]]
    /\ target \in [Cancellers -> Sellers \cup {NoSale}]
    /\ day \in [Closers -> SUBSET Sellers]
    /\ changes \in 0..MaxChanges
    /\ faults \in 0..MaxFaults
    /\ sold \in [Periods -> Nat]
    /\ overlaps \in [Periods -> Nat] /\ entered \in [Periods -> Nat]
    /\ interrupted \in SUBSET Sellers
    /\ crossed \in [Sellers -> Nat]

\* The counter of increment_usage never runs ahead of the sales, and what it loses are
\* at most the sales booked while another one was in progress, however their reads and
\* commits, colliding first inserts and rollbacks are ordered.
CounterHonest ==
    \A p \in Periods : counter[p] <= sold[p] /\ sold[p] <= counter[p] + overlaps[p]

\* How far "no more than the limit" is from the truth: whatever check_limit let through
\* is exceeded by one sale at most for each sale booked while another was in progress,
\* and for each time the subscription came into the period under a sale checked elsewhere.
QuotaRespected ==
    Capped => \A p \in Periods : sold[p] <= Limit + overlaps[p] + entered[p]

\* A sale_created event tells of a committed sale, and a committed sale has its
\* event unless its request died between the two commits of create_sale.
SalesReported ==
    \A s \in Sellers :
        /\ s \in saleEvents => sale[s] # "none"
        /\ sale[s] # "none" /\ pc[s] # "emit" /\ s \notin interrupted =>
              s \in saleEvents

\* A cancellation is reported once, whoever repeats it, and once more at most for each
\* request that cancelled while another one was about to; a sale that stands is never
\* reported.
CancellationReportedOnce ==
    \A s \in Sellers :
        /\ cancelEvents[s] > 0 <=> sale[s] = "cancelled"
        /\ cancelEvents[s] <= 1 + crossed[s]

\* What the code does not give.  "Emit transactional outbox event": the event is
\* in the database whenever the sale is.
SaleEventTransactional ==
    \A s \in Sellers : sale[s] # "none" /\ pc[s] # "emit" => s \in saleEvents

\* What the code does not give.  "test_cancelled_sale_does_not_count_in_day_closure": a
\* closure that is committed counts no sale that is cancelled by then.
CancelledNotCounted ==
    [][\A k \in closures' \ closures : \A s \in day[k] : sale[s] # "cancelled"]_vars

-----------------------------------------------------------------------------
(* The inductive invariant behind the safety properties *)

\* Each kind of request stays in its own service function.
Roles ==
    /\ \A s \in Sellers : pc[s] \notin {"cancel", "close"}
    /\ \A c \in Cancellers : pc[c] \in {"new", "cancel", "done", "failed"}
    /\ \A k \in Closers : pc[k] \in {"new", "close", "done", "failed"}

\* A sale is in the table when its request has committed it.
SaleShape ==
    \A s \in Sellers :
        /\ pc[s] \in {"new", "count", "commit", "refused"} => sale[s] = "none"
        /\ pc[s] \in {"emit", "done"} => sale[s] # "none"

\* A cancellation works on a committed sale; what was reported of it before was reported
\* under this cancellation.
CancelShape ==
    \A c \in Cancellers :
        pc[c] = "cancel" => /\ target[c] \in Sellers
                            /\ sale[target[c]] # "none"
                            /\ cancelEvents[target[c]] <= crossed[target[c]]

\* There is room for one sale more in p, or the quota is exceeded as QuotaRespected says.
HasRoom(p) == Capped => sold[p] < Limit + overlaps[p] + entered[p]

\* A sale that passed the check has room, in the period the subscription has until it
\* counts, then in the one it read.  What it read is the counter but for overlaps.
CopyIsFresh ==
    \A s \in Sellers :
        /\ pc[s] = "count" => HasRoom(sub.period)
        /\ pc[s] = "commit" /\ seen[s].period # NoPeriod =>
              LET p == seen[s].period IN
              /\ seen[s].used <= sold[p] /\ sold[p] <= seen[s].used + overlaps[p]
              /\ HasRoom(p)

\* Together they are inductive.
IInv ==
    /\ TypeOK
    /\ Roles
    /\ SaleShape
    /\ CancelShape
    /\ CopyIsFresh
    /\ CounterHonest
    /\ QuotaRespected
    /\ SalesReported
    /\ CancellationReportedOnce
=============================================================================
