---------------------------- MODULE OutboxWorker ----------------------------
(***************************************************************************)
(* The outbox worker: several `process-outbox` processes share the tables  *)
(* outbox_events and webhook_deliveries (jobs/outbox_worker.py,            *)
(* core/webhook_dispatcher.py), while the API emits events, edits webhook  *)
(* subscriptions and sends test pings from background tasks                *)
(* (tenant_app/webhooks.py).                                               *)
(*                                                                         *)
(* A row is claimed by writing status "processing" and a fresh updated_at  *)
(* in one transaction; the claim is a lease of ten minutes that nobody     *)
(* renews.  Each step below is one committed transaction (or one external  *)
(* call), so everything another process can do between two commits is      *)
(* explored.  A session keeps the copy of the row it loaded and an UPDATE  *)
(* writes only the columns whose new value differs from that copy.         *)
(*                                                                         *)
(* Time is abstracted: `aged` holds the rows whose updated_at is older     *)
(* than the lease, and next_retry_at is "null", "later" or "due".          *)
(***************************************************************************)
EXTENDS Naturals, FiniteSets

CONSTANTS
    Events,        \* rows outbox_events may hold
    Deliveries,    \* rows webhook_deliveries may hold
    Subs,          \* webhook subscriptions of the tenant
    SubOf,         \* [Deliveries -> Subs], webhook_subscription_id
    Listens,       \* [Events -> SUBSET Subs], event_key in sub.events or "*"
    Workers,       \* outbox worker processes
    Tasks,         \* background tasks of API processes
    TaskSessions,  \* subset of {"open", "closed"}: session of such a task
    MaxAttempts,   \* --max-attempts
    PingAttempts,  \* default max_attempts of dispatch_webhook_delivery
    BatchSize,     \* --batch-size
    MaxFaults,     \* bound: crashes, stops and failed commits together
    MaxOverruns,   \* bound: leases that end while their holder still works
    NoItem         \* "no row in hand"

Items  == Events \cup Deliveries
Actors == Workers \cup Tasks

ASSUME ConstantsAssumption ==
    /\ Events \cap Deliveries = {}
    /\ Workers \cap Tasks = {}
    /\ NoItem \notin Items
    /\ SubOf \in [Deliveries -> Subs]
    /\ Listens \in [Events -> SUBSET Subs]
    /\ TaskSessions \subseteq {"open", "closed"}
    /\ MaxAttempts \in Nat \ {0} /\ PingAttempts \in Nat \ {0}
    /\ BatchSize \in Nat \ {0}
    /\ MaxFaults \in Nat
    /\ MaxOverruns \in Nat

VARIABLES
    rows,       \* the two tables: [Items -> Row]
    aged,       \* rows with updated_at <= now - 10 minutes
    subs,       \* status of each subscription
    pc,         \* where each actor is
    running,    \* self.running of each worker
    todo,       \* event_ids and delivery_ids not yet taken up
    cur,        \* the row in hand
    copy,       \* the loaded copy of the row in hand
    faults,     \* faults so far
    overruns,   \* overrun leases so far
    contended,  \* history: rows whose claim stopped being exclusive
    repeats,    \* history: per row, events after which work may be repeated
    done        \* history: handler runs committed / 2xx answers received

tables  == <<rows, aged, subs>>
actors  == <<pc, running, todo, cur, copy>>
bounds  == <<faults, overruns>>
history == <<contended, repeats, done>>
vars    == <<tables, actors, bounds, history>>

Statuses == {"absent", "pending", "processing", "processed", "delivered",
             "failed", "deleted"}
Row      == [status : Statuses, attempts : Nat, retry : {"null", "later", "due"}]
Absent   == [status |-> "absent", attempts |-> 0, retry |-> "null"]
NewRow(status, retry) == [status |-> status, attempts |-> 0, retry |-> retry]

Pcs == {"off", "poll", "work",                \* run()
        "bump", "run", "mark", "giveup",      \* _process_single_event
        "check", "send", "ok",                \* dispatch_webhook_delivery
        "closed"}                             \* a task whose session is closed

Init ==
    /\ rows = [i \in Items |-> Absent]
    /\ aged = {}
    /\ subs = [s \in Subs |-> "active"]
    /\ pc = [a \in Actors |-> "off"]
    /\ running = [w \in Workers |-> FALSE]
    /\ todo = [a \in Actors |-> {}]
    /\ cur = [a \in Actors |-> NoItem]
    /\ copy = [a \in Actors |-> Absent]
    /\ faults = 0
    /\ overruns = 0
    /\ contended = {}
    /\ repeats = [i \in Items |-> 0]
    /\ done = [i \in Items |-> 0]

-----------------------------------------------------------------------------
(* Helpers *)

Held(a)    == todo[a] \cup ({cur[a]} \ {NoItem})
Holders(i) == {a \in Actors : i \in Held(a)}

\* A column of an UPDATE: written only when it differs from the loaded copy.
Column(loaded, stored, new) == IF loaded = new THEN stored ELSE new

\* Commit of row i by its session; a row deleted meanwhile is not resurrected.
Store(i, row) ==
    IF rows[i].status = "deleted"
    THEN UNCHANGED <<rows, aged>>
    ELSE /\ rows' = [rows EXCEPT ![i] = row]
         /\ aged' = aged \ {i}

\* The actor is through with the row in hand.
Finish(a) ==
    /\ cur' = [cur EXCEPT ![a] = NoItem]
    /\ copy' = [copy EXCEPT ![a] = Absent]
    /\ pc' = [pc EXCEPT ![a] = IF a \in Tasks THEN "off"
                               ELSE IF todo[a] = {} THEN "poll" ELSE "work"]
    /\ UNCHANGED <<running, todo>>

Goto(a, label, loaded) ==
    /\ pc' = [pc EXCEPT ![a] = label]
    /\ copy' = [copy EXCEPT ![a] = loaded]
    /\ UNCHANGED <<running, todo, cur>>

TakeUp(w, i, label) ==
    /\ cur' = [cur EXCEPT ![w] = i]
    /\ copy' = [copy EXCEPT ![w] = rows[i]]
    /\ todo' = [todo EXCEPT ![w] = @ \ {i}]
    /\ pc' = [pc EXCEPT ![w] = label]
    /\ UNCHANGED running

\* Mutant: processing rows are selected whatever their age.
ClaimableAtOnce(i) ==
    \/ rows[i].status \in {"pending", "processing"}
    \/ rows[i].status = "failed" /\ rows[i].attempts < MaxAttempts /\ rows[i].retry = "due"

\* Mutant: stalled rows are never selected again.
ClaimableNeverStale(i) ==
    \/ rows[i].status = "pending"
    \/ rows[i].status = "failed" /\ rows[i].attempts < MaxAttempts /\ rows[i].retry = "due"

Claimable(i) ==
    \/ rows[i].status = "pending"
    \/ /\ rows[i].status = "failed"
       /\ rows[i].attempts < MaxAttempts
       /\ rows[i].retry = "due"
    \/ /\ rows[i].status = "processing"
       /\ i \in aged

\* SELECT ... FOR UPDATE SKIP LOCKED LIMIT batch_size, in no given order.
Batches(S) ==
    LET ready == {i \in S : Claimable(i)} IN
    {B \in SUBSET ready : \/ B = ready /\ Cardinality(B) <= BatchSize
                          \/ Cardinality(B) = BatchSize}

-----------------------------------------------------------------------------
(* The API side: emit_event, subscriptions, the test ping *)

\* The transaction that emitted the event commits.
EmitEvent(e) ==
    /\ rows[e].status = "absent"
    /\ rows' = [rows EXCEPT ![e] = NewRow("pending", "due")]
    /\ UNCHANGED <<aged, subs, actors, bounds, history>>

UpdateSubscription(s) ==
    /\ subs[s] # "deleted"
    /\ subs' = [subs EXCEPT ![s] = IF @ = "active" THEN "inactive" ELSE "active"]
    /\ UNCHANGED <<rows, aged, actors, bounds, history>>

\* The deliveries go with their subscription (ON DELETE CASCADE).
DeleteSubscription(s) ==
    LET gone == {d \in Deliveries : SubOf[d] = s /\ rows[d].status # "absent"} IN
    /\ subs[s] # "deleted"
    /\ subs' = [subs EXCEPT ![s] = "deleted"]
    /\ rows' = [i \in Items |-> IF i \in gone THEN [Absent EXCEPT !.status = "deleted"]
                                ELSE rows[i]]
    /\ aged' = aged \ gone
    /\ UNCHANGED <<actors, bounds, history>>

\* Mutant: the ping is stored as "pending".
TestSubscriptionPending(t, d) ==
    /\ pc[t] = "off"
    /\ rows[d].status = "absent"
    /\ subs[SubOf[d]] # "deleted"
    /\ rows' = [rows EXCEPT ![d] = NewRow("pending", "null")]
    /\ cur' = [cur EXCEPT ![t] = d]
    /\ copy' = [copy EXCEPT ![t] = NewRow("pending", "null")]
    /\ pc' = [pc EXCEPT ![t] = "check"]
    /\ UNCHANGED <<aged, subs, running, todo, bounds, history>>

\* The ping is stored as "processing" and dispatched by a background task.
\* Whether the request's session is still open then depends on the FastAPI
\* release (pyproject.toml allows both); with a closed session the delivery
\* is detached and nothing the task does to it reaches the table.
TestSubscription(t, d) ==
    /\ pc[t] = "off"
    /\ rows[d].status = "absent"
    /\ subs[SubOf[d]] # "deleted"
    /\ rows' = [rows EXCEPT ![d] = NewRow("processing", "null")]
    /\ cur' = [cur EXCEPT ![t] = d]
    /\ copy' = [copy EXCEPT ![t] = NewRow("processing", "null")]
    /\ \E session \in TaskSessions :
          pc' = [pc EXCEPT ![t] = IF session = "open" THEN "check" ELSE "closed"]
    /\ UNCHANGED <<aged, subs, running, todo, bounds, history>>

\* dispatch_webhook_delivery on a detached delivery: only the POST happens.
DetachedDispatch(t) ==
    /\ pc[t] = "closed"
    /\ \E answered \in (IF subs[SubOf[cur[t]]] = "active" THEN {0, 1} ELSE {0}) :
          done' = [done EXCEPT ![cur[t]] = @ + answered]
    /\ Finish(t)
    /\ UNCHANGED <<tables, bounds, contended, repeats>>

-----------------------------------------------------------------------------
(* OutboxWorker.run *)

Start(w) ==
    /\ pc[w] = "off"
    /\ pc' = [pc EXCEPT ![w] = "poll"]
    /\ running' = [running EXCEPT ![w] = TRUE]
    /\ UNCHANGED <<tables, todo, cur, copy, bounds, history>>

\* Mutant: the claim sets the status and leaves updated_at alone.
ClaimKeepsDate(w) ==
    /\ pc[w] = "poll" /\ running[w]
    /\ \E E \in Batches(Events), D \in Batches(Deliveries) :
          /\ E \cup D # {}
          /\ rows' = [i \in Items |-> IF i \in E \cup D
                                      THEN [rows[i] EXCEPT !.status = "processing"]
                                      ELSE rows[i]]
          /\ todo' = [todo EXCEPT ![w] = E \cup D]
    /\ pc' = [pc EXCEPT ![w] = "work"]
    /\ UNCHANGED <<aged, subs, running, cur, copy, bounds, history>>

Claim(w) ==
    /\ pc[w] = "poll" /\ running[w]
    /\ \E E \in Batches(Events), D \in Batches(Deliveries) :
          /\ E \cup D # {}
          /\ rows' = [i \in Items |-> IF i \in E \cup D
                                      THEN [rows[i] EXCEPT !.status = "processing"]
                                      ELSE rows[i]]
          /\ aged' = aged \ (E \cup D)
          /\ todo' = [todo EXCEPT ![w] = E \cup D]
          /\ repeats' = [i \in Items |-> IF i \in E \cup D /\ i \in aged
                                         THEN repeats[i] + 1 ELSE repeats[i]]
    /\ pc' = [pc EXCEPT ![w] = "work"]
    /\ UNCHANGED <<subs, running, cur, copy, bounds, contended, done>>

\* The claim's transaction fails after the ids were collected: the rows are
\* rolled back, event_ids and delivery_ids keep them.
ClaimRolledBack(w) ==
    /\ pc[w] = "poll" /\ running[w]
    /\ faults < MaxFaults
    /\ \E E \in Batches(Events), D \in Batches(Deliveries) \cup {{}} :
          /\ E \cup D # {}
          /\ todo' = [todo EXCEPT ![w] = E \cup D]
          /\ contended' = contended \cup E \cup D
          /\ repeats' = [i \in Items |-> IF i \in E \cup D
                                         THEN repeats[i] + 1 ELSE repeats[i]]
    /\ pc' = [pc EXCEPT ![w] = "work"]
    /\ faults' = faults + 1
    /\ UNCHANGED <<tables, running, cur, copy, overruns, done>>

\* SIGTERM or SIGINT: seen between two rows and at the top of the loop.
Stop(w) ==
    /\ running[w]
    /\ faults < MaxFaults
    /\ running' = [running EXCEPT ![w] = FALSE]
    /\ faults' = faults + 1
    /\ UNCHANGED <<tables, pc, todo, cur, copy, overruns, history>>

Leave(w) ==
    /\ pc[w] \in {"poll", "work"} /\ ~running[w]
    /\ pc' = [pc EXCEPT ![w] = "off"]
    /\ todo' = [todo EXCEPT ![w] = {}]
    /\ UNCHANGED <<tables, running, cur, copy, bounds, history>>

-----------------------------------------------------------------------------
(* OutboxWorker._process_single_event *)

LoadEvent(w) ==
    /\ pc[w] = "work" /\ running[w]
    /\ \E e \in todo[w] \cap Events : TakeUp(w, e, "bump")
    /\ UNCHANGED <<tables, bounds, history>>

CountEventAttempt(w) ==
    LET n == copy[w].attempts + 1 IN
    /\ pc[w] = "bump"
    /\ Store(cur[w], [rows[cur[w]] EXCEPT !.attempts = n])
    /\ Goto(w, "run", [copy[w] EXCEPT !.attempts = n])
    /\ UNCHANGED <<subs, bounds, history>>

\* Every handler returned; enqueue_webhooks_for_event commits their writes and
\* one pending delivery for each active subscription that listens; a delivery
\* for which there is no slot left in Deliveries is not followed.
EnqueueWebhooks(w) ==
    LET targets == {s \in Listens[cur[w]] : subs[s] = "active"}
        slots   == {d \in Deliveries : rows[d].status = "absent" /\ SubOf[d] \in targets}
    IN
    /\ pc[w] = "run"
    /\ \E D \in SUBSET slots :
          /\ {SubOf[d] : d \in D} = {SubOf[d] : d \in slots}
          /\ \A d1, d2 \in D : SubOf[d1] = SubOf[d2] => d1 = d2
          /\ rows' = [i \in Items |-> IF i \in D THEN NewRow("pending", "null")
                                      ELSE rows[i]]
    /\ done' = [done EXCEPT ![cur[w]] = @ + 1]
    /\ Goto(w, "mark", copy[w])
    /\ UNCHANGED <<aged, subs, bounds, contended, repeats>>

MarkProcessed(w) ==
    LET e == cur[w] IN
    /\ pc[w] = "mark"
    /\ Store(e, [rows[e] EXCEPT
                    !.status = Column(copy[w].status, @, "processed")])
    /\ Finish(w)
    /\ UNCHANGED <<subs, bounds, history>>

\* Mutant: the exception of a handler is swallowed.
HandlerRaisesUnseen(w) ==
    /\ pc[w] = "run"
    /\ Goto(w, "mark", copy[w])
    /\ UNCHANGED <<tables, bounds, history>>

\* A handler raises: rollback, and the row is fetched again.
HandlerRaises(w) ==
    /\ pc[w] = "run"
    /\ Goto(w, "giveup", rows[cur[w]])
    /\ UNCHANGED <<tables, bounds, history>>

\* A commit of the try block fails: same handling.  When it is the last one
\* the handlers' effects are already committed and will be repeated.
EventCommitFails(w) ==
    /\ pc[w] \in {"bump", "run", "mark"}
    /\ faults < MaxFaults
    /\ faults' = faults + 1
    /\ repeats' = [repeats EXCEPT ![cur[w]] = IF pc[w] = "mark" THEN @ + 1 ELSE @]
    /\ Goto(w, "giveup", rows[cur[w]])
    /\ UNCHANGED <<tables, overruns, contended, done>>

\* Mutant: an event out of attempts gets a status of its own.
RecordFailureAsDead(w) ==
    /\ pc[w] = "giveup"
    /\ Store(cur[w], [rows[cur[w]] EXCEPT
                    !.status = IF copy[w].attempts < MaxAttempts THEN "failed" ELSE "dead"])
    /\ Finish(w)
    /\ UNCHANGED <<subs, bounds, history>>

\* Mutant: one retry too few is planned.
RecordFailureEarly(w) ==
    /\ pc[w] = "giveup"
    /\ Store(cur[w], [rows[cur[w]] EXCEPT
                    !.status = "failed",
                    !.retry  = IF copy[w].attempts + 1 < MaxAttempts THEN "later" ELSE "null"])
    /\ Finish(w)
    /\ UNCHANGED <<subs, bounds, history>>

\* `except` branch: failed, with a retry date while attempts are left.
RecordFailure(w) ==
    LET e == cur[w] IN
    /\ pc[w] = "giveup"
    /\ Store(e, [rows[e] EXCEPT
                    !.status = Column(copy[w].status, @, "failed"),
                    !.retry  = IF copy[w].attempts < MaxAttempts THEN "later"
                               ELSE Column(copy[w].retry, @, "null")])
    /\ Finish(w)
    /\ UNCHANGED <<subs, bounds, history>>

\* The failure cannot be saved either: the row is left as it is.
FailureNotSaved(w) ==
    /\ pc[w] = "giveup"
    /\ faults < MaxFaults
    /\ faults' = faults + 1
    /\ Finish(w)
    /\ UNCHANGED <<tables, overruns, history>>

-----------------------------------------------------------------------------
(* OutboxWorker._process_single_delivery, dispatch_webhook_delivery *)

\* Deliveries come after the events of the batch; a deleted row is skipped.
LoadDelivery(w) ==
    /\ pc[w] = "work" /\ running[w]
    /\ todo[w] \cap Events = {}
    /\ \E d \in todo[w] : 
          IF rows[d].status = "deleted"
          THEN /\ todo' = [todo EXCEPT ![w] = @ \ {d}]
               /\ pc' = [pc EXCEPT ![w] = IF todo[w] = {d} THEN "poll" ELSE "work"]
               /\ UNCHANGED <<running, cur, copy>>
          ELSE TakeUp(w, d, "check")
    /\ UNCHANGED <<tables, bounds, history>>

\* The subscription is gone or inactive: failed, retry date and count kept.
RefuseDelivery(a) ==
    LET d == cur[a] IN
    /\ pc[a] = "check"
    /\ subs[SubOf[d]] # "active"
    /\ Store(d, [rows[d] EXCEPT !.status = Column(copy[a].status, @, "failed")])
    /\ Finish(a)
    /\ UNCHANGED <<subs, bounds, history>>

CountDeliveryAttempt(a) ==
    LET d == cur[a]
        n == copy[a].attempts + 1
    IN
    /\ pc[a] = "check"
    /\ subs[SubOf[d]] = "active"
    /\ Store(d, [rows[d] EXCEPT !.attempts = n])
    /\ Goto(a, "send", [copy[a] EXCEPT !.attempts = n])
    /\ UNCHANGED <<subs, bounds, history>>

\* The endpoint answers 2xx; the outcome is not stored yet.
PostAccepted(a) ==
    /\ pc[a] = "send"
    /\ done' = [done EXCEPT ![cur[a]] = @ + 1]
    /\ Goto(a, "ok", copy[a])
    /\ UNCHANGED <<tables, bounds, contended, repeats>>

SaveDelivered(a) ==
    LET d == cur[a] IN
    /\ pc[a] = "ok"
    /\ Store(d, [rows[d] EXCEPT
                    !.status = Column(copy[a].status, @, "delivered")])
    /\ Finish(a)
    /\ UNCHANGED <<subs, bounds, history>>

\* Mutant: the status code of the answer is not looked at.
PostRejectedUnseen(a) ==
    /\ pc[a] = "send"
    /\ Goto(a, "ok", copy[a])
    /\ UNCHANGED <<tables, bounds, history>>

\* The task of a test ping passes no max_attempts.
AttemptLimit(a) == IF a \in Workers THEN MaxAttempts ELSE PingAttempts

\* Timeout, connection error or another status code.
PostRejected(a) ==
    LET d == cur[a] IN
    /\ pc[a] = "send"
    /\ Store(d, [rows[d] EXCEPT
                    !.status = Column(copy[a].status, @, "failed"),
                    !.retry  = IF copy[a].attempts < AttemptLimit(a) THEN "later"
                               ELSE Column(copy[a].retry, @, "null")])
    /\ Finish(a)
    /\ UNCHANGED <<subs, bounds, history>>

\* The secret cannot be decrypted: the exception reaches the worker, which
\* stores "failed" and leaves next_retry_at alone; a task just dies of it.
DispatchRaises(a) ==
    LET d == cur[a] IN
    /\ pc[a] = "send"
    /\ IF a \in Workers
       THEN Store(d, [rows[d] EXCEPT !.status = Column(copy[a].status, @, "failed")])
       ELSE UNCHANGED <<rows, aged>>
    /\ Finish(a)
    /\ UNCHANGED <<subs, bounds, history>>

\* A commit fails: the session refuses further queries, the row stays as it is.
DeliveryCommitFails(a) ==
    /\ pc[a] \in {"check", "send", "ok"}
    /\ faults < MaxFaults
    /\ faults' = faults + 1
    /\ Finish(a)
    /\ UNCHANGED <<tables, overruns, history>>

-----------------------------------------------------------------------------
(* Crashes and time *)

Crash(a) ==
    /\ pc[a] # "off"
    /\ faults < MaxFaults
    /\ faults' = faults + 1
    /\ pc' = [pc EXCEPT ![a] = "off"]
    /\ running' = [w \in Workers |-> running[w] /\ w # a]
    /\ todo' = [todo EXCEPT ![a] = {}]
    /\ cur' = [cur EXCEPT ![a] = NoItem]
    /\ copy' = [copy EXCEPT ![a] = Absent]
    /\ UNCHANGED <<tables, overruns, history>>

\* Ten minutes without an UPDATE of a claimed row that nobody works on.
LeaseExpires(i) ==
    /\ rows[i].status = "processing" /\ i \notin aged
    /\ Holders(i) = {}
    /\ aged' = aged \cup {i}
    /\ UNCHANGED <<rows, subs, actors, bounds, history>>

\* The same while a process still has the row on its list or in hand: a batch
\* of slow endpoints and handlers outlasts the ten minutes.
LeaseOverrun(i) ==
    /\ rows[i].status = "processing" /\ i \notin aged
    /\ Holders(i) # {}
    /\ overruns < MaxOverruns
    /\ overruns' = overruns + 1
    /\ aged' = aged \cup {i}
    /\ contended' = contended \cup {i}
    /\ UNCHANGED <<rows, subs, actors, faults, repeats, done>>

RetryDue(i) ==
    /\ rows[i].retry = "later"
    /\ rows' = [rows EXCEPT ![i].retry = "due"]
    /\ UNCHANGED <<aged, subs, actors, bounds, history>>

-----------------------------------------------------------------------------
EventStep(w) ==
    \/ LoadEvent(w)       \/ CountEventAttempt(w) \/ EnqueueWebhooks(w)
    \/ MarkProcessed(w)   \/ HandlerRaises(w)     \/ RecordFailure(w)

DispatchStep(a) ==
    \/ RefuseDelivery(a)  \/ CountDeliveryAttempt(a) \/ PostAccepted(a)
    \/ SaveDelivered(a)   \/ PostRejected(a)         \/ DispatchRaises(a)

\* What a live worker goes on doing.
WorkerStep(w) ==
    Claim(w) \/ Leave(w) \/ EventStep(w) \/ LoadDelivery(w) \/ DispatchStep(w)

FaultStep(w) ==
    \/ ClaimRolledBack(w) \/ Stop(w)
    \/ EventCommitFails(w) \/ FailureNotSaved(w)

TaskStep(t) == DetachedDispatch(t) \/ DispatchStep(t)

ApiStep ==
    \/ \E e \in Events : EmitEvent(e)
    \/ \E s \in Subs : UpdateSubscription(s) \/ DeleteSubscription(s)
    \/ \E t \in Tasks, d \in Deliveries : TestSubscription(t, d)

TimeStep(i) == LeaseExpires(i) \/ RetryDue(i)

Next ==
    \/ ApiStep
    \/ \E w \in Workers : Start(w) \/ WorkerStep(w) \/ FaultStep(w)
    \/ \E t \in Tasks : TaskStep(t)
    \/ \E a \in Actors : Crash(a) \/ DeliveryCommitFails(a)
    \/ \E i \in Items : TimeStep(i) \/ LeaseOverrun(i)

Spec == Init /\ [][Next]_vars

\* The supervisor restarts a worker, a live worker keeps working, an endpoint
\* answers or times out (5 s), and the clock goes on.  Nothing is assumed of
\* the API's users, of faults, or of slowness.
Fairness ==
    /\ \A w \in Workers : WF_vars(Start(w)) /\ WF_vars(WorkerStep(w))
    /\ \A t \in Tasks : WF_vars(TaskStep(t))
    /\ \A i \in Items : WF_vars(LeaseExpires(i)) /\ WF_vars(RetryDue(i))

FairSpec == Spec /\ Fairness

-----------------------------------------------------------------------------
(* Properties *)

\* Every variable keeps its type.
TypeOK ==
    /\ rows \in [Items -> Row]
    /\ aged \in SUBSET Items
    /\ subs \in [Subs -> {"active", "inactive", "deleted"}]
    /\ pc \in [Actors -> Pcs]
    /\ running \in [Workers -> BOOLEAN]
    /\ todo \in [Actors -> SUBSET Items]
    /\ cur \in [Actors -> Items \cup {NoItem}]
    /\ copy \in [Actors -> Row]
    /\ faults \in 0..MaxFaults
    /\ overruns \in 0..MaxOverruns
    /\ contended \in SUBSET Items
    /\ repeats \in [Items -> Nat]
    /\ done \in [Items -> Nat]

\* Two processes have the same row on their hands only after a lease on it ran
\* out under its holder or a claim of it was rolled back: crashes, stops,
\* failed commits and late restarts alone never make two workers run one row.
ExclusiveClaim ==
    \A i \in Items \ contended :
        \A a, b \in Actors : i \in Held(a) /\ i \in Held(b) => a = b

\* A row on somebody's hands under an exclusive claim is marked as claimed, with
\* a running lease, unless it was deleted with its subscription: no worker holds
\* a row that the next poll of another worker would select.
HeldIsClaimed ==
    \A i \in Items \ contended : \A a \in Actors : i \in Held(a) =>
        /\ rows[i].status \in {"processing", "deleted"}
        /\ i \notin aged

\* What one step may do to a row under an exclusive claim.
KeepsOutcome(i) ==
    rows[i].status \in {"processed", "delivered"} =>
        rows'[i].status \in {rows[i].status, "deleted"}

KeepsAttempts(i) ==
    rows[i].status # "absent" /\ rows'[i].status # "deleted" =>
        rows'[i].attempts >= rows[i].attempts

\* "processed" and "delivered" are final: no later write takes a row back to
\* failed or processing, whatever crashes, as long as claims stay exclusive.
OutcomeFinal == [][\A i \in Items \ contended' : KeepsOutcome(i)]_vars

\* At least once: an event is marked processed only when its handlers have
\* committed and the webhooks are enqueued; a delivery is marked delivered
\* only when its endpoint answered 2xx, whoever else works on the row.
OutcomeEarned ==
    \A i \in Items : rows[i].status \in {"processed", "delivered"} => done[i] >= 1

\* How far "at least once" is from "once": every further handler run or 2xx
\* answer is paid for by a reclaimed stale row, a rolled-back claim or a lost
\* "processed" commit.
RepeatsAccounted ==
    \A i \in Items : done[i] <= 1 + repeats[i]

\* Under exclusive claims the attempt limit is exceeded only by as many attempts as
\* the row was claimed again after a crash.
AttemptsAccounted ==
    \A i \in Items \ contended : rows[i].attempts <= MaxAttempts + repeats[i]

\* No attempt is forgotten while claims are exclusive: attempt_count is read
\* and written in different transactions, a lost update would show here.
AttemptsNeverDecrease == [][\A i \in Items \ contended' : KeepsAttempts(i)]_vars

\* No failed event is forgotten: while attempts are left it has a retry date.
NoStrandedEvent ==
    \A e \in Events \ contended :
        rows[e].status = "failed" /\ rows[e].attempts < MaxAttempts =>
            rows[e].retry # "null"

\* The event is processed, or failed with its attempts used up; or its failure was
\* recorded as final, without a retry date, and another holder's stale count stands
\* where the last one stood.
EventSettled(e) ==
    \/ rows[e].status = "processed"
    \/ /\ rows[e].status = "failed"
       /\ rows[e].attempts >= MaxAttempts \/ (e \in contended /\ rows[e].retry = "null")

\* No poll selects the delivery any more.  A refused one, and one whose secret cannot
\* be decrypted, keeps the retry date it has, which may be none.
DeliverySettled(d) ==
    \/ rows[d].status \in {"delivered", "deleted"}
    \/ /\ rows[d].status = "failed"
       /\ rows[d].retry = "null" \/ rows[d].attempts >= MaxAttempts

\* Every emitted event is eventually settled for good, after any crash, restart,
\* failed commit or overrun lease.
EventsSettle ==
    \A e \in Events : rows[e].status # "absent" ~> [](EventSettled(e))

\* Every delivery is eventually settled for good when its subscription
\* eventually stays active.
DeliveriesSettle ==
    \A d \in Deliveries :
        <>[](subs[SubOf[d]] = "active") =>
            (rows[d].status # "absent" ~> [](DeliverySettled(d)))

-----------------------------------------------------------------------------
(* The abstract specification *)

\* What the status of a row means to those who submitted the work.
ItemState(i) ==
    IF rows[i].status = "absent" THEN "none"
    ELSE IF rows[i].status \in {"processed", "delivered"} THEN "finished"
    ELSE IF rows[i].status = "deleted" THEN "withdrawn"
    ELSE "open"

Queue == INSTANCE WorkQueue WITH state  <- [i \in Items |-> ItemState(i)],
                                 shared <- contended

\* The two tables and their workers are an at-least-once queue: an event or delivery is
\* finished only after its work was done, it is neither done again nor reopened then,
\* and only leases that overrun and claims that are rolled back make an exception.
ImplementsQueue == Queue!Spec

-----------------------------------------------------------------------------
(* The inductive invariant behind the safety properties *)

\* What each place in the code says of the row in hand and of the batch.
InHand ==
    \A a \in Actors :
        /\ pc[a] \in {"off", "poll", "work"} <=> cur[a] = NoItem
        /\ pc[a] \in {"bump", "run", "mark", "giveup"} => cur[a] \in Events
        /\ pc[a] \in {"check", "send", "ok", "closed"} => cur[a] \in Deliveries
        /\ pc[a] \in {"off", "poll"} => todo[a] = {}
        /\ cur[a] \notin todo[a]
        /\ a \in Tasks => todo[a] = {} /\ pc[a] \in {"off", "check", "send", "ok", "closed"}
        /\ pc[a] = "closed" => a \in Tasks

\* Only claimed rows are found with an expired lease.
AgedIsClaimed == \A i \in aged : rows[i].status = "processing"

\* While a claim is exclusive the copy in the session is the row of the table.
CopyIsFresh ==
    \A i \in Items \ contended : \A a \in Actors :
        cur[a] = i /\ rows[i].status # "deleted" => copy[a] = rows[i]

\* A retry date in the future is only found on a failed row.
LaterMeansFailed ==
    \A i \in Items \ contended : rows[i].retry = "later" => rows[i].status = "failed"

\* Work that is about to be recorded as finished has been done.
AboutToFinish ==
    \A a \in Actors : pc[a] \in {"mark", "ok"} => done[cur[a]] >= 1

\* Together they are inductive.
IInv ==
    /\ TypeOK
    /\ InHand
    /\ AgedIsClaimed
    /\ HeldIsClaimed
    /\ ExclusiveClaim
    /\ CopyIsFresh
    /\ LaterMeansFailed
    /\ AboutToFinish
    /\ OutcomeEarned
    /\ NoStrandedEvent
-----------------------------------------------------------------------------
(* The accounts behind RepeatsAccounted and AttemptsAccounted *)

\* a may still run the handlers of i, or post i.
MayDo(a, i) == i \in todo[a] \/ (cur[a] = i /\ pc[a] \notin {"mark", "ok"})

\* Every poll may claim the row, now or when its retry date has come.
Unclaimed(i) == rows[i].status \in {"absent", "pending", "failed"}

\* Work that was done, may be done and may be claimed: one, and one for each repeat.
WorkCounted ==
    \A i \in Items :
        LET doers == {a \in Actors : MayDo(a, i)} IN
        /\ IsFiniteSet(doers)
        /\ done[i] + Cardinality(doers) + (IF Unclaimed(i) THEN 1 ELSE 0) <= 1 + repeats[i]

\* a is going to count an attempt at i.
MayCount(a, i) == i \in todo[a] \/ (cur[a] = i /\ pc[a] \in {"bump", "check"})

\* An attempt that may still be counted is within the limit.
AttemptsCounted ==
    \A i \in Items \ contended :
        /\ rows[i].status \in {"absent", "pending"} => rows[i].attempts = 0
        /\ rows[i].attempts <= MaxAttempts + repeats[i]
        /\ \A a \in Actors : MayCount(a, i) => rows[i].attempts < MaxAttempts + repeats[i]
=============================================================================
