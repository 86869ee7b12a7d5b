---------------------------- MODULE Idempotency ----------------------------
(***************************************************************************)
(* Idempotency keys: require_idempotency and mark_idempotency_completed    *)
(* (core/idempotency.py), the middleware that stores the response          *)
(* (app.py), the one route they guard, POST /api/v1/app/invitations        *)
(* (tenant_app/invitations.py), and the job that deletes expired keys      *)
(* (jobs/cleanup.py).                                                      *)
(*                                                                         *)
(* A retry is a request with the key of an earlier one.  The dependency,   *)
(* the handler and the middleware commit separately, so every step below   *)
(* is one query or one committed transaction and requests interleave       *)
(* between them.  A response is the kind of answer and the request that    *)
(* produced it; a placeholder is the body "Invitation created: <id>" the   *)
(* handler stores before the real response exists.                         *)
(***************************************************************************)
EXTENDS Naturals

CONSTANTS
    Requests,    \* requests that carry an Idempotency-Key
    Keys,        \* its values
    KeyOf,       \* [Requests -> Keys]
    Payloads,    \* request bodies, up to their SHA-256
    PayloadOf,   \* [Requests -> Payloads]
    MaxFaults,   \* bound: crashes and failed commits together
    NoRequest

ASSUME ConstantsAssumption ==
    /\ KeyOf \in [Requests -> Keys]
    /\ PayloadOf \in [Requests -> Payloads]
    /\ MaxFaults \in Nat
    /\ NoRequest \notin Requests

VARIABLES
    record,      \* table idempotency_keys, one scope: [Keys -> Record]
    expired,     \* keys whose record has expires_at < now
    pc,          \* where each request is
    resp,        \* response on its way to the client
    faults,      \* faults so far
    executed,    \* history: requests whose invitation is committed
    epoch,       \* history: cleanups[key] when the request stored its record
    cleanups,    \* history: times the key's record was deleted
    replayOf,    \* history: owner of the record a replayed response came from
    crossed      \* history: keys cleaned up under a replay in progress

history == <<executed, epoch, cleanups, replayOf, crossed>>
vars    == <<record, expired, pc, resp, faults, history>>

Kinds    == {"none", "created", "placeholder", "refused", "conflict", "error"}
Response == [kind : Kinds, by : Requests \cup {NoRequest}]
NoAnswer == [kind |-> "none", by |-> NoRequest]
Answer(kind, r) == [kind |-> kind, by |-> r]

\* request_hash is the hash of the owner's payload.
Record == [status : {"absent", "processing", "completed"},
           owner : Requests \cup {NoRequest}, response : Response]
Absent == [status |-> "absent", owner |-> NoRequest, response |-> NoAnswer]

Pcs == {"new", "claim", "run", "mark", "close", "done", "dead"}

Init ==
    /\ record = [k \in Keys |-> Absent]
    /\ expired = {}
    /\ pc = [r \in Requests |-> "new"]
    /\ resp = [r \in Requests |-> NoAnswer]
    /\ faults = 0
    /\ executed = {}
    /\ epoch = [r \in Requests |-> 0]
    /\ cleanups = [k \in Keys |-> 0]
    /\ replayOf = [r \in Requests |-> NoRequest]
    /\ crossed = {}

-----------------------------------------------------------------------------
(* Helpers *)

Of(r) == record[KeyOf[r]]

Completed(stored, answer) ==
    [status |-> "completed", owner |-> stored.owner, response |-> answer]

\* The request is over for its client.
Close(r, answer) ==
    /\ pc' = [pc EXCEPT ![r] = "done"]
    /\ resp' = [resp EXCEPT ![r] = answer]

\* A response below 500 other than 409 goes through the middleware.
Respond(r, answer) ==
    /\ pc' = [pc EXCEPT ![r] = "close"]
    /\ resp' = [resp EXCEPT ![r] = answer]

\* Mutant: a record in progress is left for the middleware to complete.
MarkCompletedLater(r, answer) ==
    record' = IF Of(r).status = "completed"
              THEN [record EXCEPT ![KeyOf[r]] = Completed(Of(r), answer)] ELSE record

\* mark_idempotency_completed: whatever record now stands under the key is
\* completed with this answer, and nothing happens when there is none.
MarkCompleted(r, answer) ==
    record' = IF Of(r).status = "absent" THEN record
              ELSE [record EXCEPT ![KeyOf[r]] = Completed(Of(r), answer)]

-----------------------------------------------------------------------------
(* require_permission, require_idempotency *)

\* 401, 403: raised by require_permission, before the key is looked at.
Refuse(r) ==
    /\ pc[r] = "new"
    /\ Respond(r, Answer("refused", r))
    /\ UNCHANGED <<record, expired, faults, history>>

LookUpNothing(r) ==
    /\ pc[r] = "new"
    /\ Of(r).status = "absent"
    /\ pc' = [pc EXCEPT ![r] = "claim"]
    /\ UNCHANGED <<record, expired, resp, faults, history>>

\* Mutant: the payload is not compared.
LookUpAnyPayload(r) ==
    /\ pc[r] = "new"
    /\ Of(r).status = "completed"
    /\ Respond(r, Of(r).response)
    /\ replayOf' = [replayOf EXCEPT ![r] = Of(r).owner]
    /\ UNCHANGED <<record, expired, faults, executed, epoch, cleanups, crossed>>

\* IdempotencyReturnResponseException: the stored response is replayed.
LookUpCompleted(r) ==
    /\ pc[r] = "new"
    /\ Of(r).status = "completed"
    /\ PayloadOf[Of(r).owner] = PayloadOf[r]
    /\ Respond(r, Of(r).response)
    /\ replayOf' = [replayOf EXCEPT ![r] = Of(r).owner]
    /\ UNCHANGED <<record, expired, faults, executed, epoch, cleanups, crossed>>

\* 409: in progress, or used with another payload.
LookUpConflict(r) ==
    /\ pc[r] = "new"
    /\ \/ Of(r).status = "processing"
       \/ Of(r).status = "completed" /\ PayloadOf[Of(r).owner] # PayloadOf[r]
    /\ Close(r, Answer("conflict", r))
    /\ UNCHANGED <<record, expired, faults, history>>

\* Mutant: no unique constraint, the later of two inserts stands.
StoreKeyUnchecked(r) ==
    /\ pc[r] = "claim"
    /\ record' = [record EXCEPT ![KeyOf[r]] =
                     [status |-> "processing", owner |-> r, response |-> NoAnswer]]
    /\ epoch' = [epoch EXCEPT ![r] = cleanups[KeyOf[r]]]
    /\ pc' = [pc EXCEPT ![r] = "run"]
    /\ UNCHANGED <<expired, resp, faults, executed, cleanups, replayOf, crossed>>

StoreKey(r) ==
    /\ pc[r] = "claim"
    /\ Of(r).status = "absent"
    /\ record' = [record EXCEPT ![KeyOf[r]] =
                     [status |-> "processing", owner |-> r, response |-> NoAnswer]]
    /\ epoch' = [epoch EXCEPT ![r] = cleanups[KeyOf[r]]]
    /\ pc' = [pc EXCEPT ![r] = "run"]
    /\ UNCHANGED <<expired, resp, faults, executed, cleanups, replayOf, crossed>>

\* uq_idempotency_keys_scope_key: another request stored the key first.
KeyTaken(r) ==
    /\ pc[r] = "claim"
    /\ Of(r).status # "absent"
    /\ Close(r, Answer("conflict", r))
    /\ UNCHANGED <<record, expired, faults, history>>

-----------------------------------------------------------------------------
(* create_invitation *)

\* Mutant: a rejected request leaves a status of its own.
RejectAsFailed(r) ==
    /\ pc[r] = "run"
    /\ Close(r, Answer("refused", r))
    /\ record' = [record EXCEPT ![KeyOf[r]].status = "failed"]
    /\ UNCHANGED <<expired, faults, history>>

\* 404 for the role, 422 for the body: the dependency has already run.
Reject(r) ==
    /\ pc[r] = "run"
    /\ Respond(r, Answer("refused", r))
    /\ UNCHANGED <<record, expired, faults, history>>

CreateInvitation(r) ==
    /\ pc[r] = "run"
    /\ executed' = executed \cup {r}
    /\ pc' = [pc EXCEPT ![r] = "mark"]
    /\ UNCHANGED <<record, expired, resp, faults, epoch, cleanups, replayOf, crossed>>

\* The handler's own mark_idempotency_completed, then its return.
StorePlaceholder(r) ==
    /\ pc[r] = "mark"
    /\ MarkCompleted(r, Answer("placeholder", r))
    /\ Respond(r, Answer("created", r))
    /\ UNCHANGED <<expired, faults, history>>

-----------------------------------------------------------------------------
(* idempotency_middleware *)

StoreResponse(r) ==
    /\ pc[r] = "close"
    /\ MarkCompleted(r, resp[r])
    /\ Close(r, resp[r])
    /\ UNCHANGED <<expired, faults, history>>

-----------------------------------------------------------------------------
(* Faults and time *)

\* A commit fails.  In the dependency it is taken for a conflict, in the
\* handler it is a 500 the middleware does not store, in the middleware it is
\* ignored.
CommitFails(r) ==
    /\ faults < MaxFaults
    /\ faults' = faults + 1
    /\ \/ pc[r] = "claim" /\ Close(r, Answer("conflict", r))
       \/ pc[r] \in {"run", "mark"} /\ Close(r, Answer("error", r))
       \/ pc[r] = "close" /\ Close(r, resp[r])
    /\ UNCHANGED <<record, expired, history>>

\* The process dies with the request; its client gets no answer.
Crash(r) ==
    /\ pc[r] \notin {"new", "done", "dead"}
    /\ faults < MaxFaults
    /\ faults' = faults + 1
    /\ pc' = [pc EXCEPT ![r] = "dead"]
    /\ resp' = [resp EXCEPT ![r] = NoAnswer]
    /\ UNCHANGED <<record, expired, history>>

\* 24 hours after the record was stored, long after its owner ended.
Expire(k) ==
    /\ record[k].status # "absent" /\ k \notin expired
    /\ pc[record[k].owner] \in {"done", "dead"}
    /\ expired' = expired \cup {k}
    /\ UNCHANGED <<record, pc, resp, faults, history>>

\* Mutant: only answered keys are deleted.
CleanupCompleted ==
    LET gone == {k \in expired : record[k].status = "completed"} IN
    /\ gone # {}
    /\ record' = [k \in Keys |-> IF k \in gone THEN Absent ELSE record[k]]
    /\ expired' = expired \ gone
    /\ cleanups' = [k \in Keys |-> IF k \in gone THEN cleanups[k] + 1 ELSE cleanups[k]]
    /\ UNCHANGED <<pc, resp, faults, executed, epoch, replayOf, crossed>>

\* cleanup_expired_idempotency_keys: one DELETE, whatever the status.
Cleanup ==
    /\ expired # {}
    /\ record' = [k \in Keys |-> IF k \in expired THEN Absent ELSE record[k]]
    /\ expired' = {}
    /\ cleanups' = [k \in Keys |-> IF k \in expired THEN cleanups[k] + 1 ELSE cleanups[k]]
    /\ crossed' = crossed \cup
          {k \in expired : \E r \in Requests :
              KeyOf[r] = k /\ pc[r] = "close" /\ replayOf[r] # NoRequest}
    /\ UNCHANGED <<pc, resp, faults, executed, epoch, replayOf>>

-----------------------------------------------------------------------------
RequestStep(r) ==
    \/ Refuse(r)          \/ LookUpNothing(r) \/ LookUpCompleted(r)
    \/ LookUpConflict(r)  \/ StoreKey(r)      \/ KeyTaken(r)
    \/ Reject(r)          \/ CreateInvitation(r)
    \/ StorePlaceholder(r) \/ StoreResponse(r)

Next ==
    \/ \E r \in Requests : RequestStep(r) \/ CommitFails(r) \/ Crash(r)
    \/ \E k \in Keys : Expire(k)
    \/ Cleanup

Spec == Init /\ [][Next]_vars

\* A request that has begun goes on, the clock too, and somebody runs the job
\* (`cleanup-jobs`) now and then.  Clients need not send their requests.
Fairness ==
    /\ \A r \in Requests : WF_vars(pc[r] # "new" /\ RequestStep(r))
    /\ \A k \in Keys : WF_vars(Expire(k))
    /\ WF_vars(Cleanup)

FairSpec == Spec /\ Fairness

-----------------------------------------------------------------------------
(* Properties *)

\* Every variable keeps its type.
TypeOK ==
    /\ record \in [Keys -> Record]
    /\ expired \in SUBSET Keys
    /\ pc \in [Requests -> Pcs]
    /\ resp \in [Requests -> Response]
    /\ faults \in 0..MaxFaults
    /\ executed \in SUBSET Requests
    /\ epoch \in [Requests -> Nat]
    /\ cleanups \in [Keys -> Nat]
    /\ replayOf \in [Requests -> Requests \cup {NoRequest}]
    /\ crossed \in SUBSET Keys

\* Between two clean-ups of a key at most one of the requests that carry it is
\* executed, however they interleave, fail or are refused.
AtMostOnce ==
    \A r1, r2 \in executed :
        KeyOf[r1] = KeyOf[r2] /\ epoch[r1] = epoch[r2] => r1 = r2

\* A client told that its invitation exists, by a response or a replay, is told
\* of one that was committed for its key; and for its own payload, unless
\* the key was cleaned up while a replay of the old record was in progress.
ReplayIsHonest ==
    \A r \in Requests : resp[r].kind \in {"created", "placeholder"} =>
        /\ resp[r].by \in executed
        /\ KeyOf[resp[r].by] = KeyOf[r]
        /\ KeyOf[r] \notin crossed => PayloadOf[resp[r].by] = PayloadOf[r]

\* After a success the key answers retries until it is cleaned up: no client is
\* told "still being processed" about a request that has succeeded.
SuccessIsRemembered ==
    \A r \in Requests : pc[r] = "done" /\ resp[r] = Answer("created", r) =>
        \/ Of(r).status = "completed"
        \/ cleanups[KeyOf[r]] > epoch[r]

\* A key left "processing" by a crash, a failed commit or a 5xx is free again
\* one day: no retry is refused for ever.
KeyFreed ==
    \A k \in Keys : record[k].status = "processing" ~> record[k].status # "processing"

\* What the code does not give.  "If it is completed, returns the cached
\* response": the response of the request that holds the key.  The middleware
\* stores the answer of every request with the key, also of one refused with
\* 401 or 403 before the key was looked at.
ReplayIsOfOwner ==
    \A r \in Requests : pc[r] = "close" /\ replayOf[r] # NoRequest =>
        resp[r].by = replayOf[r]

-----------------------------------------------------------------------------
(* The inductive invariant behind the safety properties *)

\* The record r stored is still there.
Holds(r) ==
    /\ cleanups[KeyOf[r]] = epoch[r]
    /\ Of(r).status # "absent"
    /\ Of(r).owner = r

\* What each place in the code says of the request and of its record.
Progress ==
    \A r \in Requests :
        /\ pc[r] \in {"new", "claim", "run", "mark"} =>
              resp[r] = NoAnswer /\ replayOf[r] = NoRequest
        /\ pc[r] \in {"new", "claim", "run"} => r \notin executed
        /\ pc[r] \in {"run", "mark"} => Holds(r)
        /\ pc[r] = "mark" => r \in executed
        /\ pc[r] = "close" /\ r \in executed =>
              /\ Holds(r) /\ Of(r).status = "completed"
              /\ resp[r] = Answer("created", r) /\ replayOf[r] = NoRequest
        /\ replayOf[r] = NoRequest /\ r \notin executed =>
              resp[r].kind \notin {"created", "placeholder"}

\* A record has an owner, who has ended when it expires, and is unanswered
\* until it is completed.
RecordShape ==
    \A k \in Keys :
        /\ record[k].status # "absent" => record[k].owner \in Requests
        /\ record[k].status # "completed" => record[k].response = NoAnswer
        /\ k \in expired =>
              record[k].status # "absent" /\ pc[record[k].owner] \in {"done", "dead"}

\* An executed request holds its key until the key is cleaned up.
ExecutedHolds ==
    \A r \in executed :
        /\ epoch[r] <= cleanups[KeyOf[r]]
        /\ epoch[r] = cleanups[KeyOf[r]] => Holds(r)

\* A stored success is one of the key and of the owner's payload.
RecordIsHonest ==
    \A k \in Keys : record[k].response.kind \in {"created", "placeholder"} =>
        LET by == record[k].response.by IN
        /\ by \in executed
        /\ KeyOf[by] = k
        /\ k \notin crossed => PayloadOf[by] = PayloadOf[record[k].owner]

\* While a replay is in progress the record it was taken from is in place.
ReplayUnderway ==
    \A r \in Requests :
        pc[r] = "close" /\ replayOf[r] # NoRequest /\ KeyOf[r] \notin crossed =>
            /\ Of(r).status # "absent"
            /\ Of(r).owner = replayOf[r]
            /\ PayloadOf[replayOf[r]] = PayloadOf[r]

\* Together they are inductive.
IInv ==
    /\ TypeOK
    /\ Progress
    /\ RecordShape
    /\ ExecutedHolds
    /\ RecordIsHonest
    /\ ReplayUnderway
    /\ AtMostOnce
    /\ ReplayIsHonest
    /\ SuccessIsRemembered
=============================================================================
