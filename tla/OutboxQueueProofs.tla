-------------------------- MODULE OutboxQueueProofs --------------------------
(***************************************************************************)
(* What the outbox promises as a queue.                                    *)
(*                                                                         *)
(* It implements the at-least-once queue of WorkQueue: each of its steps   *)
(* is a step of the queue, or changes nothing of what the queue shows.     *)
(* What is needed of the invariant is that a row on somebody's hands is    *)
(* not finished unless it is contended, and that work about to be recorded *)
(* has been done.                                                          *)
(*                                                                         *)
(* How far it is from once, and from the attempt limit: work that was      *)
(* done, may be done by somebody or may be claimed is one, and one more    *)
(* for each repeat.                                                        *)
(***************************************************************************)
EXTENDS OutboxWorkerProofs, FiniteSetTheorems

USE ConstantsAssumption

\* The queue as the tables show it.
States == [i \in Items |-> ItemState(i)]

\* Rows that somebody else may have are rows.
ContendedExist == \A i \in contended : rows[i].status # "absent"

\* What the queue makes of the status of a row.
LEMMA StateNow ==
    ASSUME rows \in [Items -> Row], NEW i \in Items
    PROVE  /\ rows[i].status \in Statuses
           /\ rows[i].status = "absent" <=> States[i] = "none"
           /\ rows[i].status \in {"pending", "processing", "failed"} <=> States[i] = "open"
           /\ rows[i].status \in {"processed", "delivered"} <=> States[i] = "finished"
           /\ rows[i].status = "deleted" <=> States[i] = "withdrawn"
<1>1. rows[i].status \in Statuses
  BY DEF Row
<1>2. States[i] = ItemState(i)
  BY DEF States
<1>3. QED BY <1>1, <1>2 DEF ItemState, Statuses

\* The same in the next state.
LEMMA StateNext ==
    ASSUME rows' \in [Items -> Row], NEW i \in Items
    PROVE  /\ rows'[i].status \in Statuses
           /\ rows'[i].status = "absent" <=> States'[i] = "none"
           /\ rows'[i].status \in {"pending", "processing", "failed"} <=> States'[i] = "open"
           /\ rows'[i].status \in {"processed", "delivered"} <=> States'[i] = "finished"
           /\ rows'[i].status = "deleted" <=> States'[i] = "withdrawn"
<1>1. rows'[i].status \in Statuses
  BY DEF Row
<1>2. States'[i] = ItemState(i)'
  BY DEF States
<1>3. QED BY <1>1, <1>2 DEF ItemState, Statuses

\* A step that writes no status and does no work is none of the queue's.
LEMMA Stutter ==
    ASSUME rows \in [Items -> Row], rows' \in [Items -> Row],
           \A i \in Items : States'[i] = States[i],
           UNCHANGED <<done, contended>>
    PROVE  UNCHANGED Queue!vars
<1>1. States' = States
  BY DEF States
<1>2. QED BY <1>1 DEF States, Queue!vars

\* A step that takes the items of S, and no others, to another state.
LEMMA MoveTo ==
    ASSUME NEW S \in SUBSET Items, NEW from, NEW to,
           \A i \in S : States[i] \in from /\ States'[i] = to,
           \A i \in Items \ S : States'[i] = States[i]
    PROVE  Queue!Move(S, from, to)
<1>1. States' = [i \in Items |-> IF i \in S THEN to ELSE States[i]]
  BY DEF States
<1>2. QED BY <1>1 DEF States, Queue!Move

\* A failure that is written over a row reopens it, if it was finished (RecordFailure,
\* RefuseDelivery, PostRejected, DispatchRaises).
LEMMA FailureWritten ==
    ASSUME rows \in [Items -> Row], rows' \in [Items -> Row],
           NEW i \in Items, NEW r, Store(i, r), r.status \in {rows[i].status, "failed"},
           rows[i].status # "absent",
           rows[i].status \in {"processed", "delivered"} => i \in contended,
           UNCHANGED <<done, contended>>
    PROVE  [Queue!Next]_(Queue!vars)
<1>1. \A j \in Items \ {i} : States'[j] = States[j]
  BY StoreEffect DEF States, ItemState
<1>2. rows'[i].status \in {rows[i].status, "failed"}
  BY StoreEffect
<1>3. CASE States'[i] = States[i]
  BY <1>1, <1>3, Stutter
<1>4. CASE States'[i] # States[i]
  <2>1. States[i] = "finished" /\ States'[i] = "open" /\ i \in contended
    <3>0. rows'[i].status # rows[i].status
      BY <1>4 DEF States, ItemState
    <3>1. rows'[i].status = "failed"
      BY <1>2, <3>0
    <3>2. rows[i].status \in {"processed", "delivered"}
      BY <1>4, <3>1, StateNow, StateNext, StoreEffect DEF Statuses
    <3>3. QED BY <3>1, <3>2, StateNow, StateNext
  <2>2. Queue!Move({i}, {"finished"}, "open")
    BY <1>1, <2>1, MoveTo
  <2>3. Queue!Reopen(i)
    BY <2>1, <2>2 DEF Queue!Reopen
  <2>4. QED BY <2>3 DEF Queue!Next
<1>5. QED BY <1>3, <1>4

\* A success that is written over a row finishes it, its work being done
\* (MarkProcessed, SaveDelivered).
LEMMA SuccessWritten ==
    ASSUME rows \in [Items -> Row], rows' \in [Items -> Row],
           NEW i \in Items, NEW r, Store(i, r),
           r.status \in {rows[i].status, "processed", "delivered"},
           rows[i].status # "absent", done[i] >= 1,
           UNCHANGED <<done, contended>>
    PROVE  [Queue!Next]_(Queue!vars)
<1>1. \A j \in Items \ {i} : States'[j] = States[j]
  BY StoreEffect DEF States, ItemState
<1>2. rows'[i].status \in {rows[i].status, "processed", "delivered"}
  BY StoreEffect
<1>3. CASE States'[i] = States[i]
  BY <1>1, <1>3, Stutter
<1>4. CASE States'[i] # States[i]
  <2>1. States[i] = "open" /\ States'[i] = "finished"
    <3>0. rows'[i].status # rows[i].status
      BY <1>4 DEF States, ItemState
    <3>1. rows'[i].status \in {"processed", "delivered"}
      BY <1>2, <3>0
    <3>2. rows[i].status \in {"pending", "processing", "failed"}
      BY <1>4, <3>1, StateNow, StateNext, StoreEffect DEF Statuses
    <3>3. QED BY <3>1, <3>2, StateNow, StateNext
  <2>2. Queue!Move({i}, {"open"}, "finished")
    BY <1>1, <2>1, MoveTo
  <2>3. Queue!Finish(i)
    BY <2>2 DEF Queue!Finish
  <2>4. QED BY <2>3 DEF Queue!Next
<1>5. QED BY <1>3, <1>4

\* Work is done, on a row that is there, and deliveries may come of it (EnqueueWebhooks,
\* PostAccepted, DetachedDispatch).
LEMMA WorkDone ==
    ASSUME rows \in [Items -> Row], rows' \in [Items -> Row], done \in [Items -> Nat],
           NEW i \in Items, NEW D \in SUBSET Items,
           rows[i].status # "absent",
           rows[i].status \in {"processed", "delivered"} => i \in contended,
           \A d \in D : rows[d].status = "absent" /\ rows'[d].status = "pending",
           \A j \in Items \ D : rows'[j] = rows[j],
           done' = [done EXCEPT ![i] = @ + 1], contended' = contended
    PROVE  [Queue!Next]_(Queue!vars)
<1>1. Queue!Move(D, {"none"}, "open")
  <2>1. \A d \in D : States[d] \in {"none"} /\ States'[d] = "open"
    BY StateNow, StateNext
  <2>2. \A j \in Items \ D : States'[j] = States[j]
    BY DEF States, ItemState
  <2>3. QED BY <2>1, <2>2, MoveTo
<1>2. States[i] \in {"open", "withdrawn"} \/ (States[i] = "finished" /\ i \in contended)
  BY StateNow DEF Statuses
<1>3. Queue!Perform(i, D)
  BY <1>1, <1>2 DEF Queue!Perform, States
<1>4. QED BY <1>3 DEF Queue!Next

\* Rows stop being exclusive (ClaimRolledBack, LeaseOverrun).
LEMMA Shared ==
    ASSUME rows \in [Items -> Row], NEW S \in SUBSET Items,
           \A i \in S : rows[i].status # "absent",
           rows' = rows, contended' = contended \cup S, done' = done
    PROVE  [Queue!Next]_(Queue!vars)
<1>1. \A i \in S : States[i] # "none"
  BY StateNow
<1>2. States' = States
  BY DEF States, ItemState
<1>3. Queue!Share(S)
  BY <1>1, <1>2 DEF Queue!Share, States
<1>4. QED BY <1>3 DEF Queue!Next

\* Work is done and nothing comes of it.
LEMMA AloneDone ==
    ASSUME rows \in [Items -> Row], done \in [Items -> Nat], NEW i \in Items,
           rows[i].status # "absent",
           rows[i].status \in {"processed", "delivered"} => i \in contended,
           rows' = rows, done' = [done EXCEPT ![i] = @ + 1], contended' = contended
    PROVE  [Queue!Next]_(Queue!vars)
<1>1. /\ {} \in SUBSET Items
      /\ \A d \in {} : rows[d].status = "absent" /\ rows'[d].status = "pending"
      /\ \A j \in Items \ {} : rows'[j] = rows[j]
  OBVIOUS
<1>2. QED BY <1>1, WorkDone

\* A row is inserted (EmitEvent, TestSubscription).
LEMMA Submitted ==
    ASSUME rows \in [Items -> Row], rows' \in [Items -> Row], NEW i \in Items,
           rows[i].status = "absent", rows'[i].status \in {"pending", "processing"},
           \A j \in Items \ {i} : rows'[j] = rows[j],
           UNCHANGED <<done, contended>>
    PROVE  [Queue!Next]_(Queue!vars)
<1>1. States[i] \in {"none"} /\ States'[i] = "open"
  BY StateNow, StateNext
<1>2. \A j \in Items \ {i} : States'[j] = States[j]
  BY DEF States, ItemState
<1>3. Queue!Submit({i})
  BY <1>1, <1>2, MoveTo DEF Queue!Submit
<1>4. QED BY <1>3 DEF Queue!Next

\* Every step of the outbox is a step of the queue, or none.
LEMMA QueueStep ==
    ASSUME Shape, Shape', HeldIsClaimed, AboutToFinish, ContendedExist, [Next]_vars
    PROVE  [Queue!Next]_(Queue!vars)
<1>a. /\ rows \in [Items -> Row] /\ rows' \in [Items -> Row]
      /\ done \in [Items -> Nat] /\ copy \in [Actors -> Row]
  BY DEF Shape, TypeOK
<1>b. \A a \in Actors : cur[a] \in Items =>
          /\ rows[cur[a]].status # "absent"
          /\ rows[cur[a]].status \in {"processed", "delivered"} => cur[a] \in contended
  <2> SUFFICES ASSUME NEW a \in Actors, cur[a] \in Items
               PROVE  /\ rows[cur[a]].status # "absent"
                      /\ rows[cur[a]].status \in {"processed", "delivered"} => cur[a] \in contended
      OBVIOUS
  <2>1. cur[a] \in Held(a)
    BY ConstantsAssumption DEF Held
  <2>2. CASE cur[a] \in contended
    BY <2>2 DEF ContendedExist
  <2>3. CASE cur[a] \notin contended
    BY <2>1, <2>3 DEF HeldIsClaimed
  <2>4. QED BY <2>2, <2>3
<1>c. rows' = rows /\ done' = done /\ contended' = contended => [Queue!Next]_(Queue!vars)
  BY <1>a, Stutter DEF States, ItemState
<1>d. \A a \in Actors : pc[a] \in {"bump", "run", "mark", "giveup", "check", "send", "ok", "closed"}
                           => cur[a] \in Items
  BY DEF Shape, InHand, Items
<1>1. ASSUME NEW e \in Events, EmitEvent(e)
     PROVE  [Queue!Next]_(Queue!vars)
  <2>1. /\ rows[e].status = "absent" /\ rows'[e].status = "pending" /\ e \in Items
        /\ \A j \in Items \ {e} : rows'[j] = rows[j]
        /\ UNCHANGED <<done, contended>>
    BY <1>1, <1>a DEF EmitEvent, NewRow, Items, history
  <2>2. QED BY <2>1, <1>a, Submitted
<1>2. ASSUME NEW s \in Subs, UpdateSubscription(s)
     PROVE  [Queue!Next]_(Queue!vars)
  BY <1>2, <1>c DEF UpdateSubscription, history
<1>3. ASSUME NEW s \in Subs, DeleteSubscription(s)
     PROVE  [Queue!Next]_(Queue!vars)
  <2> DEFINE gone == {d \in Deliveries : SubOf[d] = s /\ rows[d].status # "absent"}
  <2>1. /\ \A d \in gone : rows[d].status # "absent" /\ rows'[d].status = "deleted"
        /\ \A j \in Items \ gone : rows'[j] = rows[j]
        /\ gone \in SUBSET Items
        /\ UNCHANGED <<done, contended>>
    BY <1>3, <1>a DEF DeleteSubscription, Absent, Items, history
  <2>. HIDE DEF gone
  <2>2. \A d \in gone : States[d] \in {"open", "finished", "withdrawn"} /\ States'[d] = "withdrawn"
    BY <2>1, <1>a, StateNow, StateNext DEF Statuses
  <2>3. \A j \in Items \ gone : States'[j] = States[j]
    BY <2>1 DEF States, ItemState
  <2>4. Queue!Withdraw(gone)
    BY <2>1, <2>2, <2>3, MoveTo DEF Queue!Withdraw
  <2>5. QED BY <2>1, <2>4 DEF Queue!Next
<1>4. ASSUME NEW t \in Tasks, NEW d \in Deliveries, TestSubscription(t, d)
     PROVE  [Queue!Next]_(Queue!vars)
  <2>1. /\ rows[d].status = "absent" /\ d \in Items
        /\ rows' = [rows EXCEPT ![d] = NewRow("processing", "null")]
        /\ UNCHANGED <<done, contended>>
    BY <1>4 DEF TestSubscription, Items, history
  <2>2. rows'[d].status = "processing" /\ \A j \in Items \ {d} : rows'[j] = rows[j]
    BY <2>1, <1>a DEF NewRow
  <2>3. QED BY <2>1, <2>2, <1>a, Submitted
<1>5. ASSUME NEW t \in Tasks, DetachedDispatch(t)
     PROVE  [Queue!Next]_(Queue!vars)
  <2>1. t \in Actors /\ cur[t] \in Items
    BY <1>5, <1>d DEF DetachedDispatch, Actors
  <2>2. /\ rows' = rows /\ contended' = contended
        /\ done' = done \/ done' = [done EXCEPT ![cur[t]] = @ + 1]
    <3>1. PICK answered \in {0, 1} : done' = [done EXCEPT ![cur[t]] = @ + answered]
      BY <1>5 DEF DetachedDispatch
    <3>2. CASE answered = 0
      BY <1>5, <2>1, <3>1, <3>2, <1>a DEF DetachedDispatch, tables
    <3>3. CASE answered = 1
      BY <1>5, <3>1, <3>3 DEF DetachedDispatch, tables
    <3>4. QED BY <3>2, <3>3
  <2>3. CASE done' = done
    BY <2>2, <2>3, <1>c
  <2>4. CASE done' = [done EXCEPT ![cur[t]] = @ + 1]
    BY <2>1, <2>2, <2>4, <1>a, <1>b, AloneDone
  <2>5. QED BY <2>2, <2>3, <2>4
<1>6. ASSUME NEW w \in Workers, Start(w)
     PROVE  [Queue!Next]_(Queue!vars)
  BY <1>6, <1>c DEF Start, tables, history
<1>7. ASSUME NEW w \in Workers, Claim(w)
     PROVE  [Queue!Next]_(Queue!vars)
  <2>1. PICK E \in Batches(Events), D \in Batches(Deliveries) :
          rows' = [i \in Items |-> IF i \in E \cup D
                                    THEN [rows[i] EXCEPT !.status = "processing"]
                                    ELSE rows[i]]
    BY <1>7 DEF Claim
  <2>2. \A i \in E \cup D : Claimable(i)
    BY BatchesClaimable
  <2>3. \A i \in Items : States'[i] = States[i]
    <3> SUFFICES ASSUME NEW i \in Items PROVE States'[i] = States[i]
        OBVIOUS
    <3>1. CASE i \in E \cup D
      <4>1. rows[i].status \in {"pending", "processing", "failed"}
        BY <2>2, <3>1 DEF Claimable
      <4>2. rows'[i].status = "processing"
        BY <2>1, <3>1, <1>a DEF Row
      <4>3. QED BY <4>1, <4>2, <1>a, StateNow, StateNext
    <3>2. CASE i \notin E \cup D
      BY <2>1, <3>2 DEF States, ItemState
    <3>3. QED BY <3>1, <3>2
  <2>4. UNCHANGED <<done, contended>>
    BY <1>7 DEF Claim
  <2>5. QED BY <2>3, <2>4, <1>a, Stutter
<1>8. ASSUME NEW w \in Workers, Leave(w)
     PROVE  [Queue!Next]_(Queue!vars)
  BY <1>8, <1>c DEF Leave, tables, history
<1>9. ASSUME NEW w \in Workers, LoadEvent(w)
     PROVE  [Queue!Next]_(Queue!vars)
  BY <1>9, <1>c DEF LoadEvent, tables, history
<1>10. ASSUME NEW w \in Workers, CountEventAttempt(w)
     PROVE  [Queue!Next]_(Queue!vars)
  <2>1. /\ w \in Actors /\ cur[w] \in Items
        /\ Store(cur[w], [rows[cur[w]] EXCEPT !.attempts = copy[w].attempts + 1])
        /\ UNCHANGED <<done, contended>>
    BY <1>10, <1>d DEF CountEventAttempt, history, Actors
  <2>2. copy[w].attempts + 1 \in Nat
    BY <2>1, <1>a DEF Row
  <2>3. \A j \in Items : rows'[j].status = rows[j].status
    BY <2>1, <2>2, <1>a, AttemptsStore
  <2>4. \A j \in Items : States'[j] = States[j]
    BY <2>3 DEF States, ItemState
  <2>5. QED BY <2>1, <2>4, <1>a, Stutter
<1>11. ASSUME NEW w \in Workers, EnqueueWebhooks(w)
     PROVE  [Queue!Next]_(Queue!vars)
  <2>1. w \in Actors /\ cur[w] \in Items
    BY <1>11, <1>d DEF EnqueueWebhooks, Actors
  <2>2. PICK D \in SUBSET {d \in Deliveries : rows[d].status = "absent"} :
          rows' = [i \in Items |-> IF i \in D THEN NewRow("pending", "null") ELSE rows[i]]
    BY <1>11 DEF EnqueueWebhooks
  <2>3. /\ D \in SUBSET Items
        /\ \A d \in D : rows[d].status = "absent" /\ rows'[d].status = "pending"
        /\ \A j \in Items \ D : rows'[j] = rows[j]
    BY <2>2 DEF NewRow, Items
  <2>4. done' = [done EXCEPT ![cur[w]] = @ + 1] /\ contended' = contended
    BY <1>11 DEF EnqueueWebhooks
  <2>5. QED BY <2>1, <2>3, <2>4, <1>a, <1>b, WorkDone
<1>12. ASSUME NEW w \in Workers, MarkProcessed(w)
     PROVE  [Queue!Next]_(Queue!vars)
  <2> DEFINE i == cur[w]
  <2> DEFINE r == [rows[i] EXCEPT !.status = Column(copy[w].status, @, "processed")]
  <2>1. /\ w \in Actors /\ i \in Items /\ Store(i, r)
        /\ UNCHANGED <<done, contended>>
        /\ done[i] >= 1
    BY <1>12, <1>d DEF MarkProcessed, history, Actors, AboutToFinish
  <2>2. rows[i] \in Row
    BY <2>1, <1>a
  <2>3. r.status \in {rows[i].status, "processed", "delivered"}
    BY <2>2 DEF Row, Column
  <2>4. /\ rows[i].status # "absent"
        /\ rows[i].status \in {"processed", "delivered"} => i \in contended
    BY <2>1, <1>b
  <2>. HIDE DEF r, i
  <2>5. QED BY <2>1, <2>3, <2>4, <1>a, SuccessWritten
<1>13. ASSUME NEW w \in Workers, HandlerRaises(w)
     PROVE  [Queue!Next]_(Queue!vars)
  BY <1>13, <1>c DEF HandlerRaises, tables, history
<1>14. ASSUME NEW w \in Workers, RecordFailure(w)
     PROVE  [Queue!Next]_(Queue!vars)
  <2> DEFINE i == cur[w]
  <2> DEFINE r == [rows[i] EXCEPT
                     !.status = Column(copy[w].status, @, "failed"),
                     !.retry  = IF copy[w].attempts < MaxAttempts THEN "later"
                                ELSE Column(copy[w].retry, @, "null")]
  <2>1. /\ w \in Actors /\ i \in Items /\ Store(i, r)
        /\ UNCHANGED <<done, contended>>
    BY <1>14, <1>d DEF RecordFailure, history, Actors
  <2>2. rows[i] \in Row
    BY <2>1, <1>a
  <2>3. r.status \in {rows[i].status, "failed"}
    BY <2>2 DEF Row, Column
  <2>4. /\ rows[i].status # "absent"
        /\ rows[i].status \in {"processed", "delivered"} => i \in contended
    BY <2>1, <1>b
  <2>. HIDE DEF r, i
  <2>5. QED BY <2>1, <2>3, <2>4, <1>a, FailureWritten
<1>15. ASSUME NEW w \in Workers, LoadDelivery(w)
     PROVE  [Queue!Next]_(Queue!vars)
  BY <1>15, <1>c DEF LoadDelivery, tables, history
<1>16. ASSUME NEW a \in Actors, RefuseDelivery(a)
     PROVE  [Queue!Next]_(Queue!vars)
  <2> DEFINE i == cur[a]
  <2> DEFINE r == [rows[i] EXCEPT !.status = Column(copy[a].status, @, "failed")]
  <2>1. /\ a \in Actors /\ i \in Items /\ Store(i, r)
        /\ UNCHANGED <<done, contended>>
    BY <1>16, <1>d DEF RefuseDelivery, history, Actors
  <2>2. rows[i] \in Row
    BY <2>1, <1>a
  <2>3. r.status \in {rows[i].status, "failed"}
    BY <2>2 DEF Row, Column
  <2>4. /\ rows[i].status # "absent"
        /\ rows[i].status \in {"processed", "delivered"} => i \in contended
    BY <2>1, <1>b
  <2>. HIDE DEF r, i
  <2>5. QED BY <2>1, <2>3, <2>4, <1>a, FailureWritten
<1>17. ASSUME NEW a \in Actors, CountDeliveryAttempt(a)
     PROVE  [Queue!Next]_(Queue!vars)
  <2>1. /\ a \in Actors /\ cur[a] \in Items
        /\ Store(cur[a], [rows[cur[a]] EXCEPT !.attempts = copy[a].attempts + 1])
        /\ UNCHANGED <<done, contended>>
    BY <1>17, <1>d DEF CountDeliveryAttempt, history, Actors
  <2>2. copy[a].attempts + 1 \in Nat
    BY <2>1, <1>a DEF Row
  <2>3. \A j \in Items : rows'[j].status = rows[j].status
    BY <2>1, <2>2, <1>a, AttemptsStore
  <2>4. \A j \in Items : States'[j] = States[j]
    BY <2>3 DEF States, ItemState
  <2>5. QED BY <2>1, <2>4, <1>a, Stutter
<1>18. ASSUME NEW a \in Actors, PostAccepted(a)
     PROVE  [Queue!Next]_(Queue!vars)
  <2>1. cur[a] \in Items
    BY <1>18, <1>d DEF PostAccepted
  <2>2. rows' = rows /\ contended' = contended /\ done' = [done EXCEPT ![cur[a]] = @ + 1]
    BY <1>18 DEF PostAccepted, tables
  <2>3. QED BY <2>1, <2>2, <1>a, <1>b, AloneDone
<1>19. ASSUME NEW a \in Actors, SaveDelivered(a)
     PROVE  [Queue!Next]_(Queue!vars)
  <2> DEFINE i == cur[a]
  <2> DEFINE r == [rows[i] EXCEPT !.status = Column(copy[a].status, @, "delivered")]
  <2>1. /\ a \in Actors /\ i \in Items /\ Store(i, r)
        /\ UNCHANGED <<done, contended>>
        /\ done[i] >= 1
    BY <1>19, <1>d DEF SaveDelivered, history, Actors, AboutToFinish
  <2>2. rows[i] \in Row
    BY <2>1, <1>a
  <2>3. r.status \in {rows[i].status, "processed", "delivered"}
    BY <2>2 DEF Row, Column
  <2>4. /\ rows[i].status # "absent"
        /\ rows[i].status \in {"processed", "delivered"} => i \in contended
    BY <2>1, <1>b
  <2>. HIDE DEF r, i
  <2>5. QED BY <2>1, <2>3, <2>4, <1>a, SuccessWritten
<1>20. ASSUME NEW a \in Actors, PostRejected(a)
     PROVE  [Queue!Next]_(Queue!vars)
  <2> DEFINE i == cur[a]
  <2> DEFINE r == [rows[i] EXCEPT
                     !.status = Column(copy[a].status, @, "failed"),
                     !.retry  = IF copy[a].attempts < AttemptLimit(a) THEN "later"
                                ELSE Column(copy[a].retry, @, "null")]
  <2>1. /\ a \in Actors /\ i \in Items /\ Store(i, r)
        /\ UNCHANGED <<done, contended>>
    BY <1>20, <1>d DEF PostRejected, history, Actors
  <2>2. rows[i] \in Row
    BY <2>1, <1>a
  <2>3. r.status \in {rows[i].status, "failed"}
    BY <2>2 DEF Row, Column
  <2>4. /\ rows[i].status # "absent"
        /\ rows[i].status \in {"processed", "delivered"} => i \in contended
    BY <2>1, <1>b
  <2>. HIDE DEF r, i
  <2>5. QED BY <2>1, <2>3, <2>4, <1>a, FailureWritten
<1>21. ASSUME NEW a \in Actors, DispatchRaises(a)
     PROVE  [Queue!Next]_(Queue!vars)
  <2> DEFINE i == cur[a]
  <2> DEFINE r == [rows[i] EXCEPT !.status = Column(copy[a].status, @, "failed")]
  <2>1. i \in Items /\ UNCHANGED <<done, contended>> /\ (Store(i, r) \/ rows' = rows)
    BY <1>21, <1>d DEF DispatchRaises, history
  <2>2. r.status \in {rows[i].status, "failed"}
    BY <2>1, <1>a DEF Row, Column
  <2>3. /\ rows[i].status # "absent"
        /\ rows[i].status \in {"processed", "delivered"} => i \in contended
    BY <2>1, <1>b
  <2>. HIDE DEF r, i
  <2>4. CASE Store(i, r)
    BY <2>1, <2>2, <2>3, <2>4, <1>a, FailureWritten
  <2>5. QED BY <2>1, <2>4, <1>c
<1>22. ASSUME NEW w \in Workers, ClaimRolledBack(w)
     PROVE  [Queue!Next]_(Queue!vars)
  <2>1. PICK E \in Batches(Events), D \in Batches(Deliveries) \cup {{}} :
          contended' = contended \cup E \cup D
    BY <1>22 DEF ClaimRolledBack
  <2>2. E \subseteq Items /\ D \subseteq Items /\ \A i \in E \cup D : Claimable(i)
    BY BatchesClaimable DEF Items
  <2>3. \A i \in E \cup D : rows[i].status # "absent"
    BY <2>2 DEF Claimable
  <2>4. rows' = rows /\ done' = done /\ contended' = contended \cup (E \cup D)
    BY <1>22, <2>1 DEF ClaimRolledBack, tables
  <2>5. QED BY <2>2, <2>3, <2>4, <1>a, Shared
<1>23. ASSUME NEW w \in Workers, Stop(w)
     PROVE  [Queue!Next]_(Queue!vars)
  BY <1>23, <1>c DEF Stop, tables, history
<1>24. ASSUME NEW w \in Workers, EventCommitFails(w)
     PROVE  [Queue!Next]_(Queue!vars)
  BY <1>24, <1>c DEF EventCommitFails, tables
<1>25. ASSUME NEW w \in Workers, FailureNotSaved(w)
     PROVE  [Queue!Next]_(Queue!vars)
  BY <1>25, <1>c DEF FailureNotSaved, tables, history
<1>26. ASSUME NEW a \in Actors, Crash(a)
     PROVE  [Queue!Next]_(Queue!vars)
  BY <1>26, <1>c DEF Crash, tables, history
<1>27. ASSUME NEW a \in Actors, DeliveryCommitFails(a)
     PROVE  [Queue!Next]_(Queue!vars)
  BY <1>27, <1>c DEF DeliveryCommitFails, tables, history
<1>28. ASSUME NEW j \in Items, LeaseExpires(j)
     PROVE  [Queue!Next]_(Queue!vars)
  BY <1>28, <1>c DEF LeaseExpires, history
<1>29. ASSUME NEW j \in Items, LeaseOverrun(j)
     PROVE  [Queue!Next]_(Queue!vars)
  <2>1. rows[j].status # "absent" /\ rows' = rows /\ done' = done /\ contended' = contended \cup {j}
    BY <1>29 DEF LeaseOverrun
  <2>2. {j} \in SUBSET Items /\ \A i \in {j} : rows[i].status # "absent"
    BY <2>1
  <2>3. QED BY <2>1, <2>2, <1>a, Shared
<1>30. ASSUME NEW j \in Items, RetryDue(j)
     PROVE  [Queue!Next]_(Queue!vars)
  <2>1. \A i \in Items : rows'[i].status = rows[i].status
    BY <1>30, <1>a DEF RetryDue, Row
  <2>2. \A i \in Items : States'[i] = States[i]
    BY <2>1 DEF States, ItemState
  <2>3. QED BY <1>30, <2>2, <1>a, Stutter DEF RetryDue, history
<1>31. CASE UNCHANGED vars
  <2>1. rows' = rows /\ done' = done /\ contended' = contended
    BY <1>31 DEF vars, tables, history
  <2>2. QED BY <2>1, <1>c
<1>. QED
  BY <1>1, <1>2, <1>3, <1>4, <1>5, <1>6, <1>7, <1>8, <1>9, <1>10, <1>11, <1>12,
     <1>13, <1>14, <1>15, <1>16, <1>17, <1>18, <1>19, <1>20, <1>21, <1>22, <1>23, <1>24,
     <1>25, <1>26, <1>27, <1>28, <1>29, <1>30, <1>31
  DEF Next, ApiStep, WorkerStep, EventStep, DispatchStep, FaultStep, TaskStep, TimeStep, Actors

\* The queue never forgets an item, and only items that are there become shared.
LEMMA ContendedStep ==
    ASSUME rows \in [Items -> Row], rows' \in [Items -> Row], contended \in SUBSET Items,
           contended' \in SUBSET Items, ContendedExist, [Queue!Next]_(Queue!vars)
    PROVE  ContendedExist'
<1>1. \A i \in Items : States[i] # "none" => States'[i] # "none"
  BY DEF States, Queue!Next, Queue!Submit, Queue!Withdraw, Queue!Share, Queue!Perform,
         Queue!Finish, Queue!Reopen, Queue!Move, Queue!vars
<1>2. \A i \in contended' \ contended : States[i] # "none"
  BY DEF States, Queue!Next, Queue!Submit, Queue!Withdraw, Queue!Share, Queue!Perform,
         Queue!Finish, Queue!Reopen, Queue!Move, Queue!vars
<1>3. QED BY <1>1, <1>2, StateNow, StateNext DEF ContendedExist

\* The outbox (jobs/outbox_worker.py, core/webhook_dispatcher.py) is an at-least-once
\* queue, for any number of events, deliveries, workers, tasks and faults.
THEOREM Refinement == Spec => ImplementsQueue
<1>1. Init => Queue!Init /\ ContendedExist
  <2> SUFFICES ASSUME Init PROVE Queue!Init /\ ContendedExist
      OBVIOUS
  <2>1. \A i \in Items : ItemState(i) = "none"
    BY DEF Init, ItemState, Absent
  <2>2. QED BY <2>1 DEF Init, Queue!Init, ContendedExist
<1>2. IInv /\ IInv' /\ ContendedExist /\ [Next]_vars => [Queue!Next]_(Queue!vars)
  BY QueueStep DEF IInv, Shape
<1>3. IInv /\ IInv' /\ ContendedExist /\ [Next]_vars => ContendedExist'
  BY <1>2, ContendedStep DEF IInv, TypeOK
<1>4. QED BY <1>1, <1>2, <1>3, Inductive, PTL DEF Spec, ImplementsQueue, Queue!Spec

-----------------------------------------------------------------------------
(* How often work is done *)

Doers(i) == {a \in Actors : MayDo(a, i)}

WorkOf(i) ==
    /\ IsFiniteSet(Doers(i))
    /\ done[i] + Cardinality(Doers(i)) + (IF Unclaimed(i) THEN 1 ELSE 0) <= 1 + repeats[i]

\* What item i costs, as far as a is concerned.
Weight(a, i) ==
    done[i] + (IF MayDo(a, i) THEN 1 ELSE 0) + (IF Unclaimed(i) THEN 1 ELSE 0)

\* A set and the same set with or without one element: one of them is bigger by that.
LEMMA OneElement ==
    ASSUME NEW S, IsFiniteSet(S), NEW T, NEW a, S \ {a} = T \ {a}
    PROVE  /\ IsFiniteSet(T) /\ Cardinality(S) \in Nat /\ Cardinality(T) \in Nat
           /\ Cardinality(T) + (IF a \in S THEN 1 ELSE 0) =
                  Cardinality(S) + (IF a \in T THEN 1 ELSE 0)
<1> DEFINE R == S \ {a}
<1>1. IsFiniteSet(R) /\ a \notin R /\ Cardinality(R) \in Nat
  BY FS_RemoveElement, FS_CardinalityType
<1>2. IsFiniteSet(R \cup {a}) /\ Cardinality(R \cup {a}) = Cardinality(R) + 1
  BY <1>1, FS_AddElement
<1>3. (a \in S => S = R \cup {a}) /\ (a \notin S => S = R)
  OBVIOUS
<1>4. (a \in T => T = R \cup {a}) /\ (a \notin T => T = R)
  OBVIOUS
<1> HIDE DEF R
<1>5. Cardinality(S) = Cardinality(R) + (IF a \in S THEN 1 ELSE 0)
  <2>1. CASE a \in S
    BY <1>2, <1>3, <2>1
  <2>2. CASE a \notin S
    BY <1>1, <1>3, <2>2
  <2>3. QED BY <2>1, <2>2
<1>6. Cardinality(T) = Cardinality(R) + (IF a \in T THEN 1 ELSE 0) /\ IsFiniteSet(T)
  <2>1. CASE a \in T
    BY <1>2, <1>4, <2>1
  <2>2. CASE a \notin T
    BY <1>1, <1>4, <2>2
  <2>3. QED BY <2>1, <2>2
<1>7. QED BY <1>1, <1>5, <1>6

\* A step of a, after which item i costs no more than before, or the repeats pay for it.
LEMMA Paid ==
    ASSUME TypeOK, TypeOK', NEW i \in Items, WorkOf(i), NEW a \in Actors,
           \A b \in Actors \ {a} : MayDo(b, i)' <=> MayDo(b, i),
           Weight(a, i)' + repeats[i] <= Weight(a, i) + repeats'[i]
    PROVE  WorkOf(i)'
<1>1. Doers(i) \ {a} = Doers(i)' \ {a}
  BY DEF Doers
<1>2. (a \in Doers(i) <=> MayDo(a, i)) /\ (a \in Doers(i)' <=> MayDo(a, i)')
  BY DEF Doers
<1>3. /\ IsFiniteSet(Doers(i)') /\ Cardinality(Doers(i)) \in Nat
      /\ Cardinality(Doers(i)') \in Nat
      /\ Cardinality(Doers(i)') + (IF MayDo(a, i) THEN 1 ELSE 0) =
             Cardinality(Doers(i)) + (IF MayDo(a, i)' THEN 1 ELSE 0)
  <2>1. IsFiniteSet(Doers(i))
    BY DEF WorkOf
  <2>2. QED BY <1>1, <1>2, <2>1, OneElement
<1>4. done[i] \in Nat /\ repeats[i] \in Nat /\ done'[i] \in Nat /\ repeats'[i] \in Nat
  BY DEF TypeOK
<1>5. done[i] + Cardinality(Doers(i)) + (IF Unclaimed(i) THEN 1 ELSE 0) <= 1 + repeats[i]
  BY DEF WorkOf
<1> DEFINE c  == Cardinality(Doers(i))
           c2 == Cardinality(Doers(i)')
           m  == IF MayDo(a, i) THEN 1 ELSE 0
           m2 == IF MayDo(a, i)' THEN 1 ELSE 0
           u  == IF Unclaimed(i) THEN 1 ELSE 0
           u2 == IF Unclaimed(i)' THEN 1 ELSE 0
<1>6. m \in 0..1 /\ m2 \in 0..1 /\ u \in 0..1 /\ u2 \in 0..1
  OBVIOUS
<1>7. /\ c \in Nat /\ c2 \in Nat /\ c2 + m = c + m2
      /\ done[i] + c + u <= 1 + repeats[i]
      /\ done'[i] + m2 + u2 + repeats[i] <= done[i] + m + u + repeats'[i]
  BY <1>3, <1>5 DEF Weight
<1> HIDE DEF c, c2, m, m2, u, u2
<1>8. done'[i] + c2 + u2 <= 1 + repeats'[i]
  BY <1>4, <1>6, <1>7
<1>9. QED BY <1>3, <1>8 DEF WorkOf, c2, u2

\* A step that leaves the actors where they are, and no more rows to claim.
LEMMA NobodyMoves ==
    ASSUME NEW i \in Items, WorkOf(i), UNCHANGED <<pc, todo, cur, repeats, done>>,
           Unclaimed(i)' => Unclaimed(i), TypeOK
    PROVE  WorkOf(i)'
<1>1. Doers(i)' = Doers(i)
  BY DEF Doers, MayDo
<1>2. done[i] \in Nat /\ repeats[i] \in Nat
  BY DEF TypeOK
<1>3. Cardinality(Doers(i)) \in Nat
  BY FS_CardinalityType DEF WorkOf
<1>4. QED BY <1>1, <1>2, <1>3 DEF WorkOf

\* Where each kind of step takes the actor, the others staying where they are: it is
\* through with the row in hand (Finish) ...
LEMMA FinishMoves ==
    ASSUME TypeOK, InHand, NEW a \in Actors, Finish(a), NEW i \in Items
    PROVE  /\ \A b \in Actors \ {a} : /\ MayDo(b, i)' <=> MayDo(b, i)
                                      /\ MayCount(b, i)' <=> MayCount(b, i)
           /\ MayDo(a, i)' <=> i \in todo[a]
           /\ MayCount(a, i)' <=> i \in todo[a]
           /\ i = cur[a] => i \notin todo[a]
<1>1. /\ \A b \in Actors \ {a} : pc'[b] = pc[b] /\ cur'[b] = cur[b] /\ todo'[b] = todo[b]
      /\ cur'[a] = NoItem /\ todo'[a] = todo[a]
  BY DEF Finish, TypeOK
<1>2. i # NoItem /\ (i = cur[a] => i \notin todo[a])
  BY DEF InHand, ConstantsAssumption
<1>3. QED BY <1>1, <1>2 DEF MayDo, MayCount

\* ... it goes on with it (Goto) ...
LEMMA GotoMoves ==
    ASSUME TypeOK, NEW a \in Actors, NEW label, NEW loaded, Goto(a, label, loaded),
           NEW i \in Items
    PROVE  /\ \A b \in Actors \ {a} : /\ MayDo(b, i)' <=> MayDo(b, i)
                                      /\ MayCount(b, i)' <=> MayCount(b, i)
           /\ MayDo(a, i)' <=> i \in todo[a] \/ (cur[a] = i /\ label \notin {"mark", "ok"})
           /\ MayCount(a, i)' <=> i \in todo[a] \/ (cur[a] = i /\ label \in {"bump", "check"})
<1>1. /\ \A b \in Actors \ {a} : pc'[b] = pc[b]
      /\ pc'[a] = label /\ cur' = cur /\ todo' = todo
  BY DEF Goto, TypeOK
<1>2. QED BY <1>1 DEF MayDo, MayCount

\* ... it takes the next one up (TakeUp) ...
LEMMA TakeUpMoves ==
    ASSUME TypeOK, InHand, NEW w \in Workers, pc[w] = "work", NEW j \in todo[w],
           NEW label \in {"bump", "check"}, TakeUp(w, j, label), NEW i \in Items
    PROVE  /\ \A b \in Actors \ {w} : /\ MayDo(b, i)' <=> MayDo(b, i)
                                      /\ MayCount(b, i)' <=> MayCount(b, i)
           /\ (MayDo(w, i) <=> i \in todo[w]) /\ (MayDo(w, i)' <=> i \in todo[w])
           /\ (MayCount(w, i) <=> i \in todo[w]) /\ (MayCount(w, i)' <=> i \in todo[w])
<1>1. w \in Actors /\ cur[w] = NoItem /\ i # NoItem
  BY DEF InHand, Actors, ConstantsAssumption
<1>2. /\ \A b \in Actors \ {w} : pc'[b] = pc[b] /\ cur'[b] = cur[b] /\ todo'[b] = todo[b]
      /\ pc'[w] = label /\ cur'[w] = j /\ todo'[w] = todo[w] \ {j}
  BY <1>1 DEF TakeUp, TypeOK
<1>3. QED BY <1>1, <1>2 DEF MayDo, MayCount

\* ... it polls, with nothing in hand (Claim, ClaimRolledBack).
LEMMA PollMoves ==
    ASSUME TypeOK, InHand, NEW w \in Workers, pc[w] = "poll", NEW B,
           todo' = [todo EXCEPT ![w] = B], pc' = [pc EXCEPT ![w] = "work"], cur' = cur,
           NEW i \in Items
    PROVE  /\ \A b \in Actors \ {w} : /\ MayDo(b, i)' <=> MayDo(b, i)
                                      /\ MayCount(b, i)' <=> MayCount(b, i)
           /\ ~MayDo(w, i) /\ (MayDo(w, i)' <=> i \in B)
           /\ ~MayCount(w, i) /\ (MayCount(w, i)' <=> i \in B)
<1>1. w \in Actors /\ cur[w] = NoItem /\ todo[w] = {} /\ i # NoItem
  BY DEF InHand, Actors, ConstantsAssumption
<1>2. /\ \A b \in Actors \ {w} : pc'[b] = pc[b] /\ todo'[b] = todo[b]
      /\ todo'[w] = B
  BY <1>1 DEF TypeOK
<1>3. QED BY <1>1, <1>2 DEF MayDo, MayCount

\* A row in hand is an item.
LEMMA InHandIsItem ==
    ASSUME TypeOK, InHand, NEW a \in Actors, pc[a] \notin {"off", "poll", "work"}
    PROVE  cur[a] \in Items /\ cur[a] \notin todo[a]
BY DEF TypeOK, InHand

\* An outcome is stored where the row still is: the status of one row is written, the
\* attempts of none (Store after MarkProcessed, RecordFailure and others).
LEMMA OutcomeStore ==
    ASSUME TypeOK, NEW j \in Items, NEW r,
           r.attempts = rows[j].attempts, Store(j, r) \/ UNCHANGED <<rows, aged>>,
           NEW i \in Items
    PROVE  /\ rows'[i].attempts = rows[i].attempts
           /\ i # j \/ rows[i].status = "deleted" => rows'[i].status = rows[i].status
           /\ rows'[i].status \in {rows[i].status, r.status}
BY DEF Store, TypeOK

\* What was done, may be done and may be claimed costs no more than the repeats allow:
\* a step hands the work on, or a repeat is counted.
LEMMA WorkStep ==
    IInv /\ WorkCounted /\ [Next]_vars => WorkCounted'
<1> SUFFICES ASSUME IInv, WorkCounted, [Next]_vars, NEW i \in Items
             PROVE  WorkOf(i)'
    BY DEF WorkCounted, WorkOf, Doers
<1>a. TypeOK /\ InHand /\ AgedIsClaimed /\ TypeOK' /\ WorkOf(i)
  BY ShapeStep DEF IInv, Shape, WorkCounted, WorkOf, Doers
<1>b. /\ done[i] \in Nat /\ repeats[i] \in Nat /\ Workers \subseteq Actors
      /\ Tasks \subseteq Actors /\ Events \subseteq Items /\ Deliveries \subseteq Items
      /\ rows \in [Items -> Row] /\ done \in [Items -> Nat] /\ repeats \in [Items -> Nat]
  BY <1>a DEF TypeOK, Actors, Items
<1>1. ASSUME NEW e \in Events, EmitEvent(e) PROVE WorkOf(i)'
  <2>1. Unclaimed(i)' => Unclaimed(i)
    BY <1>b, <1>1 DEF EmitEvent, Unclaimed
  <2>2. QED BY <1>a, <1>1, <2>1, NobodyMoves DEF EmitEvent, actors, history
<1>2. ASSUME NEW s \in Subs, UpdateSubscription(s) PROVE WorkOf(i)'
  BY <1>a, <1>2, NobodyMoves DEF UpdateSubscription, actors, history, Unclaimed
<1>3. ASSUME NEW s \in Subs, DeleteSubscription(s) PROVE WorkOf(i)'
  <2>1. rows'[i].status = "deleted" \/ rows'[i] = rows[i]
    BY <1>3 DEF DeleteSubscription, Absent
  <2>2. QED BY <1>a, <1>3, <2>1, NobodyMoves DEF DeleteSubscription, actors, history, Unclaimed
<1>4. ASSUME NEW t \in Tasks, NEW d \in Deliveries, TestSubscription(t, d) 
      PROVE WorkOf(i)'
  <2>1. /\ t \in Actors /\ cur[t] = NoItem /\ todo[t] = {} /\ i # NoItem
    BY <1>a, <1>b, <1>4 DEF TestSubscription, InHand, ConstantsAssumption
  <2>2. /\ \A b \in Actors \ {t} : pc'[b] = pc[b] /\ cur'[b] = cur[b] /\ todo'[b] = todo[b]
        /\ cur'[t] = d /\ todo'[t] = {} /\ done' = done /\ repeats' = repeats
        /\ rows' = [rows EXCEPT ![d] = NewRow("processing", "null")]
        /\ rows[d].status = "absent"
    BY <1>a, <1>4, <2>1 DEF TestSubscription, TypeOK, history
  <2>3. \A b \in Actors \ {t} : MayDo(b, i)' <=> MayDo(b, i)
    BY <2>2 DEF MayDo
  <2>4. /\ ~MayDo(t, i) /\ (MayDo(t, i)' => i = d)
        /\ IF i = d THEN Unclaimed(i) /\ ~Unclaimed(i)' ELSE Unclaimed(i)' <=> Unclaimed(i)
    BY <1>b, <2>1, <2>2 DEF MayDo, Unclaimed, NewRow
  <2>5. Weight(t, i)' + repeats[i] <= Weight(t, i) + repeats'[i]
    BY <1>b, <2>2, <2>4 DEF Weight
  <2>6. QED BY <1>a, <2>1, <2>3, <2>5, Paid
<1>5. ASSUME NEW w \in Workers, Start(w) PROVE WorkOf(i)'
  <2>1. /\ w \in Actors /\ cur' = cur /\ todo' = todo /\ done' = done /\ repeats' = repeats
        /\ rows' = rows /\ cur[w] = NoItem /\ i # NoItem
        /\ \A b \in Actors \ {w} : pc'[b] = pc[b]
    BY <1>a, <1>b, <1>5 DEF Start, TypeOK, InHand, ConstantsAssumption, tables, history
  <2>2. \A b \in Actors : MayDo(b, i)' <=> MayDo(b, i)
    BY <2>1 DEF MayDo
  <2>3. Weight(w, i)' + repeats[i] <= Weight(w, i) + repeats'[i]
    BY <1>b, <2>1, <2>2 DEF Weight, Unclaimed
  <2>4. QED BY <1>a, <2>1, <2>2, <2>3, Paid
<1>6. ASSUME NEW w \in Workers, Claim(w) PROVE WorkOf(i)'
  <2>1. PICK E \in Batches(Events), D \in Batches(Deliveries) :
           /\ rows' = [k \in Items |-> IF k \in E \cup D
                                       THEN [rows[k] EXCEPT !.status = "processing"]
                                       ELSE rows[k]]
           /\ todo' = [todo EXCEPT ![w] = E \cup D]
           /\ repeats' = [k \in Items |-> IF k \in E \cup D /\ k \in aged
                                          THEN repeats[k] + 1 ELSE repeats[k]]
    BY <1>6 DEF Claim
  <2> DEFINE B == E \cup D
  <2>2. /\ i \in B => /\ Claimable(i) /\ rows'[i] = [rows[i] EXCEPT !.status = "processing"]
                      /\ repeats'[i] = IF i \in aged THEN repeats[i] + 1 ELSE repeats[i]
        /\ i \notin B => rows'[i] = rows[i] /\ repeats'[i] = repeats[i]
        /\ todo' = [todo EXCEPT ![w] = B]
    BY <2>1, BatchesClaimable
  <2> HIDE DEF B
  <2>3. /\ w \in Actors /\ \A b \in Actors \ {w} : MayDo(b, i)' <=> MayDo(b, i)
        /\ ~MayDo(w, i) /\ (MayDo(w, i)' <=> i \in B)
    BY <1>a, <1>b, <1>6, <2>2, PollMoves DEF Claim
  <2>4. /\ i \in B => ~Unclaimed(i)' /\ (Unclaimed(i) \/ i \in aged)
        /\ i \notin B => (Unclaimed(i)' <=> Unclaimed(i))
    BY <1>b, <2>2 DEF Unclaimed, Claimable, Row
  <2>5. done' = done
    BY <1>6 DEF Claim
  <2>6. Weight(w, i)' + repeats[i] <= Weight(w, i) + repeats'[i]
    BY <1>b, <2>2, <2>3, <2>4, <2>5 DEF Weight
  <2>7. QED BY <1>a, <2>3, <2>6, Paid
<1>7. ASSUME NEW w \in Workers, ClaimRolledBack(w) PROVE WorkOf(i)'
  <2>1. PICK B : /\ todo' = [todo EXCEPT ![w] = B]
                 /\ repeats' = [k \in Items |-> IF k \in B THEN repeats[k] + 1 ELSE repeats[k]]
    BY <1>7 DEF ClaimRolledBack
  <2>2. /\ w \in Actors /\ \A b \in Actors \ {w} : MayDo(b, i)' <=> MayDo(b, i)
        /\ ~MayDo(w, i) /\ (MayDo(w, i)' <=> i \in B)
    BY <1>a, <1>b, <1>7, <2>1, PollMoves DEF ClaimRolledBack
  <2>3. done' = done /\ rows' = rows
    BY <1>7 DEF ClaimRolledBack, tables
  <2>4. Weight(w, i)' + repeats[i] <= Weight(w, i) + repeats'[i]
    BY <1>b, <2>1, <2>2, <2>3 DEF Weight, Unclaimed
  <2>5. QED BY <1>a, <2>2, <2>4, Paid
<1>8. ASSUME NEW w \in Workers, Stop(w) PROVE WorkOf(i)'
  BY <1>a, <1>8, NobodyMoves DEF Stop, tables, history, Unclaimed
<1>9. ASSUME NEW w \in Workers, Leave(w) PROVE WorkOf(i)'
  <2>1. /\ w \in Actors /\ cur' = cur /\ done' = done /\ repeats' = repeats /\ rows' = rows
        /\ cur[w] = NoItem /\ i # NoItem /\ todo'[w] = {}
        /\ \A b \in Actors \ {w} : pc'[b] = pc[b] /\ todo'[b] = todo[b]
    BY <1>a, <1>b, <1>9 DEF Leave, TypeOK, InHand, ConstantsAssumption, tables, history
  <2>2. (\A b \in Actors \ {w} : MayDo(b, i)' <=> MayDo(b, i)) /\ ~MayDo(w, i)'
    BY <2>1 DEF MayDo
  <2>3. Weight(w, i)' + repeats[i] <= Weight(w, i) + repeats'[i]
    BY <1>b, <2>1, <2>2 DEF Weight, Unclaimed
  <2>4. QED BY <1>a, <2>1, <2>2, <2>3, Paid
<1>10. ASSUME NEW w \in Workers, LoadEvent(w) PROVE WorkOf(i)'
  <2>1. /\ w \in Actors /\ done' = done /\ repeats' = repeats /\ rows' = rows
        /\ pc[w] = "work"
    BY <1>b, <1>10 DEF LoadEvent, tables, history
  <2>2. PICK e \in todo[w] \cap Events : TakeUp(w, e, "bump")
    BY <1>10 DEF LoadEvent
  <2>3. (\A b \in Actors \ {w} : MayDo(b, i)' <=> MayDo(b, i)) /\ (MayDo(w, i)' <=> MayDo(w, i))
    BY <1>a, <2>1, <2>2, TakeUpMoves
  <2>4. Weight(w, i)' + repeats[i] <= Weight(w, i) + repeats'[i]
    BY <1>b, <2>1, <2>3 DEF Weight, Unclaimed
  <2>5. QED BY <1>a, <2>1, <2>3, <2>4, Paid
<1>11. ASSUME NEW w \in Workers, LoadDelivery(w) PROVE WorkOf(i)'
  <2>1. /\ w \in Actors /\ done' = done /\ repeats' = repeats /\ rows' = rows
        /\ pc[w] = "work"
    BY <1>b, <1>11 DEF LoadDelivery, tables, history
  <2>2. PICK d \in todo[w] :
          IF rows[d].status = "deleted"
          THEN /\ todo' = [todo EXCEPT ![w] = @ \ {d}]
               /\ pc' = [pc EXCEPT ![w] = IF todo[w] = {d} THEN "poll" ELSE "work"]
               /\ UNCHANGED <<running, cur, copy>>
          ELSE TakeUp(w, d, "check")
    BY <1>11 DEF LoadDelivery
  <2>3. (\A b \in Actors \ {w} : MayDo(b, i)' <=> MayDo(b, i)) /\ (MayDo(w, i)' => MayDo(w, i))
    <3>1. CASE rows[d].status = "deleted"
      <4>1. /\ cur[w] = NoItem /\ i # NoItem /\ cur' = cur
            /\ \A b \in Actors \ {w} : pc'[b] = pc[b] /\ todo'[b] = todo[b]
            /\ todo'[w] \subseteq todo[w]
        BY <1>a, <2>1, <2>2, <3>1 DEF TypeOK, InHand, ConstantsAssumption
      <4>2. QED BY <4>1 DEF MayDo
    <3>2. CASE rows[d].status # "deleted"
      BY <1>a, <2>1, <2>2, <3>2, TakeUpMoves
    <3>3. QED BY <3>1, <3>2
  <2>4. Weight(w, i)' + repeats[i] <= Weight(w, i) + repeats'[i]
    BY <1>b, <2>1, <2>3 DEF Weight, Unclaimed
  <2>5. QED BY <1>a, <2>1, <2>3, <2>4, Paid
<1>12. ASSUME NEW w \in Workers, CountEventAttempt(w) PROVE WorkOf(i)'
  <2> DEFINE n == copy[w].attempts + 1
  <2>1. /\ w \in Actors /\ cur[w] \in Items /\ n \in Nat
        /\ pc[w] \in {"bump", "check"}
    <3>1. w \in Actors /\ pc[w] \in {"bump", "check"}
      BY <1>b, <1>12 DEF CountEventAttempt
    <3>2. copy[w] \in Row
      BY <1>a, <3>1 DEF TypeOK
    <3>3. n \in Nat
      BY <3>2 DEF Row
    <3>4. QED BY <1>a, <3>1, <3>3, InHandIsItem
  <2>2. /\ Store(cur[w], [rows[cur[w]] EXCEPT !.attempts = n])
        /\ done' = done /\ repeats' = repeats
        /\ Goto(w, "run", [copy[w] EXCEPT !.attempts = n])
    BY <1>12 DEF CountEventAttempt, history
  <2> HIDE DEF n
  <2>3. rows'[i].status = rows[i].status
    BY <1>b, <2>1, <2>2, AttemptsStore
  <2>4. /\ \A b \in Actors \ {w} : MayDo(b, i)' <=> MayDo(b, i)
        /\ MayDo(w, i)' <=> i \in todo[w] \/ cur[w] = i
    BY <1>a, <2>1, <2>2, GotoMoves
  <2>5. MayDo(w, i) <=> i \in todo[w] \/ cur[w] = i
    BY <2>1 DEF MayDo
  <2>6. Weight(w, i)' + repeats[i] <= Weight(w, i) + repeats'[i]
    BY <1>b, <2>2, <2>3, <2>4, <2>5 DEF Weight, Unclaimed
  <2>7. QED BY <1>a, <2>1, <2>4, <2>6, Paid
<1>13. ASSUME NEW w \in Workers, EnqueueWebhooks(w) PROVE WorkOf(i)'
  <2>1. w \in Actors /\ cur[w] \in Items /\ cur[w] \notin todo[w]
    BY <1>a, <1>b, <1>13, InHandIsItem DEF EnqueueWebhooks
  <2>2. /\ done' = [done EXCEPT ![cur[w]] = @ + 1] /\ repeats' = repeats
        /\ Unclaimed(i)' <=> Unclaimed(i)
    BY <1>a, <1>b, <1>13, <2>1 DEF EnqueueWebhooks, Unclaimed, NewRow
  <2>3. /\ \A b \in Actors \ {w} : MayDo(b, i)' <=> MayDo(b, i)
        /\ MayDo(w, i)' <=> i \in todo[w]
    BY <1>a, <1>13, <2>1, GotoMoves DEF EnqueueWebhooks
  <2>4. i # cur[w] => (MayDo(w, i) <=> i \in todo[w])
    BY DEF MayDo
  <2>5. i = cur[w] => i \notin todo[w] /\ MayDo(w, i)
    BY <1>13, <2>1 DEF MayDo, EnqueueWebhooks
  <2>6. Weight(w, i)' + repeats[i] <= Weight(w, i) + repeats'[i]
    BY <1>b, <2>2, <2>3, <2>4, <2>5 DEF Weight
  <2>7. QED BY <1>a, <2>1, <2>3, <2>6, Paid
<1>14. ASSUME NEW w \in Workers, HandlerRaises(w) PROVE WorkOf(i)'
  <2>1. w \in Actors /\ cur[w] \in Items /\ cur[w] \notin todo[w]
    BY <1>a, <1>b, <1>14, InHandIsItem DEF HandlerRaises
  <2>2. done' = done /\ repeats' = repeats /\ (Unclaimed(i)' => Unclaimed(i))
    BY <1>a, <1>b, <1>14, <2>1 DEF HandlerRaises, Unclaimed, tables, history
  <2>3. /\ \A b \in Actors \ {w} : MayDo(b, i)' <=> MayDo(b, i)
        /\ MayDo(w, i)' <=> i \in todo[w] \/ cur[w] = i
    BY <1>a, <1>14, <2>1, GotoMoves DEF HandlerRaises
  <2>4. i # cur[w] => (MayDo(w, i) <=> i \in todo[w])
    BY DEF MayDo
  <2>5. i = cur[w] => i \notin todo[w] /\ MayDo(w, i)
    BY <1>14, <2>1 DEF MayDo, HandlerRaises
  <2>6. Weight(w, i)' + repeats[i] <= Weight(w, i) + repeats'[i]
    BY <1>b, <2>2, <2>3, <2>4, <2>5 DEF Weight
  <2>7. QED BY <1>a, <2>1, <2>3, <2>6, Paid
<1>15. ASSUME NEW w \in Workers, EventCommitFails(w) PROVE WorkOf(i)'
  <2>1. w \in Actors /\ cur[w] \in Items /\ cur[w] \notin todo[w]
    BY <1>a, <1>b, <1>15, InHandIsItem DEF EventCommitFails
  <2>2. /\ done' = done /\ (Unclaimed(i)' => Unclaimed(i))
        /\ repeats' = [repeats EXCEPT ![cur[w]] = IF pc[w] = "mark" THEN @ + 1 ELSE @]
    BY <1>a, <1>b, <1>15, <2>1 DEF EventCommitFails, Unclaimed, tables
  <2>3. /\ \A b \in Actors \ {w} : MayDo(b, i)' <=> MayDo(b, i)
        /\ MayDo(w, i)' <=> i \in todo[w] \/ cur[w] = i
    BY <1>a, <1>15, <2>1, GotoMoves DEF EventCommitFails
  <2>4. i # cur[w] => (MayDo(w, i) <=> i \in todo[w])
    BY DEF MayDo
  <2>5. i = cur[w] => i \notin todo[w] /\ (pc[w] # "mark" => MayDo(w, i))
    BY <1>15, <2>1 DEF MayDo, EventCommitFails
  <2>6. Weight(w, i)' + repeats[i] <= Weight(w, i) + repeats'[i]
    BY <1>b, <2>2, <2>3, <2>4, <2>5 DEF Weight
  <2>7. QED BY <1>a, <2>1, <2>3, <2>6, Paid
<1>16. ASSUME NEW w \in Workers, FailureNotSaved(w) PROVE WorkOf(i)'
  <2>1. w \in Actors /\ cur[w] \in Items /\ cur[w] \notin todo[w]
    BY <1>a, <1>b, <1>16, InHandIsItem DEF FailureNotSaved
  <2>2. done' = done /\ repeats' = repeats /\ (Unclaimed(i)' => Unclaimed(i))
    BY <1>a, <1>b, <1>16, <2>1 DEF FailureNotSaved, Unclaimed, tables, history
  <2>3. /\ \A b \in Actors \ {w} : MayDo(b, i)' <=> MayDo(b, i)
        /\ MayDo(w, i)' <=> i \in todo[w]
    BY <1>a, <1>16, <2>1, FinishMoves DEF FailureNotSaved
  <2>4. i # cur[w] => (MayDo(w, i) <=> i \in todo[w])
    BY DEF MayDo
  <2>5. i = cur[w] => i \notin todo[w] /\ MayDo(w, i)
    BY <1>16, <2>1 DEF MayDo, FailureNotSaved
  <2>6. Weight(w, i)' + repeats[i] <= Weight(w, i) + repeats'[i]
    BY <1>b, <2>2, <2>3, <2>4, <2>5 DEF Weight
  <2>7. QED BY <1>a, <2>1, <2>3, <2>6, Paid
<1>17. ASSUME NEW a \in Actors, CountDeliveryAttempt(a) PROVE WorkOf(i)'
  <2> DEFINE n == copy[a].attempts + 1
  <2>1. /\ a \in Actors /\ cur[a] \in Items /\ n \in Nat
        /\ pc[a] \in {"bump", "check"}
    <3>1. a \in Actors /\ pc[a] \in {"bump", "check"}
      BY <1>b, <1>17 DEF CountDeliveryAttempt
    <3>2. copy[a] \in Row
      BY <1>a, <3>1 DEF TypeOK
    <3>3. n \in Nat
      BY <3>2 DEF Row
    <3>4. QED BY <1>a, <3>1, <3>3, InHandIsItem
  <2>2. /\ Store(cur[a], [rows[cur[a]] EXCEPT !.attempts = n])
        /\ done' = done /\ repeats' = repeats
        /\ Goto(a, "send", [copy[a] EXCEPT !.attempts = n])
    BY <1>17 DEF CountDeliveryAttempt, history
  <2> HIDE DEF n
  <2>3. rows'[i].status = rows[i].status
    BY <1>b, <2>1, <2>2, AttemptsStore
  <2>4. /\ \A b \in Actors \ {a} : MayDo(b, i)' <=> MayDo(b, i)
        /\ MayDo(a, i)' <=> i \in todo[a] \/ cur[a] = i
    BY <1>a, <2>1, <2>2, GotoMoves
  <2>5. MayDo(a, i) <=> i \in todo[a] \/ cur[a] = i
    BY <2>1 DEF MayDo
  <2>6. Weight(a, i)' + repeats[i] <= Weight(a, i) + repeats'[i]
    BY <1>b, <2>2, <2>3, <2>4, <2>5 DEF Weight, Unclaimed
  <2>7. QED BY <1>a, <2>1, <2>4, <2>6, Paid
<1>18. ASSUME NEW a \in Actors, PostAccepted(a) PROVE WorkOf(i)'
  <2>1. a \in Actors /\ cur[a] \in Items /\ cur[a] \notin todo[a]
    BY <1>a, <1>b, <1>18, InHandIsItem DEF PostAccepted
  <2>2. /\ done' = [done EXCEPT ![cur[a]] = @ + 1] /\ repeats' = repeats
        /\ Unclaimed(i)' => Unclaimed(i)
    BY <1>a, <1>b, <1>18, <2>1 DEF PostAccepted, Unclaimed, tables
  <2>3. /\ \A b \in Actors \ {a} : MayDo(b, i)' <=> MayDo(b, i)
        /\ MayDo(a, i)' <=> i \in todo[a]
    BY <1>a, <1>18, <2>1, GotoMoves DEF PostAccepted
  <2>4. i # cur[a] => (MayDo(a, i) <=> i \in todo[a])
    BY DEF MayDo
  <2>5. i = cur[a] => i \notin todo[a] /\ MayDo(a, i)
    BY <1>18, <2>1 DEF MayDo, PostAccepted
  <2>6. Weight(a, i)' + repeats[i] <= Weight(a, i) + repeats'[i]
    BY <1>b, <2>2, <2>3, <2>4, <2>5 DEF Weight
  <2>7. QED BY <1>a, <2>1, <2>3, <2>6, Paid
<1>19. ASSUME NEW a \in Actors, DeliveryCommitFails(a) PROVE WorkOf(i)'
  <2>1. a \in Actors /\ cur[a] \in Items /\ cur[a] \notin todo[a]
    BY <1>a, <1>b, <1>19, InHandIsItem DEF DeliveryCommitFails
  <2>2. done' = done /\ repeats' = repeats /\ (Unclaimed(i)' => Unclaimed(i))
    BY <1>a, <1>b, <1>19, <2>1 DEF DeliveryCommitFails, Unclaimed, tables, history
  <2>3. /\ \A b \in Actors \ {a} : MayDo(b, i)' <=> MayDo(b, i)
        /\ MayDo(a, i)' <=> i \in todo[a]
    BY <1>a, <1>19, <2>1, FinishMoves DEF DeliveryCommitFails
  <2>4. i # cur[a] => (MayDo(a, i) <=> i \in todo[a])
    BY DEF MayDo
  <2>5. i = cur[a] => i \notin todo[a] /\ TRUE
    BY <1>19, <2>1 DEF MayDo, DeliveryCommitFails
  <2>6. Weight(a, i)' + repeats[i] <= Weight(a, i) + repeats'[i]
    BY <1>b, <2>2, <2>3, <2>4, <2>5 DEF Weight
  <2>7. QED BY <1>a, <2>1, <2>3, <2>6, Paid
<1>20. ASSUME NEW t \in Tasks, DetachedDispatch(t) PROVE WorkOf(i)'
  <2>1. t \in Actors /\ cur[t] \in Items /\ cur[t] \notin todo[t]
    BY <1>a, <1>b, <1>20, InHandIsItem DEF DetachedDispatch
  <2>2. /\ repeats' = repeats /\ (Unclaimed(i)' => Unclaimed(i))
        /\ \E answered \in {0, 1} : done' = [done EXCEPT ![cur[t]] = @ + answered]
    BY <1>a, <1>b, <1>20, <2>1 DEF DetachedDispatch, Unclaimed, tables
  <2>3. /\ \A b \in Actors \ {t} : MayDo(b, i)' <=> MayDo(b, i)
        /\ MayDo(t, i)' <=> i \in todo[t]
    BY <1>a, <1>20, <2>1, FinishMoves DEF DetachedDispatch
  <2>4. i # cur[t] => (MayDo(t, i) <=> i \in todo[t])
    BY DEF MayDo
  <2>5. i = cur[t] => i \notin todo[t] /\ MayDo(t, i)
    BY <1>20, <2>1 DEF MayDo, DetachedDispatch
  <2>6. Weight(t, i)' + repeats[i] <= Weight(t, i) + repeats'[i]
    BY <1>b, <2>2, <2>3, <2>4, <2>5 DEF Weight
  <2>7. QED BY <1>a, <2>1, <2>3, <2>6, Paid
<1>21. ASSUME NEW w \in Workers, MarkProcessed(w) PROVE WorkOf(i)'
  <2> DEFINE r == [rows[cur[w]] EXCEPT !.status = Column(copy[w].status, @, "processed")]
  <2>1. w \in Actors /\ cur[w] \in Items /\ cur[w] \notin todo[w]
    BY <1>a, <1>b, <1>21, InHandIsItem DEF MarkProcessed
  <2>2. /\ r.status \in {rows[cur[w]].status, "processed"}
        /\ r.attempts = rows[cur[w]].attempts
    BY <1>b, <2>1 DEF Column, Row
  <2>3. /\ Store(cur[w], r) \/ UNCHANGED <<rows, aged>>
        /\ done' = done /\ repeats' = repeats /\ Finish(w)
    BY <1>21 DEF MarkProcessed, history
  <2> HIDE DEF r
  <2>4. /\ i # cur[w] => rows'[i].status = rows[i].status
        /\ rows'[i].status \in {rows[i].status, "processed"}
    BY <1>a, <2>1, <2>2, <2>3, OutcomeStore
  <2>5. /\ \A b \in Actors \ {w} : MayDo(b, i)' <=> MayDo(b, i)
        /\ MayDo(w, i)' <=> i \in todo[w]
    BY <1>a, <2>1, <2>3, FinishMoves
  <2>6. i # cur[w] => (MayDo(w, i) <=> i \in todo[w])
    BY DEF MayDo
  <2>7. i = cur[w] => i \notin todo[w] /\ TRUE
    BY <1>21, <2>1 DEF MayDo, MarkProcessed
  <2>8. Weight(w, i)' + repeats[i] <= Weight(w, i) + repeats'[i]
    BY <1>b, <2>3, <2>4, <2>5, <2>6, <2>7 DEF Weight, Unclaimed
  <2>9. QED BY <1>a, <2>1, <2>5, <2>8, Paid
<1>22. ASSUME NEW w \in Workers, RecordFailure(w) PROVE WorkOf(i)'
  <2> DEFINE r == [rows[cur[w]] EXCEPT
                    !.status = Column(copy[w].status, @, "failed"),
                    !.retry  = IF copy[w].attempts < MaxAttempts THEN "later"
                               ELSE Column(copy[w].retry, @, "null")]
  <2>1. w \in Actors /\ cur[w] \in Items /\ cur[w] \notin todo[w]
    BY <1>a, <1>b, <1>22, InHandIsItem DEF RecordFailure
  <2>2. /\ r.status \in {rows[cur[w]].status, "failed"}
        /\ r.attempts = rows[cur[w]].attempts
    BY <1>b, <2>1 DEF Column, Row
  <2>3. /\ Store(cur[w], r) \/ UNCHANGED <<rows, aged>>
        /\ done' = done /\ repeats' = repeats /\ Finish(w)
    BY <1>22 DEF RecordFailure, history
  <2> HIDE DEF r
  <2>4. /\ i # cur[w] => rows'[i].status = rows[i].status
        /\ rows'[i].status \in {rows[i].status, "failed"}
    BY <1>a, <2>1, <2>2, <2>3, OutcomeStore
  <2>5. /\ \A b \in Actors \ {w} : MayDo(b, i)' <=> MayDo(b, i)
        /\ MayDo(w, i)' <=> i \in todo[w]
    BY <1>a, <2>1, <2>3, FinishMoves
  <2>6. i # cur[w] => (MayDo(w, i) <=> i \in todo[w])
    BY DEF MayDo
  <2>7. i = cur[w] => i \notin todo[w] /\ MayDo(w, i)
    BY <1>22, <2>1 DEF MayDo, RecordFailure
  <2>8. Weight(w, i)' + repeats[i] <= Weight(w, i) + repeats'[i]
    BY <1>b, <2>3, <2>4, <2>5, <2>6, <2>7 DEF Weight, Unclaimed
  <2>9. QED BY <1>a, <2>1, <2>5, <2>8, Paid
<1>23. ASSUME NEW a \in Actors, RefuseDelivery(a) PROVE WorkOf(i)'
  <2> DEFINE r == [rows[cur[a]] EXCEPT !.status = Column(copy[a].status, @, "failed")]
  <2>1. a \in Actors /\ cur[a] \in Items /\ cur[a] \notin todo[a]
    BY <1>a, <1>b, <1>23, InHandIsItem DEF RefuseDelivery
  <2>2. /\ r.status \in {rows[cur[a]].status, "failed"}
        /\ r.attempts = rows[cur[a]].attempts
    BY <1>b, <2>1 DEF Column, Row
  <2>3. /\ Store(cur[a], r) \/ UNCHANGED <<rows, aged>>
        /\ done' = done /\ repeats' = repeats /\ Finish(a)
    BY <1>23 DEF RefuseDelivery, history
  <2> HIDE DEF r
  <2>4. /\ i # cur[a] => rows'[i].status = rows[i].status
        /\ rows'[i].status \in {rows[i].status, "failed"}
    BY <1>a, <2>1, <2>2, <2>3, OutcomeStore
  <2>5. /\ \A b \in Actors \ {a} : MayDo(b, i)' <=> MayDo(b, i)
        /\ MayDo(a, i)' <=> i \in todo[a]
    BY <1>a, <2>1, <2>3, FinishMoves
  <2>6. i # cur[a] => (MayDo(a, i) <=> i \in todo[a])
    BY DEF MayDo
  <2>7. i = cur[a] => i \notin todo[a] /\ MayDo(a, i)
    BY <1>23, <2>1 DEF MayDo, RefuseDelivery
  <2>8. Weight(a, i)' + repeats[i] <= Weight(a, i) + repeats'[i]
    BY <1>b, <2>3, <2>4, <2>5, <2>6, <2>7 DEF Weight, Unclaimed
  <2>9. QED BY <1>a, <2>1, <2>5, <2>8, Paid
<1>24. ASSUME NEW a \in Actors, SaveDelivered(a) PROVE WorkOf(i)'
  <2> DEFINE r == [rows[cur[a]] EXCEPT !.status = Column(copy[a].status, @, "delivered")]
  <2>1. a \in Actors /\ cur[a] \in Items /\ cur[a] \notin todo[a]
    BY <1>a, <1>b, <1>24, InHandIsItem DEF SaveDelivered
  <2>2. /\ r.status \in {rows[cur[a]].status, "delivered"}
        /\ r.attempts = rows[cur[a]].attempts
    BY <1>b, <2>1 DEF Column, Row
  <2>3. /\ Store(cur[a], r) \/ UNCHANGED <<rows, aged>>
        /\ done' = done /\ repeats' = repeats /\ Finish(a)
    BY <1>24 DEF SaveDelivered, history
  <2> HIDE DEF r
  <2>4. /\ i # cur[a] => rows'[i].status = rows[i].status
        /\ rows'[i].status \in {rows[i].status, "delivered"}
    BY <1>a, <2>1, <2>2, <2>3, OutcomeStore
  <2>5. /\ \A b \in Actors \ {a} : MayDo(b, i)' <=> MayDo(b, i)
        /\ MayDo(a, i)' <=> i \in todo[a]
    BY <1>a, <2>1, <2>3, FinishMoves
  <2>6. i # cur[a] => (MayDo(a, i) <=> i \in todo[a])
    BY DEF MayDo
  <2>7. i = cur[a] => i \notin todo[a] /\ TRUE
    BY <1>24, <2>1 DEF MayDo, SaveDelivered
  <2>8. Weight(a, i)' + repeats[i] <= Weight(a, i) + repeats'[i]
    BY <1>b, <2>3, <2>4, <2>5, <2>6, <2>7 DEF Weight, Unclaimed
  <2>9. QED BY <1>a, <2>1, <2>5, <2>8, Paid
<1>25. ASSUME NEW a \in Actors, PostRejected(a) PROVE WorkOf(i)'
  <2> DEFINE r == [rows[cur[a]] EXCEPT
                    !.status = Column(copy[a].status, @, "failed"),
                    !.retry  = IF copy[a].attempts < AttemptLimit(a) THEN "later"
                               ELSE Column(copy[a].retry, @, "null")]
  <2>1. a \in Actors /\ cur[a] \in Items /\ cur[a] \notin todo[a]
    BY <1>a, <1>b, <1>25, InHandIsItem DEF PostRejected
  <2>2. /\ r.status \in {rows[cur[a]].status, "failed"}
        /\ r.attempts = rows[cur[a]].attempts
    BY <1>b, <2>1 DEF Column, Row
  <2>3. /\ Store(cur[a], r) \/ UNCHANGED <<rows, aged>>
        /\ done' = done /\ repeats' = repeats /\ Finish(a)
    BY <1>25 DEF PostRejected, history
  <2> HIDE DEF r
  <2>4. /\ i # cur[a] => rows'[i].status = rows[i].status
        /\ rows'[i].status \in {rows[i].status, "failed"}
    BY <1>a, <2>1, <2>2, <2>3, OutcomeStore
  <2>5. /\ \A b \in Actors \ {a} : MayDo(b, i)' <=> MayDo(b, i)
        /\ MayDo(a, i)' <=> i \in todo[a]
    BY <1>a, <2>1, <2>3, FinishMoves
  <2>6. i # cur[a] => (MayDo(a, i) <=> i \in todo[a])
    BY DEF MayDo
  <2>7. i = cur[a] => i \notin todo[a] /\ MayDo(a, i)
    BY <1>25, <2>1 DEF MayDo, PostRejected
  <2>8. Weight(a, i)' + repeats[i] <= Weight(a, i) + repeats'[i]
    BY <1>b, <2>3, <2>4, <2>5, <2>6, <2>7 DEF Weight, Unclaimed
  <2>9. QED BY <1>a, <2>1, <2>5, <2>8, Paid
<1>26. ASSUME NEW a \in Actors, DispatchRaises(a) PROVE WorkOf(i)'
  <2> DEFINE r == [rows[cur[a]] EXCEPT !.status = Column(copy[a].status, @, "failed")]
  <2>1. a \in Actors /\ cur[a] \in Items /\ cur[a] \notin todo[a]
    BY <1>a, <1>b, <1>26, InHandIsItem DEF DispatchRaises
  <2>2. /\ r.status \in {rows[cur[a]].status, "failed"}
        /\ r.attempts = rows[cur[a]].attempts
    BY <1>b, <2>1 DEF Column, Row
  <2>3. /\ Store(cur[a], r) \/ UNCHANGED <<rows, aged>>
        /\ done' = done /\ repeats' = repeats /\ Finish(a)
    BY <1>26 DEF DispatchRaises, history
  <2> HIDE DEF r
  <2>4. /\ i # cur[a] => rows'[i].status = rows[i].status
        /\ rows'[i].status \in {rows[i].status, "failed"}
    BY <1>a, <2>1, <2>2, <2>3, OutcomeStore
  <2>5. /\ \A b \in Actors \ {a} : MayDo(b, i)' <=> MayDo(b, i)
        /\ MayDo(a, i)' <=> i \in todo[a]
    BY <1>a, <2>1, <2>3, FinishMoves
  <2>6. i # cur[a] => (MayDo(a, i) <=> i \in todo[a])
    BY DEF MayDo
  <2>7. i = cur[a] => i \notin todo[a] /\ MayDo(a, i)
    BY <1>26, <2>1 DEF MayDo, DispatchRaises
  <2>8. Weight(a, i)' + repeats[i] <= Weight(a, i) + repeats'[i]
    BY <1>b, <2>3, <2>4, <2>5, <2>6, <2>7 DEF Weight, Unclaimed
  <2>9. QED BY <1>a, <2>1, <2>5, <2>8, Paid
<1>27. ASSUME NEW a \in Actors, Crash(a) PROVE WorkOf(i)'
  <2>1. /\ \A b \in Actors \ {a} : pc'[b] = pc[b] /\ cur'[b] = cur[b] /\ todo'[b] = todo[b]
        /\ cur'[a] = NoItem /\ todo'[a] = {} /\ i # NoItem
        /\ done' = done /\ repeats' = repeats /\ rows' = rows
    BY <1>a, <1>27 DEF Crash, TypeOK, ConstantsAssumption, tables, history
  <2>2. (\A b \in Actors \ {a} : MayDo(b, i)' <=> MayDo(b, i)) /\ ~MayDo(a, i)'
    BY <2>1 DEF MayDo
  <2>3. Weight(a, i)' + repeats[i] <= Weight(a, i) + repeats'[i]
    BY <1>b, <2>1, <2>2 DEF Weight, Unclaimed
  <2>4. QED BY <1>a, <2>2, <2>3, Paid
<1>28. ASSUME NEW j \in Items, TimeStep(j) \/ LeaseOverrun(j) PROVE WorkOf(i)'
  <2>1. Unclaimed(i)' <=> Unclaimed(i)
    BY <1>b, <1>28 DEF TimeStep, LeaseExpires, LeaseOverrun, RetryDue, Unclaimed, Row
  <2>2. UNCHANGED <<pc, todo, cur, repeats, done>>
    BY <1>28 DEF TimeStep, LeaseExpires, LeaseOverrun, RetryDue, actors, history
  <2>3. QED BY <1>a, <2>1, <2>2, NobodyMoves
<1>29. CASE UNCHANGED vars
  BY <1>a, <1>29, NobodyMoves DEF vars, tables, actors, history, Unclaimed
<1>30. QED
  BY <1>b, <1>1, <1>2, <1>3, <1>4, <1>5, <1>6, <1>7, <1>8, <1>9, <1>10, <1>11, <1>12, <1>13,
     <1>14, <1>15, <1>16, <1>17, <1>18, <1>19, <1>20, <1>21, <1>22, <1>23, <1>24, <1>25,
     <1>26, <1>27, <1>28, <1>29
  DEF Next, ApiStep, WorkerStep, EventStep, DispatchStep, FaultStep, TaskStep

-----------------------------------------------------------------------------
(* How often it is attempted *)

AttemptsOf(i) ==
    /\ rows[i].status \in {"absent", "pending"} => rows[i].attempts = 0
    /\ rows[i].attempts <= MaxAttempts + repeats[i]
    /\ \A a \in Actors : MayCount(a, i) => rows[i].attempts < MaxAttempts + repeats[i]

\* A step that counts no attempt at item i and lets nobody else count one.
LEMMA NotCounted ==
    ASSUME TypeOK, TypeOK', NEW i \in Items, AttemptsOf(i),
           rows'[i].attempts = rows[i].attempts, repeats[i] <= repeats'[i],
           rows'[i].status \in {"absent", "pending"} => rows[i].status \in {"absent", "pending"},
           \A a \in Actors : MayCount(a, i)' => MayCount(a, i)
    PROVE  AttemptsOf(i)'
<1>1. /\ rows[i].attempts \in Nat /\ repeats[i] \in Nat /\ repeats'[i] \in Nat
      /\ MaxAttempts \in Nat
  BY DEF TypeOK, Row, ConstantsAssumption
<1>2. rows'[i].attempts <= MaxAttempts + repeats'[i]
  BY <1>1 DEF AttemptsOf
<1>3. ASSUME NEW a \in Actors, MayCount(a, i)'
      PROVE  rows'[i].attempts < MaxAttempts + repeats'[i]
  BY <1>1, <1>3 DEF AttemptsOf
<1>4. QED BY <1>2, <1>3 DEF AttemptsOf

\* A row without attempts is within every limit.
LEMMA NoAttempts ==
    ASSUME TypeOK', NEW i \in Items, rows'[i].attempts = 0
    PROVE  AttemptsOf(i)'
<1>1. repeats'[i] \in Nat /\ MaxAttempts \in Nat \ {0}
  BY DEF TypeOK, ConstantsAssumption
<1>2. 0 < MaxAttempts + repeats'[i]
  BY <1>1
<1>3. QED BY <1>1, <1>2 DEF AttemptsOf

\* The one who may count an attempt at item i has counted it.
LEMMA Counted ==
    ASSUME IInv, TypeOK', NEW i \in Items \ contended, AttemptsOf(i), NEW a \in Actors,
           MayCount(a, i), cur[a] = i, rows[i].status \in {"processing", "deleted"},
           Store(i, [rows[i] EXCEPT !.attempts = copy[a].attempts + 1]), repeats' = repeats,
           ~MayCount(a, i)', \A b \in Actors \ {a} : MayCount(b, i)' => MayCount(b, i)
    PROVE  AttemptsOf(i)'
<1>1. /\ rows \in [Items -> Row] /\ rows[i].attempts \in Nat /\ repeats[i] \in Nat
      /\ MaxAttempts \in Nat
  BY DEF IInv, TypeOK, Row, ConstantsAssumption
<1>2. rows[i].attempts < MaxAttempts + repeats[i]
  BY DEF AttemptsOf
<1>3. rows'[i].attempts <= MaxAttempts + repeats'[i]
  <2>1. CASE rows[i].status = "deleted"
    BY <1>1, <1>2, <2>1 DEF Store
  <2>2. CASE rows[i].status # "deleted"
    <3>1. copy[a] = rows[i]
      BY <2>2 DEF IInv, CopyIsFresh
    <3>2. rows'[i].attempts = rows[i].attempts + 1
      BY <1>1, <2>2, <3>1 DEF Store, Row
    <3>3. QED BY <1>1, <1>2, <3>2
  <2>3. QED BY <2>1, <2>2
<1>4. \A b \in Actors : ~MayCount(b, i)'
  BY DEF IInv, ExclusiveClaim, MayCount, Held, ConstantsAssumption
<1>5. rows'[i].status \notin {"absent", "pending"}
  BY <1>1 DEF Store, Row
<1>6. QED BY <1>3, <1>4, <1>5 DEF AttemptsOf

\* A claim in turn finds attempts left, or none made; out of turn it is a repeat.
LEMMA AttemptsStep ==
    IInv /\ AttemptsCounted /\ [Next]_vars => AttemptsCounted'
<1> SUFFICES ASSUME IInv, AttemptsCounted, [Next]_vars, NEW i \in Items \ contended'
             PROVE  AttemptsOf(i)'
    BY DEF AttemptsCounted, AttemptsOf
<1>a. TypeOK /\ InHand /\ AgedIsClaimed /\ HeldIsClaimed /\ TypeOK'
  BY ShapeStep DEF IInv, Shape
<1>b. /\ Workers \subseteq Actors /\ Tasks \subseteq Actors
      /\ Events \subseteq Items /\ Deliveries \subseteq Items
      /\ rows \in [Items -> Row] /\ repeats \in [Items -> Nat]
      /\ rows[i].attempts \in Nat /\ repeats[i] \in Nat /\ MaxAttempts \in Nat
  BY <1>a DEF TypeOK, Row, Actors, Items, ConstantsAssumption
<1>c. contended \subseteq contended'
  BY DEF Next, ApiStep, WorkerStep, EventStep, DispatchStep, FaultStep, TaskStep, TimeStep,
         EmitEvent, UpdateSubscription, DeleteSubscription, TestSubscription,
         DetachedDispatch, Start, Claim, ClaimRolledBack, Stop, Leave, LoadEvent,
         CountEventAttempt, EnqueueWebhooks, MarkProcessed, HandlerRaises,
         EventCommitFails, RecordFailure, FailureNotSaved, LoadDelivery, RefuseDelivery,
         CountDeliveryAttempt, PostAccepted, SaveDelivered, PostRejected,
         DispatchRaises, DeliveryCommitFails, Crash, LeaseExpires, LeaseOverrun,
         RetryDue, vars, history
<1>d. i \in Items \ contended /\ AttemptsOf(i)
  BY <1>c DEF AttemptsCounted, AttemptsOf
<1>1. ASSUME NEW e \in Events, EmitEvent(e) PROVE AttemptsOf(i)'
  <2>1. CASE i = e
    BY <1>a, <1>b, <1>1, <2>1, NoAttempts DEF EmitEvent, NewRow
  <2>2. CASE i # e
    BY <1>a, <1>b, <1>d, <1>1, <2>2, NotCounted DEF EmitEvent, actors, history, MayCount
  <2>3. QED BY <2>1, <2>2
<1>2. ASSUME NEW s \in Subs, UpdateSubscription(s) PROVE AttemptsOf(i)'
  BY <1>a, <1>b, <1>d, <1>2, NotCounted DEF UpdateSubscription, actors, history, MayCount
<1>3. ASSUME NEW s \in Subs, DeleteSubscription(s) PROVE AttemptsOf(i)'
  <2>1. rows'[i].attempts = 0 \/ rows'[i] = rows[i]
    BY <1>3 DEF DeleteSubscription, Absent
  <2>2. repeats' = repeats /\ \A b \in Actors : MayCount(b, i)' => MayCount(b, i)
    BY <1>3 DEF DeleteSubscription, actors, history, MayCount
  <2>3. QED BY <1>a, <1>b, <1>d, <2>1, <2>2, NoAttempts, NotCounted
<1>4. ASSUME NEW t \in Tasks, NEW d \in Deliveries, TestSubscription(t, d) 
      PROVE AttemptsOf(i)'
  <2>1. CASE i = d
    BY <1>a, <1>b, <1>4, <2>1, NoAttempts DEF TestSubscription, NewRow
  <2>2. CASE i # d
    <3>1. /\ t \in Actors /\ rows'[i] = rows[i] /\ repeats' = repeats
          /\ \A b \in Actors \ {t} : pc'[b] = pc[b] /\ cur'[b] = cur[b]
          /\ cur'[t] = d /\ todo' = todo
      BY <1>a, <1>b, <1>4, <2>2 DEF TestSubscription, TypeOK, history
    <3>2. \A b \in Actors : MayCount(b, i)' => MayCount(b, i)
      BY <2>2, <3>1 DEF MayCount
    <3>3. QED BY <1>a, <1>b, <1>d, <3>1, <3>2, NotCounted
  <2>3. QED BY <2>1, <2>2
<1>5. ASSUME NEW w \in Workers, Start(w) PROVE AttemptsOf(i)'
  <2>1. /\ cur' = cur /\ todo' = todo /\ repeats' = repeats /\ rows' = rows
        /\ w \in Actors /\ \A b \in Actors \ {w} : pc'[b] = pc[b]
        /\ pc'[w] = "poll"
    BY <1>a, <1>b, <1>5 DEF Start, TypeOK, tables, history
  <2>2. \A b \in Actors : MayCount(b, i)' => MayCount(b, i)
    BY <2>1 DEF MayCount
  <2>3. QED BY <1>a, <1>b, <1>d, <2>1, <2>2, NotCounted
<1>6. ASSUME NEW w \in Workers, Claim(w) PROVE AttemptsOf(i)'
  <2>1. PICK E \in Batches(Events), D \in Batches(Deliveries) :
           /\ rows' = [k \in Items |-> IF k \in E \cup D
                                       THEN [rows[k] EXCEPT !.status = "processing"]
                                       ELSE rows[k]]
           /\ todo' = [todo EXCEPT ![w] = E \cup D]
           /\ repeats' = [k \in Items |-> IF k \in E \cup D /\ k \in aged
                                          THEN repeats[k] + 1 ELSE repeats[k]]
    BY <1>6 DEF Claim
  <2> DEFINE B == E \cup D
  <2>2. /\ i \in B => /\ Claimable(i) /\ rows'[i] = [rows[i] EXCEPT !.status = "processing"]
                      /\ repeats'[i] = IF i \in aged THEN repeats[i] + 1 ELSE repeats[i]
        /\ i \notin B => rows'[i] = rows[i] /\ repeats'[i] = repeats[i]
        /\ todo' = [todo EXCEPT ![w] = B]
    BY <2>1, BatchesClaimable
  <2> HIDE DEF B
  <2>3. /\ w \in Actors /\ ~MayCount(w, i) /\ (MayCount(w, i)' <=> i \in B)
        /\ \A b \in Actors \ {w} : MayCount(b, i)' <=> MayCount(b, i)
    BY <1>a, <1>b, <1>6, <2>2, PollMoves DEF Claim
  <2>4. CASE i \in B
    <3>1. /\ rows'[i].status = "processing" /\ rows'[i].attempts = rows[i].attempts
      BY <1>b, <2>2, <2>4 DEF Row
    <3>2. rows[i].attempts < MaxAttempts + repeats'[i]
      <4>1. CASE rows[i].status = "pending"
        <5>1. rows[i].attempts = 0 /\ MaxAttempts \in Nat \ {0}
          BY <1>d, <4>1 DEF AttemptsOf, ConstantsAssumption
        <5>2. QED BY <1>b, <2>2, <2>4, <5>1
      <4>2. CASE rows[i].attempts < MaxAttempts
        BY <1>b, <2>2, <2>4, <4>2
      <4>3. CASE rows[i].status = "processing" /\ i \in aged
        BY <1>b, <1>d, <2>2, <2>4, <4>3 DEF AttemptsOf
      <4>4. QED BY <2>2, <2>4, <4>1, <4>2, <4>3 DEF Claimable
    <3>3. repeats'[i] \in Nat
      BY <1>a DEF TypeOK
    <3>4. QED BY <1>b, <3>1, <3>2, <3>3 DEF AttemptsOf
  <2>5. CASE i \notin B
    BY <1>a, <1>b, <1>d, <2>2, <2>3, <2>5, NotCounted
  <2>6. QED BY <2>4, <2>5
<1>7. ASSUME NEW w \in Workers, ClaimRolledBack(w) PROVE AttemptsOf(i)'
  <2>1. PICK E \in Batches(Events), D \in Batches(Deliveries) \cup {{}} :
           /\ todo' = [todo EXCEPT ![w] = E \cup D] /\ contended' = contended \cup E \cup D
           /\ repeats' = [k \in Items |-> IF k \in E \cup D THEN repeats[k] + 1
                                          ELSE repeats[k]]
    BY <1>7 DEF ClaimRolledBack
  <2> DEFINE B == E \cup D
  <2>2. todo' = [todo EXCEPT ![w] = B] /\ i \notin B /\ repeats'[i] = repeats[i] /\ rows' = rows
    BY <1>7, <2>1 DEF ClaimRolledBack, tables
  <2> HIDE DEF B
  <2>3. /\ w \in Actors /\ (MayCount(w, i)' <=> i \in B)
        /\ \A b \in Actors \ {w} : MayCount(b, i)' <=> MayCount(b, i)
    BY <1>a, <1>b, <1>7, <2>2, PollMoves DEF ClaimRolledBack
  <2>4. \A b \in Actors : MayCount(b, i)' => MayCount(b, i)
    BY <2>2, <2>3
  <2>5. QED BY <1>a, <1>b, <1>d, <2>2, <2>4, NotCounted
<1>8. ASSUME NEW w \in Workers, Stop(w) PROVE AttemptsOf(i)'
  BY <1>a, <1>b, <1>d, <1>8, NotCounted DEF Stop, tables, history, MayCount
<1>9. ASSUME NEW w \in Workers, Leave(w) PROVE AttemptsOf(i)'
  <2>1. /\ cur' = cur /\ repeats' = repeats /\ rows' = rows /\ w \in Actors
        /\ todo'[w] = {} /\ pc'[w] = "off"
        /\ \A b \in Actors \ {w} : pc'[b] = pc[b] /\ todo'[b] = todo[b]
    BY <1>a, <1>b, <1>9 DEF Leave, TypeOK, tables, history
  <2>2. \A b \in Actors : MayCount(b, i)' => MayCount(b, i)
    BY <2>1 DEF MayCount
  <2>3. QED BY <1>a, <1>b, <1>d, <2>1, <2>2, NotCounted
<1>10. ASSUME NEW w \in Workers, LoadEvent(w) PROVE AttemptsOf(i)'
  <2>1. w \in Actors /\ repeats' = repeats /\ rows' = rows /\ pc[w] = "work"
    BY <1>b, <1>10 DEF LoadEvent, tables, history
  <2>2. PICK e \in todo[w] \cap Events : TakeUp(w, e, "bump")
    BY <1>10 DEF LoadEvent
  <2>3. \A b \in Actors : MayCount(b, i)' => MayCount(b, i)
    BY <1>a, <2>1, <2>2, TakeUpMoves
  <2>4. QED BY <1>a, <1>b, <1>d, <2>1, <2>3, NotCounted
<1>11. ASSUME NEW w \in Workers, LoadDelivery(w) PROVE AttemptsOf(i)'
  <2>1. w \in Actors /\ repeats' = repeats /\ rows' = rows /\ pc[w] = "work"
    BY <1>b, <1>11 DEF LoadDelivery, tables, history
  <2>2. PICK d \in todo[w] :
          IF rows[d].status = "deleted"
          THEN /\ todo' = [todo EXCEPT ![w] = @ \ {d}]
               /\ pc' = [pc EXCEPT ![w] = IF todo[w] = {d} THEN "poll" ELSE "work"]
               /\ UNCHANGED <<running, cur, copy>>
          ELSE TakeUp(w, d, "check")
    BY <1>11 DEF LoadDelivery
  <2>3. \A b \in Actors : MayCount(b, i)' => MayCount(b, i)
    <3>1. CASE rows[d].status = "deleted"
      <4>1. /\ cur' = cur /\ pc'[w] \in {"poll", "work"} /\ todo'[w] \subseteq todo[w]
            /\ \A b \in Actors \ {w} : pc'[b] = pc[b] /\ todo'[b] = todo[b]
        BY <1>a, <2>1, <2>2, <3>1 DEF TypeOK
      <4>2. QED BY <4>1 DEF MayCount
    <3>2. CASE rows[d].status # "deleted"
      BY <1>a, <2>1, <2>2, <3>2, TakeUpMoves
    <3>3. QED BY <3>1, <3>2
  <2>4. QED BY <1>a, <1>b, <1>d, <2>1, <2>3, NotCounted
<1>12. ASSUME NEW w \in Workers, CountEventAttempt(w) PROVE AttemptsOf(i)'
  <2> DEFINE n == copy[w].attempts + 1
  <2>1. w \in Actors /\ pc[w] = "bump"
    BY <1>b, <1>12 DEF CountEventAttempt
  <2>2. cur[w] \in Items /\ cur[w] \notin todo[w]
    BY <1>a, <2>1, InHandIsItem
  <2>3. /\ Store(cur[w], [rows[cur[w]] EXCEPT !.attempts = n]) /\ repeats' = repeats
        /\ Goto(w, "run", [copy[w] EXCEPT !.attempts = n])
    BY <1>12 DEF CountEventAttempt, history
  <2>4. /\ \A b \in Actors \ {w} : MayCount(b, i)' <=> MayCount(b, i)
        /\ MayCount(w, i)' <=> i \in todo[w]
    <3> HIDE DEF n
    <3>1. QED BY <1>a, <2>1, <2>3, GotoMoves
  <2>5. CASE i = cur[w]
    <3>1. MayCount(w, i) /\ ~MayCount(w, i)'
      BY <2>1, <2>2, <2>4, <2>5 DEF MayCount
    <3>2. rows[i].status \in {"processing", "deleted"}
      BY <1>a, <1>d, <2>1, <2>5 DEF HeldIsClaimed, Held, ConstantsAssumption
    <3>3. QED BY <1>a, <1>d, <2>1, <2>3, <2>4, <2>5, <3>1, <3>2, Counted
  <2>6. CASE i # cur[w]
    <3>1. rows'[i] = rows[i]
      <4> HIDE DEF n
      <4>1. QED BY <1>b, <2>2, <2>3, <2>6, StoreEffect
    <3>2. \A b \in Actors : MayCount(b, i)' => MayCount(b, i)
      BY <2>4 DEF MayCount
    <3>3. QED BY <1>a, <1>b, <1>d, <2>3, <3>1, <3>2, NotCounted
  <2>7. QED BY <2>5, <2>6
<1>13. ASSUME NEW a \in Actors, CountDeliveryAttempt(a) PROVE AttemptsOf(i)'
  <2> DEFINE n == copy[a].attempts + 1
  <2>1. a \in Actors /\ pc[a] = "check"
    BY <1>b, <1>13 DEF CountDeliveryAttempt
  <2>2. cur[a] \in Items /\ cur[a] \notin todo[a]
    BY <1>a, <2>1, InHandIsItem
  <2>3. /\ Store(cur[a], [rows[cur[a]] EXCEPT !.attempts = n]) /\ repeats' = repeats
        /\ Goto(a, "send", [copy[a] EXCEPT !.attempts = n])
    BY <1>13 DEF CountDeliveryAttempt, history
  <2>4. /\ \A b \in Actors \ {a} : MayCount(b, i)' <=> MayCount(b, i)
        /\ MayCount(a, i)' <=> i \in todo[a]
    <3> HIDE DEF n
    <3>1. QED BY <1>a, <2>1, <2>3, GotoMoves
  <2>5. CASE i = cur[a]
    <3>1. MayCount(a, i) /\ ~MayCount(a, i)'
      BY <2>1, <2>2, <2>4, <2>5 DEF MayCount
    <3>2. rows[i].status \in {"processing", "deleted"}
      BY <1>a, <1>d, <2>1, <2>5 DEF HeldIsClaimed, Held, ConstantsAssumption
    <3>3. QED BY <1>a, <1>d, <2>1, <2>3, <2>4, <2>5, <3>1, <3>2, Counted
  <2>6. CASE i # cur[a]
    <3>1. rows'[i] = rows[i]
      <4> HIDE DEF n
      <4>1. QED BY <1>b, <2>2, <2>3, <2>6, StoreEffect
    <3>2. \A b \in Actors : MayCount(b, i)' => MayCount(b, i)
      BY <2>4 DEF MayCount
    <3>3. QED BY <1>a, <1>b, <1>d, <2>3, <3>1, <3>2, NotCounted
  <2>7. QED BY <2>5, <2>6
<1>14. ASSUME NEW w \in Workers, HandlerRaises(w) PROVE AttemptsOf(i)'
  <2>1. w \in Actors /\ rows' = rows /\ repeats[i] <= repeats'[i]
    BY <1>b, <1>14 DEF HandlerRaises, tables, history
  <2>2. Goto(w, "giveup", rows[cur[w]])
    BY <1>14 DEF HandlerRaises
  <2>3. \A b \in Actors : MayCount(b, i)' => MayCount(b, i)
    BY <1>a, <2>1, <2>2, GotoMoves DEF MayCount
  <2>4. QED BY <1>a, <1>b, <1>d, <2>1, <2>3, NotCounted
<1>15. ASSUME NEW w \in Workers, EventCommitFails(w) PROVE AttemptsOf(i)'
  <2>1. w \in Actors /\ rows' = rows /\ repeats[i] <= repeats'[i]
    BY <1>b, <1>15 DEF EventCommitFails, tables, history
  <2>2. Goto(w, "giveup", rows[cur[w]])
    BY <1>15 DEF EventCommitFails
  <2>3. \A b \in Actors : MayCount(b, i)' => MayCount(b, i)
    BY <1>a, <2>1, <2>2, GotoMoves DEF MayCount
  <2>4. QED BY <1>a, <1>b, <1>d, <2>1, <2>3, NotCounted
<1>16. ASSUME NEW a \in Actors, PostAccepted(a) PROVE AttemptsOf(i)'
  <2>1. a \in Actors /\ rows' = rows /\ repeats[i] <= repeats'[i]
    BY <1>b, <1>16 DEF PostAccepted, tables, history
  <2>2. Goto(a, "ok", copy[a])
    BY <1>16 DEF PostAccepted
  <2>3. \A b \in Actors : MayCount(b, i)' => MayCount(b, i)
    BY <1>a, <2>1, <2>2, GotoMoves DEF MayCount
  <2>4. QED BY <1>a, <1>b, <1>d, <2>1, <2>3, NotCounted
<1>17. ASSUME NEW w \in Workers, EnqueueWebhooks(w) PROVE AttemptsOf(i)'
  <2>1. w \in Actors /\ repeats' = repeats /\ Goto(w, "mark", copy[w])
    BY <1>b, <1>17 DEF EnqueueWebhooks
  <2>2. rows'[i].attempts = 0 \/ rows'[i] = rows[i]
    BY <1>17 DEF EnqueueWebhooks, NewRow
  <2>3. \A b \in Actors : MayCount(b, i)' => MayCount(b, i)
    BY <1>a, <2>1, GotoMoves DEF MayCount
  <2>4. QED BY <1>a, <1>b, <1>d, <2>1, <2>2, <2>3, NoAttempts, NotCounted
<1>18. ASSUME NEW w \in Workers, FailureNotSaved(w) PROVE AttemptsOf(i)'
  <2>1. w \in Actors /\ rows' = rows /\ repeats' = repeats /\ Finish(w)
    BY <1>b, <1>18 DEF FailureNotSaved, tables, history
  <2>2. \A b \in Actors : MayCount(b, i)' => MayCount(b, i)
    BY <1>a, <2>1, FinishMoves DEF MayCount
  <2>3. QED BY <1>a, <1>b, <1>d, <2>1, <2>2, NotCounted
<1>19. ASSUME NEW a \in Actors, DeliveryCommitFails(a) PROVE AttemptsOf(i)'
  <2>1. a \in Actors /\ rows' = rows /\ repeats' = repeats /\ Finish(a)
    BY <1>b, <1>19 DEF DeliveryCommitFails, tables, history
  <2>2. \A b \in Actors : MayCount(b, i)' => MayCount(b, i)
    BY <1>a, <2>1, FinishMoves DEF MayCount
  <2>3. QED BY <1>a, <1>b, <1>d, <2>1, <2>2, NotCounted
<1>20. ASSUME NEW t \in Tasks, DetachedDispatch(t) PROVE AttemptsOf(i)'
  <2>1. t \in Actors /\ rows' = rows /\ repeats' = repeats /\ Finish(t)
    BY <1>b, <1>20 DEF DetachedDispatch, tables, history
  <2>2. \A b \in Actors : MayCount(b, i)' => MayCount(b, i)
    BY <1>a, <2>1, FinishMoves DEF MayCount
  <2>3. QED BY <1>a, <1>b, <1>d, <2>1, <2>2, NotCounted
<1>21. ASSUME NEW w \in Workers, MarkProcessed(w) PROVE AttemptsOf(i)'
  <2> DEFINE r == [rows[cur[w]] EXCEPT !.status = Column(copy[w].status, @, "processed")]
  <2>1. w \in Actors /\ cur[w] \in Items
    BY <1>a, <1>b, <1>21, InHandIsItem DEF MarkProcessed
  <2>2. /\ r.status \in {rows[cur[w]].status, "processed"}
        /\ r.attempts = rows[cur[w]].attempts
    BY <1>b, <2>1 DEF Column, Row
  <2>3. /\ Store(cur[w], r) \/ UNCHANGED <<rows, aged>>
        /\ repeats' = repeats /\ Finish(w)
    BY <1>21 DEF MarkProcessed, history
  <2> HIDE DEF r
  <2>4. /\ rows'[i].attempts = rows[i].attempts
        /\ rows'[i].status \in {rows[i].status, "processed"}
    BY <1>a, <2>1, <2>2, <2>3, OutcomeStore
  <2>5. \A b \in Actors : MayCount(b, i)' => MayCount(b, i)
    BY <1>a, <2>1, <2>3, FinishMoves DEF MayCount
  <2>6. QED BY <1>a, <1>b, <1>d, <2>3, <2>4, <2>5, NotCounted
<1>22. ASSUME NEW w \in Workers, RecordFailure(w) PROVE AttemptsOf(i)'
  <2> DEFINE r == [rows[cur[w]] EXCEPT
                    !.status = Column(copy[w].status, @, "failed"),
                    !.retry  = IF copy[w].attempts < MaxAttempts THEN "later"
                               ELSE Column(copy[w].retry, @, "null")]
  <2>1. w \in Actors /\ cur[w] \in Items
    BY <1>a, <1>b, <1>22, InHandIsItem DEF RecordFailure
  <2>2. /\ r.status \in {rows[cur[w]].status, "failed"}
        /\ r.attempts = rows[cur[w]].attempts
    BY <1>b, <2>1 DEF Column, Row
  <2>3. /\ Store(cur[w], r) \/ UNCHANGED <<rows, aged>>
        /\ repeats' = repeats /\ Finish(w)
    BY <1>22 DEF RecordFailure, history
  <2> HIDE DEF r
  <2>4. /\ rows'[i].attempts = rows[i].attempts
        /\ rows'[i].status \in {rows[i].status, "failed"}
    BY <1>a, <2>1, <2>2, <2>3, OutcomeStore
  <2>5. \A b \in Actors : MayCount(b, i)' => MayCount(b, i)
    BY <1>a, <2>1, <2>3, FinishMoves DEF MayCount
  <2>6. QED BY <1>a, <1>b, <1>d, <2>3, <2>4, <2>5, NotCounted
<1>23. ASSUME NEW a \in Actors, RefuseDelivery(a) PROVE AttemptsOf(i)'
  <2> DEFINE r == [rows[cur[a]] EXCEPT !.status = Column(copy[a].status, @, "failed")]
  <2>1. a \in Actors /\ cur[a] \in Items
    BY <1>a, <1>b, <1>23, InHandIsItem DEF RefuseDelivery
  <2>2. /\ r.status \in {rows[cur[a]].status, "failed"}
        /\ r.attempts = rows[cur[a]].attempts
    BY <1>b, <2>1 DEF Column, Row
  <2>3. /\ Store(cur[a], r) \/ UNCHANGED <<rows, aged>>
        /\ repeats' = repeats /\ Finish(a)
    BY <1>23 DEF RefuseDelivery, history
  <2> HIDE DEF r
  <2>4. /\ rows'[i].attempts = rows[i].attempts
        /\ rows'[i].status \in {rows[i].status, "failed"}
    BY <1>a, <2>1, <2>2, <2>3, OutcomeStore
  <2>5. \A b \in Actors : MayCount(b, i)' => MayCount(b, i)
    BY <1>a, <2>1, <2>3, FinishMoves DEF MayCount
  <2>6. QED BY <1>a, <1>b, <1>d, <2>3, <2>4, <2>5, NotCounted
<1>24. ASSUME NEW a \in Actors, SaveDelivered(a) PROVE AttemptsOf(i)'
  <2> DEFINE r == [rows[cur[a]] EXCEPT !.status = Column(copy[a].status, @, "delivered")]
  <2>1. a \in Actors /\ cur[a] \in Items
    BY <1>a, <1>b, <1>24, InHandIsItem DEF SaveDelivered
  <2>2. /\ r.status \in {rows[cur[a]].status, "delivered"}
        /\ r.attempts = rows[cur[a]].attempts
    BY <1>b, <2>1 DEF Column, Row
  <2>3. /\ Store(cur[a], r) \/ UNCHANGED <<rows, aged>>
        /\ repeats' = repeats /\ Finish(a)
    BY <1>24 DEF SaveDelivered, history
  <2> HIDE DEF r
  <2>4. /\ rows'[i].attempts = rows[i].attempts
        /\ rows'[i].status \in {rows[i].status, "delivered"}
    BY <1>a, <2>1, <2>2, <2>3, OutcomeStore
  <2>5. \A b \in Actors : MayCount(b, i)' => MayCount(b, i)
    BY <1>a, <2>1, <2>3, FinishMoves DEF MayCount
  <2>6. QED BY <1>a, <1>b, <1>d, <2>3, <2>4, <2>5, NotCounted
<1>25. ASSUME NEW a \in Actors, PostRejected(a) PROVE AttemptsOf(i)'
  <2> DEFINE r == [rows[cur[a]] EXCEPT
                    !.status = Column(copy[a].status, @, "failed"),
                    !.retry  = IF copy[a].attempts < AttemptLimit(a) THEN "later"
                               ELSE Column(copy[a].retry, @, "null")]
  <2>1. a \in Actors /\ cur[a] \in Items
    BY <1>a, <1>b, <1>25, InHandIsItem DEF PostRejected
  <2>2. /\ r.status \in {rows[cur[a]].status, "failed"}
        /\ r.attempts = rows[cur[a]].attempts
    BY <1>b, <2>1 DEF Column, Row
  <2>3. /\ Store(cur[a], r) \/ UNCHANGED <<rows, aged>>
        /\ repeats' = repeats /\ Finish(a)
    BY <1>25 DEF PostRejected, history
  <2> HIDE DEF r
  <2>4. /\ rows'[i].attempts = rows[i].attempts
        /\ rows'[i].status \in {rows[i].status, "failed"}
    BY <1>a, <2>1, <2>2, <2>3, OutcomeStore
  <2>5. \A b \in Actors : MayCount(b, i)' => MayCount(b, i)
    BY <1>a, <2>1, <2>3, FinishMoves DEF MayCount
  <2>6. QED BY <1>a, <1>b, <1>d, <2>3, <2>4, <2>5, NotCounted
<1>26. ASSUME NEW a \in Actors, DispatchRaises(a) PROVE AttemptsOf(i)'
  <2> DEFINE r == [rows[cur[a]] EXCEPT !.status = Column(copy[a].status, @, "failed")]
  <2>1. a \in Actors /\ cur[a] \in Items
    BY <1>a, <1>b, <1>26, InHandIsItem DEF DispatchRaises
  <2>2. /\ r.status \in {rows[cur[a]].status, "failed"}
        /\ r.attempts = rows[cur[a]].attempts
    BY <1>b, <2>1 DEF Column, Row
  <2>3. /\ Store(cur[a], r) \/ UNCHANGED <<rows, aged>>
        /\ repeats' = repeats /\ Finish(a)
    BY <1>26 DEF DispatchRaises, history
  <2> HIDE DEF r
  <2>4. /\ rows'[i].attempts = rows[i].attempts
        /\ rows'[i].status \in {rows[i].status, "failed"}
    BY <1>a, <2>1, <2>2, <2>3, OutcomeStore
  <2>5. \A b \in Actors : MayCount(b, i)' => MayCount(b, i)
    BY <1>a, <2>1, <2>3, FinishMoves DEF MayCount
  <2>6. QED BY <1>a, <1>b, <1>d, <2>3, <2>4, <2>5, NotCounted
<1>27. ASSUME NEW a \in Actors, Crash(a) PROVE AttemptsOf(i)'
  <2>1. /\ \A b \in Actors \ {a} : pc'[b] = pc[b] /\ cur'[b] = cur[b] /\ todo'[b] = todo[b]
        /\ pc'[a] = "off" /\ todo'[a] = {} /\ repeats' = repeats /\ rows' = rows
    BY <1>a, <1>27 DEF Crash, TypeOK, tables, history
  <2>2. \A b \in Actors : MayCount(b, i)' => MayCount(b, i)
    BY <2>1 DEF MayCount
  <2>3. QED BY <1>a, <1>b, <1>d, <2>1, <2>2, NotCounted
<1>28. ASSUME NEW j \in Items, TimeStep(j) \/ LeaseOverrun(j) PROVE AttemptsOf(i)'
  <2>1. rows'[i].attempts = rows[i].attempts /\ rows'[i].status = rows[i].status
    BY <1>b, <1>28 DEF TimeStep, LeaseExpires, LeaseOverrun, RetryDue, Row
  <2>2. repeats' = repeats /\ \A b \in Actors : MayCount(b, i)' => MayCount(b, i)
    BY <1>28 DEF TimeStep, LeaseExpires, LeaseOverrun, RetryDue, actors, history, MayCount
  <2>3. QED BY <1>a, <1>b, <1>d, <2>1, <2>2, NotCounted
<1>29. CASE UNCHANGED vars
  BY <1>a, <1>b, <1>d, <1>29, NotCounted DEF vars, tables, actors, history, MayCount
<1>30. QED
  BY <1>b, <1>1, <1>2, <1>3, <1>4, <1>5, <1>6, <1>7, <1>8, <1>9, <1>10, <1>11, <1>12, <1>13,
     <1>14, <1>15, <1>16, <1>17, <1>18, <1>19, <1>20, <1>21, <1>22, <1>23, <1>24, <1>25,
     <1>26, <1>27, <1>28, <1>29
  DEF Next, ApiStep, WorkerStep, EventStep, DispatchStep, FaultStep, TaskStep

\* Nothing has been done, nothing may be done, and no attempt was made.
LEMMA AccountsInit == Init => WorkCounted /\ AttemptsCounted
<1> SUFFICES ASSUME Init PROVE WorkCounted /\ AttemptsCounted
    OBVIOUS
<1>1. NoItem \notin Items
  BY DEF ConstantsAssumption
<1>2. ASSUME NEW i \in Items PROVE WorkOf(i) /\ AttemptsOf(i)
  <2>1. Doers(i) = {} /\ \A a \in Actors : ~MayCount(a, i)
    BY <1>1 DEF Init, Doers, MayDo, MayCount
  <2>2. IsFiniteSet(Doers(i)) /\ Cardinality(Doers(i)) = 0
    BY <2>1, FS_EmptySet
  <2>3. done[i] = 0 /\ repeats[i] = 0 /\ rows[i].attempts = 0 /\ MaxAttempts \in Nat
    BY DEF Init, Absent, ConstantsAssumption
  <2>4. WorkOf(i)
    BY <2>2, <2>3 DEF WorkOf
  <2>5. AttemptsOf(i)
    BY <2>1, <2>3 DEF AttemptsOf
  <2>6. QED BY <2>4, <2>5
<1>3. QED BY <1>2 DEF WorkCounted, WorkOf, Doers, AttemptsCounted, AttemptsOf

\* How far "at least once" is from "once": the handlers of an event commit, or an endpoint
\* answers 2xx, once more only for a stale row that was claimed again, a claim that
\* was rolled back or a "processed" commit that was lost (RepeatsAccounted), for any
\* number of workers, and under any overlap of them.
THEOREM RepeatsAreAccounted == Spec => []RepeatsAccounted
<1>1. IInv /\ WorkCounted => RepeatsAccounted
  <2> SUFFICES ASSUME IInv, WorkCounted, NEW i \in Items PROVE done[i] <= 1 + repeats[i]
      BY DEF RepeatsAccounted
  <2>1. WorkOf(i)
    BY DEF WorkCounted, WorkOf, Doers
  <2>2. Cardinality(Doers(i)) \in Nat /\ done[i] \in Nat /\ repeats[i] \in Nat
    BY <2>1, FS_CardinalityType DEF WorkOf, IInv, TypeOK
  <2>3. QED BY <2>1, <2>2 DEF WorkOf
<1>2. QED BY <1>1, AccountsInit, WorkStep, Inductive, PTL DEF Spec

\* Under exclusive claims attempt_count exceeds --max-attempts only by the claims of stale
\* rows, whose query does not look at it (AttemptsAccounted).
THEOREM AttemptsAreAccounted == Spec => []AttemptsAccounted
<1>1. AttemptsCounted => AttemptsAccounted
  BY DEF AttemptsCounted, AttemptsAccounted
<1>2. QED BY <1>1, AccountsInit, AttemptsStep, Inductive, PTL DEF Spec
=============================================================================
