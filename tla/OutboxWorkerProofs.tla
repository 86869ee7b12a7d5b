------------------------- MODULE OutboxWorkerProofs -------------------------
(***************************************************************************)
(* Proofs about OutboxWorker, for any number of rows, workers, background  *)
(* tasks, attempts, faults and overrun leases.                             *)
(***************************************************************************)
EXTENDS OutboxWorker, TLAPS

USE ConstantsAssumption

-----------------------------------------------------------------------------
(* Rows and their updates *)

\* A committed UPDATE keeps the table well typed (Store, the worker's db.commit()).
LEMMA StoreType ==
    ASSUME rows \in [Items -> Row], aged \in SUBSET Items,
           NEW i \in Items, NEW r \in Row, Store(i, r)
    PROVE  rows' \in [Items -> Row] /\ aged' \in SUBSET Items
BY DEF Store

\* A committed UPDATE touches its own row only, leaves a deleted row deleted and
\* never makes a row look older.
LEMMA StoreEffect ==
    ASSUME rows \in [Items -> Row], NEW i \in Items, NEW r, Store(i, r)
    PROVE  /\ \A j \in Items : j # i => rows'[j] = rows[j]
           /\ rows[i].status = "deleted" => rows'[i] = rows[i]
           /\ rows[i].status # "deleted" => rows'[i] = r
           /\ aged' \subseteq aged
BY DEF Store

\* A batch holds rows of its table that the worker's query selects.
LEMMA BatchesClaimable ==
    ASSUME NEW S, NEW B \in Batches(S)
    PROVE  B \subseteq S /\ \A i \in B : Claimable(i)
BY DEF Batches

\* The rows that inserts create are rows.
LEMMA Constants == /\ Absent \in Row
                   /\ \A st \in Statuses, d \in {"null", "later", "due"} : NewRow(st, d) \in Row
BY DEF Absent, NewRow, Row, Statuses

\* Setting attempt_count to another natural number keeps a row a row.
LEMMA AttemptsUpdate ==
    ASSUME NEW row \in Row, NEW n \in Nat
    PROVE  [row EXCEPT !.attempts = n] \in Row
BY DEF Row

\* Committing attempt_count leaves the status and the retry date of every row,
\* and every other row altogether.
LEMMA AttemptsStore ==
    ASSUME rows \in [Items -> Row], NEW i \in Items, NEW n \in Nat,
           Store(i, [rows[i] EXCEPT !.attempts = n])
    PROVE  \A j \in Items : /\ rows'[j].status = rows[j].status
                            /\ rows'[j].retry = rows[j].retry
                            /\ j # i => rows'[j] = rows[j]
BY DEF Store, Row

-----------------------------------------------------------------------------
(* Types, and what each place in the code says of the row in hand *)

Shape == TypeOK /\ InHand

\* With no process started every place in the code is consistent.
LEMMA ShapeInit == Init => Shape
<1> SUFFICES ASSUME Init PROVE Shape
    OBVIOUS
<1>1. TypeOK
  BY DEF Init, TypeOK, Row, Absent, Statuses, Pcs, Actors, Items
<1>2. InHand
  BY DEF Init, InHand, Actors, Items
<1>3. QED BY <1>1, <1>2 DEF Shape

\* What a claim takes are rows of the two tables: they are processing, dated and in hand.
LEMMA ClaimTakes ==
    ASSUME NEW w \in Workers, Claim(w)
    PROVE  \E S \in SUBSET Items :
              /\ rows' = [i \in Items |-> IF i \in S
                                          THEN [rows[i] EXCEPT !.status = "processing"]
                                          ELSE rows[i]]
              /\ aged' = aged \ S
              /\ todo' = [todo EXCEPT ![w] = S]
              /\ repeats' = [i \in Items |-> IF i \in S /\ i \in aged
                                             THEN repeats[i] + 1 ELSE repeats[i]]
<1>1. \A E \in Batches(Events), D \in Batches(Deliveries) : E \cup D \in SUBSET Items
  BY DEF Batches, Items
<1>2. QED BY <1>1 DEF Claim

\* Every step keeps the types and what each place in the code says of the row in
\* hand: only a task that was handed a delivery is without a batch, an event is
\* never dispatched as a delivery, nor the other way round.
LEMMA ShapeStep == Shape /\ [Next]_vars => Shape'
<1> SUFFICES ASSUME Shape, [Next]_vars PROVE Shape'
    OBVIOUS
<1> USE DEF Shape, TypeOK, InHand, Statuses, Pcs, Actors, Items,
            tables, actors, bounds, history
<1>1. ASSUME NEW e \in Events, EmitEvent(e) PROVE Shape'
  BY <1>1 DEF EmitEvent, Row, Absent, NewRow
<1>2. ASSUME NEW s \in Subs, UpdateSubscription(s) PROVE Shape'
  BY <1>2 DEF UpdateSubscription, Row, Absent, NewRow
<1>3. ASSUME NEW s \in Subs, DeleteSubscription(s) PROVE Shape'
  BY <1>3 DEF DeleteSubscription, Row, Absent, NewRow
<1>4. ASSUME NEW t \in Tasks, NEW d \in Deliveries, TestSubscription(t, d) PROVE Shape'
  BY <1>4 DEF TestSubscription, Row, Absent, NewRow
<1>5. ASSUME NEW t \in Tasks, DetachedDispatch(t) PROVE Shape'
  BY <1>5 DEF DetachedDispatch, Finish, Row, Absent, NewRow
<1>6. ASSUME NEW w \in Workers, Start(w) PROVE Shape'
  BY <1>6 DEF Start, Row, Absent, NewRow
<1>7. ASSUME NEW w \in Workers, Claim(w) PROVE Shape'
  <2>1. PICK S \in SUBSET Items :
            /\ rows' = [i \in Items |-> IF i \in S THEN [rows[i] EXCEPT !.status = "processing"]
                                        ELSE rows[i]]
            /\ aged' = aged \ S
            /\ todo' = [todo EXCEPT ![w] = S]
            /\ repeats' = [i \in Items |-> IF i \in S /\ i \in aged
                                           THEN repeats[i] + 1 ELSE repeats[i]]
    BY <1>7, ClaimTakes
  <2>2. /\ pc[w] = "poll" /\ pc' = [pc EXCEPT ![w] = "work"]
        /\ UNCHANGED <<subs, running, cur, copy, faults, overruns, contended, done>>
    BY <1>7 DEF Claim
  <2>3. rows' \in [Items -> Row]
    <3>1. \A i \in Items : [rows[i] EXCEPT !.status = "processing"] \in Row
      BY DEF Row
    <3>2. QED BY <2>1, <3>1
  <2>4. repeats' \in [Items -> Nat]
    BY <2>1
  <2>5. todo' \in [Actors -> SUBSET Items] /\ aged' \in SUBSET Items
    BY <2>1
  <2>6. TypeOK'
    BY <2>2, <2>3, <2>4, <2>5
  <2>7. InHand'
    <3>1. cur[w] = NoItem /\ NoItem \notin Items /\ w \notin Tasks
      BY <2>2, ConstantsAssumption DEF ConstantsAssumption
    <3>2. QED BY <2>1, <2>2, <3>1
  <2>8. QED BY <2>6, <2>7
<1>8. ASSUME NEW w \in Workers, Leave(w) PROVE Shape'
  BY <1>8 DEF Leave, Row, Absent, NewRow
<1>9. ASSUME NEW w \in Workers, LoadEvent(w) PROVE Shape'
  BY <1>9 DEF LoadEvent, TakeUp, Row, Absent, NewRow
<1>10. ASSUME NEW w \in Workers, CountEventAttempt(w) PROVE Shape'
  <2> DEFINE r == [rows[cur[w]] EXCEPT !.attempts = copy[w].attempts + 1]
  <2>1. cur[w] \in Items /\ rows[cur[w]] \in Row /\ copy[w] \in Row
    BY <1>10 DEF CountEventAttempt
  <2>0. copy[w].attempts + 1 \in Nat
    BY <2>1 DEF Row
  <2>2. r \in Row
    BY <2>0, <2>1, AttemptsUpdate
  <2>3. rows' \in [Items -> Row] /\ aged' \in SUBSET Items
    <3>1. Store(cur[w], r)
      BY <1>10 DEF CountEventAttempt
    <3>2. QED BY <2>1, <2>2, <3>1, StoreType
  <2>4. [copy[w] EXCEPT !.attempts = copy[w].attempts + 1] \in Row
    BY <2>0, <2>1, AttemptsUpdate
  <2>. HIDE DEF r
  <2>5. TypeOK'
    BY <1>10, <2>1, <2>3, <2>4 DEF CountEventAttempt, Goto
  <2>6. InHand'
    BY <1>10, <2>1 DEF CountEventAttempt, Goto
  <2>7. QED BY <2>5, <2>6
<1>11. ASSUME NEW w \in Workers, EnqueueWebhooks(w) PROVE Shape'
  BY <1>11 DEF EnqueueWebhooks, Goto, Row, Absent, NewRow
<1>12. ASSUME NEW w \in Workers, MarkProcessed(w) PROVE Shape'
  <2> DEFINE r == [rows[cur[w]] EXCEPT !.status = Column(copy[w].status, @, "processed")]
  <2>1. cur[w] \in Items /\ rows[cur[w]] \in Row /\ copy[w] \in Row
    BY <1>12 DEF MarkProcessed
  <2>2. r \in Row
    BY <2>1 DEF Row, Column
  <2>3. rows' \in [Items -> Row] /\ aged' \in SUBSET Items
    <3>1. Store(cur[w], r)
      BY <1>12 DEF MarkProcessed
    <3>2. QED BY <2>1, <2>2, <3>1, StoreType
  <2>. HIDE DEF r
  <2>5. TypeOK'
    BY <1>12, <2>1, <2>3, Constants DEF MarkProcessed, Finish
  <2>6. InHand'
    BY <1>12, <2>1 DEF MarkProcessed, Finish
  <2>7. QED BY <2>5, <2>6
<1>13. ASSUME NEW w \in Workers, HandlerRaises(w) PROVE Shape'
  BY <1>13 DEF HandlerRaises, Goto, Row, Absent, NewRow
<1>14. ASSUME NEW w \in Workers, RecordFailure(w) PROVE Shape'
  <2> DEFINE r == [rows[cur[w]] EXCEPT !.status = Column(copy[w].status, @, "failed"),
                    !.retry  = IF copy[w].attempts < MaxAttempts THEN "later"
                               ELSE Column(copy[w].retry, @, "null")]
  <2>1. cur[w] \in Items /\ rows[cur[w]] \in Row /\ copy[w] \in Row
    BY <1>14 DEF RecordFailure
  <2>2. r \in Row
    BY <2>1 DEF Row, Column
  <2>3. rows' \in [Items -> Row] /\ aged' \in SUBSET Items
    <3>1. Store(cur[w], r)
      BY <1>14 DEF RecordFailure
    <3>2. QED BY <2>1, <2>2, <3>1, StoreType
  <2>. HIDE DEF r
  <2>5. TypeOK'
    BY <1>14, <2>1, <2>3, Constants DEF RecordFailure, Finish
  <2>6. InHand'
    BY <1>14, <2>1 DEF RecordFailure, Finish
  <2>7. QED BY <2>5, <2>6
<1>15. ASSUME NEW w \in Workers, LoadDelivery(w) PROVE Shape'
  <2>1. PICK d \in todo[w] :
            IF rows[d].status = "deleted"
            THEN /\ todo' = [todo EXCEPT ![w] = @ \ {d}]
                 /\ pc' = [pc EXCEPT ![w] = IF todo[w] = {d} THEN "poll" ELSE "work"]
                 /\ UNCHANGED <<running, cur, copy>>
            ELSE TakeUp(w, d, "check")
    BY <1>15 DEF LoadDelivery
  <2>2. d \in Deliveries
    BY <1>15 DEF LoadDelivery
  <2>3. CASE rows[d].status = "deleted"
    BY <1>15, <2>1, <2>2, <2>3 DEF LoadDelivery
  <2>4. CASE rows[d].status # "deleted"
    BY <1>15, <2>1, <2>2, <2>4 DEF LoadDelivery, TakeUp
  <2>5. QED BY <2>3, <2>4
<1>16. ASSUME NEW a \in Actors, RefuseDelivery(a) PROVE Shape'
  <2> DEFINE r == [rows[cur[a]] EXCEPT !.status = Column(copy[a].status, @, "failed")]
  <2>1. cur[a] \in Items /\ rows[cur[a]] \in Row /\ copy[a] \in Row
    BY <1>16 DEF RefuseDelivery
  <2>2. r \in Row
    BY <2>1 DEF Row, Column
  <2>3. rows' \in [Items -> Row] /\ aged' \in SUBSET Items
    <3>1. Store(cur[a], r)
      BY <1>16 DEF RefuseDelivery
    <3>2. QED BY <2>1, <2>2, <3>1, StoreType
  <2>. HIDE DEF r
  <2>5. TypeOK'
    BY <1>16, <2>1, <2>3, Constants DEF RefuseDelivery, Finish
  <2>6. InHand'
    BY <1>16, <2>1 DEF RefuseDelivery, Finish
  <2>7. QED BY <2>5, <2>6
<1>17. ASSUME NEW a \in Actors, CountDeliveryAttempt(a) PROVE Shape'
  <2> DEFINE r == [rows[cur[a]] EXCEPT !.attempts = copy[a].attempts + 1]
  <2>1. cur[a] \in Items /\ rows[cur[a]] \in Row /\ copy[a] \in Row
    BY <1>17 DEF CountDeliveryAttempt
  <2>0. copy[a].attempts + 1 \in Nat
    BY <2>1 DEF Row
  <2>2. r \in Row
    BY <2>0, <2>1, AttemptsUpdate
  <2>3. rows' \in [Items -> Row] /\ aged' \in SUBSET Items
    <3>1. Store(cur[a], r)
      BY <1>17 DEF CountDeliveryAttempt
    <3>2. QED BY <2>1, <2>2, <3>1, StoreType
  <2>4. [copy[a] EXCEPT !.attempts = copy[a].attempts + 1] \in Row
    BY <2>0, <2>1, AttemptsUpdate
  <2>. HIDE DEF r
  <2>5. TypeOK'
    BY <1>17, <2>1, <2>3, <2>4 DEF CountDeliveryAttempt, Goto
  <2>6. InHand'
    BY <1>17, <2>1 DEF CountDeliveryAttempt, Goto
  <2>7. QED BY <2>5, <2>6
<1>18. ASSUME NEW a \in Actors, PostAccepted(a) PROVE Shape'
  BY <1>18 DEF PostAccepted, Goto, Row, Absent, NewRow
<1>19. ASSUME NEW a \in Actors, SaveDelivered(a) PROVE Shape'
  <2> DEFINE r == [rows[cur[a]] EXCEPT !.status = Column(copy[a].status, @, "delivered")]
  <2>1. cur[a] \in Items /\ rows[cur[a]] \in Row /\ copy[a] \in Row
    BY <1>19 DEF SaveDelivered
  <2>2. r \in Row
    BY <2>1 DEF Row, Column
  <2>3. rows' \in [Items -> Row] /\ aged' \in SUBSET Items
    <3>1. Store(cur[a], r)
      BY <1>19 DEF SaveDelivered
    <3>2. QED BY <2>1, <2>2, <3>1, StoreType
  <2>. HIDE DEF r
  <2>5. TypeOK'
    BY <1>19, <2>1, <2>3, Constants DEF SaveDelivered, Finish
  <2>6. InHand'
    BY <1>19, <2>1 DEF SaveDelivered, Finish
  <2>7. QED BY <2>5, <2>6
<1>20. ASSUME NEW a \in Actors, PostRejected(a) PROVE Shape'
  <2> DEFINE r == [rows[cur[a]] EXCEPT !.status = Column(copy[a].status, @, "failed"),
                    !.retry  = IF copy[a].attempts < AttemptLimit(a) THEN "later"
                               ELSE Column(copy[a].retry, @, "null")]
  <2>1. cur[a] \in Items /\ rows[cur[a]] \in Row /\ copy[a] \in Row
    BY <1>20 DEF PostRejected
  <2>2. r \in Row
    BY <2>1 DEF Row, Column
  <2>3. rows' \in [Items -> Row] /\ aged' \in SUBSET Items
    <3>1. Store(cur[a], r)
      BY <1>20 DEF PostRejected
    <3>2. QED BY <2>1, <2>2, <3>1, StoreType
  <2>. HIDE DEF r
  <2>5. TypeOK'
    BY <1>20, <2>1, <2>3, Constants DEF PostRejected, Finish
  <2>6. InHand'
    BY <1>20, <2>1 DEF PostRejected, Finish
  <2>7. QED BY <2>5, <2>6
<1>21. ASSUME NEW a \in Actors, DispatchRaises(a) PROVE Shape'
  <2> DEFINE r == [rows[cur[a]] EXCEPT !.status = Column(copy[a].status, @, "failed")]
  <2>1. cur[a] \in Items /\ rows[cur[a]] \in Row /\ copy[a] \in Row
    BY <1>21 DEF DispatchRaises
  <2>2. r \in Row
    BY <2>1 DEF Row, Column
  <2>3. rows' \in [Items -> Row] /\ aged' \in SUBSET Items
    <3>1. CASE a \in Workers
      BY <1>21, <2>1, <2>2, <3>1, StoreType DEF DispatchRaises
    <3>2. CASE a \notin Workers
      BY <1>21, <3>2 DEF DispatchRaises
    <3>3. QED BY <3>1, <3>2
  <2>. HIDE DEF r
  <2>5. TypeOK'
    BY <1>21, <2>1, <2>3, Constants DEF DispatchRaises, Finish
  <2>6. InHand'
    BY <1>21, <2>1 DEF DispatchRaises, Finish
  <2>7. QED BY <2>5, <2>6
<1>22. ASSUME NEW w \in Workers, ClaimRolledBack(w) PROVE Shape'
  BY <1>22 DEF ClaimRolledBack, Batches, Row, Absent, NewRow
<1>23. ASSUME NEW w \in Workers, Stop(w) PROVE Shape'
  BY <1>23 DEF Stop, Row, Absent, NewRow
<1>24. ASSUME NEW w \in Workers, EventCommitFails(w) PROVE Shape'
  BY <1>24 DEF EventCommitFails, Goto, Row, Absent, NewRow
<1>25. ASSUME NEW w \in Workers, FailureNotSaved(w) PROVE Shape'
  BY <1>25 DEF FailureNotSaved, Finish, Row, Absent, NewRow
<1>26. ASSUME NEW a \in Actors, Crash(a) PROVE Shape'
  BY <1>26 DEF Crash, Row, Absent, NewRow
<1>27. ASSUME NEW a \in Actors, DeliveryCommitFails(a) PROVE Shape'
  BY <1>27 DEF DeliveryCommitFails, Finish, Row, Absent, NewRow
<1>28. ASSUME NEW i \in Items, LeaseExpires(i) PROVE Shape'
  BY <1>28 DEF LeaseExpires, Row, Absent, NewRow
<1>29. ASSUME NEW i \in Items, LeaseOverrun(i) PROVE Shape'
  BY <1>29 DEF LeaseOverrun, Row, Absent, NewRow
<1>30. ASSUME NEW i \in Items, RetryDue(i) PROVE Shape'
  <2> DEFINE r == [rows[i] EXCEPT !.retry = "due"]
  <2>1. rows[i] \in Row
    OBVIOUS
  <2>2. r \in Row
    BY <2>1 DEF Row
  <2>3. rows' = [rows EXCEPT ![i] = r]
    BY <1>30 DEF RetryDue
  <2>. HIDE DEF r
  <2>4. QED BY <1>30, <2>2, <2>3 DEF RetryDue
<1>31. CASE UNCHANGED vars
  BY <1>31 DEF vars
<1>32. QED
  BY <1>1, <1>2, <1>3, <1>4, <1>5, <1>6, <1>7, <1>8, <1>9, <1>10, <1>11, <1>12, <1>13, <1>14, <1>15, <1>16, <1>17, <1>18, <1>19, <1>20, <1>21, <1>22, <1>23, <1>24, <1>25, <1>26, <1>27, <1>28, <1>29, <1>30, <1>31
  DEF Next, ApiStep, WorkerStep, EventStep, DispatchStep, FaultStep, TaskStep, TimeStep
-----------------------------------------------------------------------------
(* Each conjunct of the inductive invariant is preserved *)

\* Every write of a row gives it a fresh updated_at.
LEMMA AgedStep ==
    Shape /\ AgedIsClaimed /\ [Next]_vars => AgedIsClaimed'
<1> SUFFICES ASSUME Shape, AgedIsClaimed, [Next]_vars
             PROVE  AgedIsClaimed'
    OBVIOUS
<1> USE DEF Shape, TypeOK, InHand, Row, Statuses, Pcs, Actors, Items,
            tables, actors, bounds, history, Absent, NewRow,
            AgedIsClaimed
<1>1. ASSUME NEW e \in Events, EmitEvent(e)
       PROVE  AgedIsClaimed'
  BY <1>1 DEF EmitEvent
<1>2. ASSUME NEW s \in Subs, UpdateSubscription(s)
       PROVE  AgedIsClaimed'
  BY <1>2 DEF UpdateSubscription
<1>3. ASSUME NEW s \in Subs, DeleteSubscription(s)
       PROVE  AgedIsClaimed'
  BY <1>3 DEF DeleteSubscription
<1>4. ASSUME NEW t \in Tasks, NEW d \in Deliveries, TestSubscription(t, d)
       PROVE  AgedIsClaimed'
  BY <1>4 DEF TestSubscription
<1>5. ASSUME NEW t \in Tasks, DetachedDispatch(t)
       PROVE  AgedIsClaimed'
  BY <1>5 DEF DetachedDispatch, Finish
<1>6. ASSUME NEW w \in Workers, Start(w)
       PROVE  AgedIsClaimed'
  BY <1>6 DEF Start
<1>7. ASSUME NEW w \in Workers, Claim(w)
       PROVE  AgedIsClaimed'
  BY <1>7 DEF Claim, Batches
<1>8. ASSUME NEW w \in Workers, Leave(w)
       PROVE  AgedIsClaimed'
  BY <1>8 DEF Leave
<1>9. ASSUME NEW w \in Workers, LoadEvent(w)
       PROVE  AgedIsClaimed'
  BY <1>9 DEF LoadEvent, TakeUp
<1>10. ASSUME NEW w \in Workers, CountEventAttempt(w)
       PROVE  AgedIsClaimed'
  BY <1>10 DEF CountEventAttempt, Goto, Store, Column
<1>11. ASSUME NEW w \in Workers, EnqueueWebhooks(w)
       PROVE  AgedIsClaimed'
  BY <1>11 DEF EnqueueWebhooks, Goto
<1>12. ASSUME NEW w \in Workers, MarkProcessed(w)
       PROVE  AgedIsClaimed'
  BY <1>12 DEF MarkProcessed, Finish, Store, Column
<1>13. ASSUME NEW w \in Workers, HandlerRaises(w)
       PROVE  AgedIsClaimed'
  BY <1>13 DEF HandlerRaises, Goto
<1>14. ASSUME NEW w \in Workers, RecordFailure(w)
       PROVE  AgedIsClaimed'
  BY <1>14 DEF RecordFailure, Finish, Store, Column
<1>15. ASSUME NEW w \in Workers, LoadDelivery(w)
       PROVE  AgedIsClaimed'
  BY <1>15 DEF LoadDelivery, TakeUp
<1>16. ASSUME NEW a \in Actors, RefuseDelivery(a)
       PROVE  AgedIsClaimed'
  BY <1>16 DEF RefuseDelivery, Finish, Store, Column
<1>17. ASSUME NEW a \in Actors, CountDeliveryAttempt(a)
       PROVE  AgedIsClaimed'
  BY <1>17 DEF CountDeliveryAttempt, Goto, Store, Column
<1>18. ASSUME NEW a \in Actors, PostAccepted(a)
       PROVE  AgedIsClaimed'
  BY <1>18 DEF PostAccepted, Goto
<1>19. ASSUME NEW a \in Actors, SaveDelivered(a)
       PROVE  AgedIsClaimed'
  BY <1>19 DEF SaveDelivered, Finish, Store, Column
<1>20. ASSUME NEW a \in Actors, PostRejected(a)
       PROVE  AgedIsClaimed'
  BY <1>20 DEF PostRejected, Finish, Store, Column
<1>21. ASSUME NEW a \in Actors, DispatchRaises(a)
       PROVE  AgedIsClaimed'
  BY <1>21 DEF DispatchRaises, Finish, Store, Column
<1>22. ASSUME NEW w \in Workers, ClaimRolledBack(w)
       PROVE  AgedIsClaimed'
  BY <1>22 DEF ClaimRolledBack, Batches
<1>23. ASSUME NEW w \in Workers, Stop(w)
       PROVE  AgedIsClaimed'
  BY <1>23 DEF Stop
<1>24. ASSUME NEW w \in Workers, EventCommitFails(w)
       PROVE  AgedIsClaimed'
  BY <1>24 DEF EventCommitFails, Goto
<1>25. ASSUME NEW w \in Workers, FailureNotSaved(w)
       PROVE  AgedIsClaimed'
  BY <1>25 DEF FailureNotSaved, Finish
<1>26. ASSUME NEW a \in Actors, Crash(a)
       PROVE  AgedIsClaimed'
  BY <1>26 DEF Crash
<1>27. ASSUME NEW a \in Actors, DeliveryCommitFails(a)
       PROVE  AgedIsClaimed'
  BY <1>27 DEF DeliveryCommitFails, Finish
<1>28. ASSUME NEW i \in Items, LeaseExpires(i)
       PROVE  AgedIsClaimed'
  BY <1>28 DEF LeaseExpires
<1>29. ASSUME NEW i \in Items, LeaseOverrun(i)
       PROVE  AgedIsClaimed'
  BY <1>29 DEF LeaseOverrun
<1>30. ASSUME NEW i \in Items, RetryDue(i)
       PROVE  AgedIsClaimed'
  BY <1>30 DEF RetryDue
<1>31. CASE UNCHANGED vars
  BY <1>31 DEF vars
<1>32. QED
  BY <1>1, <1>2, <1>3, <1>4, <1>5, <1>6, <1>7, <1>8, <1>9, <1>10, <1>11, <1>12, <1>13, <1>14, <1>15, <1>16, <1>17, <1>18, <1>19, <1>20, <1>21, <1>22, <1>23, <1>24, <1>25, <1>26, <1>27, <1>28, <1>29, <1>30, <1>31
  DEF Next, ApiStep, WorkerStep, EventStep, DispatchStep, FaultStep, TaskStep, TimeStep

\* A poll selects pending, due or expired rows, and none of these is held under
\* an exclusive claim: the claim that it makes is exclusive again.
LEMMA ExclusiveStep ==
    Shape /\ AgedIsClaimed /\ HeldIsClaimed /\ ExclusiveClaim /\ [Next]_vars => (HeldIsClaimed /\ ExclusiveClaim)'
<1> SUFFICES ASSUME Shape, AgedIsClaimed, HeldIsClaimed, ExclusiveClaim, [Next]_vars
             PROVE  (HeldIsClaimed /\ ExclusiveClaim)'
    OBVIOUS
<1> USE DEF Shape, TypeOK, InHand, Row, Statuses, Pcs, Actors, Items,
            tables, actors, bounds, history, Absent, NewRow,
            HeldIsClaimed, ExclusiveClaim, Held
<1>1. ASSUME NEW e \in Events, EmitEvent(e)
       PROVE  (HeldIsClaimed /\ ExclusiveClaim)'
  BY <1>1 DEF EmitEvent
<1>2. ASSUME NEW s \in Subs, UpdateSubscription(s)
       PROVE  (HeldIsClaimed /\ ExclusiveClaim)'
  BY <1>2 DEF UpdateSubscription
<1>3. ASSUME NEW s \in Subs, DeleteSubscription(s)
       PROVE  (HeldIsClaimed /\ ExclusiveClaim)'
  BY <1>3 DEF DeleteSubscription
<1>4. ASSUME NEW t \in Tasks, NEW d \in Deliveries, TestSubscription(t, d)
       PROVE  (HeldIsClaimed /\ ExclusiveClaim)'
  <2>1. Held(t)' = {d} /\ \A b \in Actors : b # t => Held(b)' = Held(b)
    BY <1>4 DEF TestSubscription
  <2>2. d \notin contended => \A b \in Actors : d \notin Held(b)
    BY <1>4 DEF TestSubscription
  <2>3. ExclusiveClaim'
    BY <1>4, <2>1, <2>2 DEF TestSubscription
  <2>4. HeldIsClaimed'
    <3> SUFFICES ASSUME NEW i \in Items \ contended, NEW b \in Actors, i \in Held(b)'
                 PROVE  rows'[i].status \in {"processing", "deleted"} /\ i \notin aged
      BY <1>4 DEF TestSubscription
    <3>1. CASE i = d
      <4>1. rows'[d] = NewRow("processing", "null") /\ rows[d].status = "absent"
        BY <1>4 DEF TestSubscription
      <4>2. d \notin aged
        BY <4>1 DEF AgedIsClaimed
      <4>3. QED BY <3>1, <4>1, <4>2
    <3>2. CASE i # d
      BY <1>4, <2>1, <3>2 DEF TestSubscription
    <3>3. QED BY <3>1, <3>2
  <2>5. QED BY <2>3, <2>4
<1>5. ASSUME NEW t \in Tasks, DetachedDispatch(t)
       PROVE  (HeldIsClaimed /\ ExclusiveClaim)'
  BY <1>5 DEF DetachedDispatch, Finish
<1>6. ASSUME NEW w \in Workers, Start(w)
       PROVE  (HeldIsClaimed /\ ExclusiveClaim)'
  BY <1>6 DEF Start
<1>7. ASSUME NEW w \in Workers, Claim(w)
       PROVE  (HeldIsClaimed /\ ExclusiveClaim)'
  <2>1. PICK S \in SUBSET Items :
           /\ \A i \in S : Claimable(i)
           /\ rows' = [i \in Items |-> IF i \in S
                                      THEN [rows[i] EXCEPT !.status = "processing"]
                                      ELSE rows[i]]
           /\ aged' = aged \ S
           /\ todo' = [todo EXCEPT ![w] = S]
    BY <1>7 DEF Claim, Batches
  <2>2. pc[w] = "poll" /\ UNCHANGED <<cur, contended>>
    BY <1>7 DEF Claim
  <2>3. Held(w)' = S /\ \A b \in Actors : b # w => Held(b)' = Held(b)
    BY <2>1, <2>2
  <2>4. \A i \in S \ contended, b \in Actors : i \notin Held(b)
    BY <2>1 DEF Claimable
  <2>5. ExclusiveClaim'
    BY <2>2, <2>3, <2>4
  <2>6. HeldIsClaimed'
    BY <2>1, <2>2, <2>3
  <2>7. QED BY <2>5, <2>6
<1>8. ASSUME NEW w \in Workers, Leave(w)
       PROVE  (HeldIsClaimed /\ ExclusiveClaim)'
  BY <1>8 DEF Leave
<1>9. ASSUME NEW w \in Workers, LoadEvent(w)
       PROVE  (HeldIsClaimed /\ ExclusiveClaim)'
  BY <1>9 DEF LoadEvent, TakeUp
<1>10. ASSUME NEW w \in Workers, CountEventAttempt(w)
       PROVE  (HeldIsClaimed /\ ExclusiveClaim)'
  BY SMTT(30), <1>10 DEF CountEventAttempt, Goto, Store, Column
<1>11. ASSUME NEW w \in Workers, EnqueueWebhooks(w)
       PROVE  (HeldIsClaimed /\ ExclusiveClaim)'
  BY <1>11 DEF EnqueueWebhooks, Goto
<1>12. ASSUME NEW w \in Workers, MarkProcessed(w)
       PROVE  (HeldIsClaimed /\ ExclusiveClaim)'
  BY <1>12 DEF MarkProcessed, Finish, Store, Column
<1>13. ASSUME NEW w \in Workers, HandlerRaises(w)
       PROVE  (HeldIsClaimed /\ ExclusiveClaim)'
  BY <1>13 DEF HandlerRaises, Goto
<1>14. ASSUME NEW w \in Workers, RecordFailure(w)
       PROVE  (HeldIsClaimed /\ ExclusiveClaim)'
  BY <1>14 DEF RecordFailure, Finish, Store, Column
<1>15. ASSUME NEW w \in Workers, LoadDelivery(w)
       PROVE  (HeldIsClaimed /\ ExclusiveClaim)'
  <2>1. \A b \in Actors : Held(b)' \subseteq Held(b)
    BY <1>15 DEF LoadDelivery, TakeUp
  <2>2. UNCHANGED <<rows, aged, contended>>
    BY <1>15 DEF LoadDelivery
  <2>. HIDE DEF Held
  <2>3. QED BY <2>1, <2>2
<1>16. ASSUME NEW a \in Actors, RefuseDelivery(a)
       PROVE  (HeldIsClaimed /\ ExclusiveClaim)'
  BY <1>16 DEF RefuseDelivery, Finish, Store, Column
<1>17. ASSUME NEW a \in Actors, CountDeliveryAttempt(a)
       PROVE  (HeldIsClaimed /\ ExclusiveClaim)'
  <2> DEFINE r == [rows[cur[a]] EXCEPT !.attempts = copy[a].attempts + 1]
  <2>a. cur[a] \in Items
    BY <1>17 DEF CountDeliveryAttempt
  <2>b. Store(cur[a], r)
    BY <1>17 DEF CountDeliveryAttempt
  <2>c. /\ r.status = rows[cur[a]].status
        /\ r.attempts = copy[a].attempts + 1
        /\ r.retry = rows[cur[a]].retry
    BY <2>a
  <2>. HIDE DEF r
  <2>1. \A j \in Items : rows'[j].status = rows[j].status
    BY <2>a, <2>b, <2>c, StoreEffect
  <2>2. aged' \subseteq aged
    BY <2>a, <2>b, StoreEffect
  <2>3. UNCHANGED <<todo, cur, contended>>
    BY <1>17 DEF CountDeliveryAttempt, Goto
  <2>4. QED BY <2>1, <2>2, <2>3
<1>18. ASSUME NEW a \in Actors, PostAccepted(a)
       PROVE  (HeldIsClaimed /\ ExclusiveClaim)'
  BY <1>18 DEF PostAccepted, Goto
<1>19. ASSUME NEW a \in Actors, SaveDelivered(a)
       PROVE  (HeldIsClaimed /\ ExclusiveClaim)'
  BY <1>19 DEF SaveDelivered, Finish, Store, Column
<1>20. ASSUME NEW a \in Actors, PostRejected(a)
       PROVE  (HeldIsClaimed /\ ExclusiveClaim)'
  BY <1>20 DEF PostRejected, Finish, Store, Column
<1>21. ASSUME NEW a \in Actors, DispatchRaises(a)
       PROVE  (HeldIsClaimed /\ ExclusiveClaim)'
  BY <1>21 DEF DispatchRaises, Finish, Store, Column
<1>22. ASSUME NEW w \in Workers, ClaimRolledBack(w)
       PROVE  (HeldIsClaimed /\ ExclusiveClaim)'
  BY <1>22 DEF ClaimRolledBack, Batches
<1>23. ASSUME NEW w \in Workers, Stop(w)
       PROVE  (HeldIsClaimed /\ ExclusiveClaim)'
  BY <1>23 DEF Stop
<1>24. ASSUME NEW w \in Workers, EventCommitFails(w)
       PROVE  (HeldIsClaimed /\ ExclusiveClaim)'
  BY <1>24 DEF EventCommitFails, Goto
<1>25. ASSUME NEW w \in Workers, FailureNotSaved(w)
       PROVE  (HeldIsClaimed /\ ExclusiveClaim)'
  BY <1>25 DEF FailureNotSaved, Finish
<1>26. ASSUME NEW a \in Actors, Crash(a)
       PROVE  (HeldIsClaimed /\ ExclusiveClaim)'
  BY <1>26 DEF Crash
<1>27. ASSUME NEW a \in Actors, DeliveryCommitFails(a)
       PROVE  (HeldIsClaimed /\ ExclusiveClaim)'
  BY <1>27 DEF DeliveryCommitFails, Finish
<1>28. ASSUME NEW i \in Items, LeaseExpires(i)
       PROVE  (HeldIsClaimed /\ ExclusiveClaim)'
  BY <1>28 DEF LeaseExpires, Holders
<1>29. ASSUME NEW i \in Items, LeaseOverrun(i)
       PROVE  (HeldIsClaimed /\ ExclusiveClaim)'
  BY <1>29 DEF LeaseOverrun
<1>30. ASSUME NEW i \in Items, RetryDue(i)
       PROVE  (HeldIsClaimed /\ ExclusiveClaim)'
  BY <1>30 DEF RetryDue
<1>31. CASE UNCHANGED vars
  BY <1>31 DEF vars
<1>32. QED
  BY <1>1, <1>2, <1>3, <1>4, <1>5, <1>6, <1>7, <1>8, <1>9, <1>10, <1>11, <1>12, <1>13, <1>14, <1>15, <1>16, <1>17, <1>18, <1>19, <1>20, <1>21, <1>22, <1>23, <1>24, <1>25, <1>26, <1>27, <1>28, <1>29, <1>30, <1>31
  DEF Next, ApiStep, WorkerStep, EventStep, DispatchStep, FaultStep, TaskStep, TimeStep

\* Nobody else writes a row held under an exclusive claim, so the copy loaded
\* from it stays equal to it.
LEMMA CopiesStep ==
    Shape /\ HeldIsClaimed /\ ExclusiveClaim /\ CopyIsFresh /\ LaterMeansFailed /\ [Next]_vars => (CopyIsFresh /\ LaterMeansFailed)'
<1> SUFFICES ASSUME Shape, HeldIsClaimed, ExclusiveClaim, CopyIsFresh, LaterMeansFailed, [Next]_vars
             PROVE  (CopyIsFresh /\ LaterMeansFailed)'
    OBVIOUS
<1> USE DEF Shape, TypeOK, InHand, Row, Statuses, Pcs, Actors, Items,
            tables, actors, bounds, history, Absent, NewRow,
            CopyIsFresh, LaterMeansFailed, Held, HeldIsClaimed, ExclusiveClaim
<1>1. ASSUME NEW e \in Events, EmitEvent(e)
       PROVE  (CopyIsFresh /\ LaterMeansFailed)'
  BY <1>1 DEF EmitEvent
<1>2. ASSUME NEW s \in Subs, UpdateSubscription(s)
       PROVE  (CopyIsFresh /\ LaterMeansFailed)'
  BY <1>2 DEF UpdateSubscription
<1>3. ASSUME NEW s \in Subs, DeleteSubscription(s)
       PROVE  (CopyIsFresh /\ LaterMeansFailed)'
  BY <1>3 DEF DeleteSubscription
<1>4. ASSUME NEW t \in Tasks, NEW d \in Deliveries, TestSubscription(t, d)
       PROVE  (CopyIsFresh /\ LaterMeansFailed)'
  BY <1>4 DEF TestSubscription
<1>5. ASSUME NEW t \in Tasks, DetachedDispatch(t)
       PROVE  (CopyIsFresh /\ LaterMeansFailed)'
  BY <1>5 DEF DetachedDispatch, Finish
<1>6. ASSUME NEW w \in Workers, Start(w)
       PROVE  (CopyIsFresh /\ LaterMeansFailed)'
  BY <1>6 DEF Start
<1>7. ASSUME NEW w \in Workers, Claim(w)
       PROVE  (CopyIsFresh /\ LaterMeansFailed)'
  <2>1. PICK E \in Batches(Events), D \in Batches(Deliveries) :
           rows' = [i \in Items |-> IF i \in E \cup D
                                    THEN [rows[i] EXCEPT !.status = "processing"]
                                    ELSE rows[i]]
    BY <1>7 DEF Claim
  <2>2. UNCHANGED <<cur, copy, contended>>
    BY <1>7 DEF Claim
  <2>3. E \cup D \in SUBSET Items /\ \A i \in E \cup D : Claimable(i)
    BY DEF Batches
  <2>4. \A i \in (E \cup D) \ contended, b \in Actors : cur[b] # i
    BY <2>3 DEF Claimable
  <2>5. CopyIsFresh'
    BY <2>1, <2>2, <2>4
  <2>6. LaterMeansFailed'
    BY <2>1, <2>2, <2>3 DEF Claimable
  <2>7. QED BY <2>5, <2>6
<1>8. ASSUME NEW w \in Workers, Leave(w)
       PROVE  (CopyIsFresh /\ LaterMeansFailed)'
  BY <1>8 DEF Leave
<1>9. ASSUME NEW w \in Workers, LoadEvent(w)
       PROVE  (CopyIsFresh /\ LaterMeansFailed)'
  BY <1>9 DEF LoadEvent, TakeUp
<1>10. ASSUME NEW w \in Workers, CountEventAttempt(w)
       PROVE  (CopyIsFresh /\ LaterMeansFailed)'
  <2> DEFINE r == [rows[cur[w]] EXCEPT !.attempts = copy[w].attempts + 1]
  <2>a. cur[w] \in Items
    BY <1>10 DEF CountEventAttempt
  <2>b. Store(cur[w], r)
    BY <1>10 DEF CountEventAttempt
  <2>c. /\ r.status = rows[cur[w]].status
        /\ r.attempts = copy[w].attempts + 1
        /\ r.retry = rows[cur[w]].retry
    BY <2>a
  <2>. HIDE DEF r
  <2>1. \A j \in Items : j # cur[w] => rows'[j] = rows[j]
    BY <2>a, <2>b, StoreEffect
  <2>2. rows[cur[w]].status # "deleted" => rows'[cur[w]] = r
    BY <2>a, <2>b, StoreEffect
  <2>3. rows[cur[w]].status = "deleted" => rows'[cur[w]] = rows[cur[w]]
    BY <2>a, <2>b, StoreEffect
  <2>4. /\ copy' = [copy EXCEPT ![w] = [copy[w] EXCEPT !.attempts = copy[w].attempts + 1]]
        /\ UNCHANGED <<cur, contended>>
    BY <1>10 DEF CountEventAttempt, Goto
  <2>5. CopyIsFresh'
    <3> SUFFICES ASSUME NEW i \in Items \ contended, NEW b \in Actors,
                        cur[b] = i, rows'[i].status # "deleted"
                 PROVE  copy'[b] = rows'[i]
      BY <2>4
    <3>1. CASE b = w
      <4>1. rows[i].status # "deleted"
        BY <2>3, <3>1
      <4>2. copy[b] = rows[i]
        BY <4>1
      <4>3. copy'[b] = [copy[b] EXCEPT !.attempts = copy[b].attempts + 1]
        BY <2>4, <3>1
      <4>4. r = [copy[b] EXCEPT !.attempts = copy[b].attempts + 1]
        BY <3>1, <4>2 DEF r
      <4>5. QED BY <2>2, <3>1, <4>1, <4>3, <4>4
    <3>2. CASE b # w
      <4>1. i # cur[w]
        BY <2>a, <3>2
      <4>2. rows'[i] = rows[i] /\ copy'[b] = copy[b]
        BY <2>1, <2>4, <3>2, <4>1
      <4>3. QED BY <4>2
    <3>3. QED BY <3>1, <3>2
  <2>6. LaterMeansFailed'
    <3>1. \A j \in Items : rows'[j].status = rows[j].status /\ rows'[j].retry = rows[j].retry
      BY <2>1, <2>2, <2>3, <2>c
    <3>2. QED BY <2>4, <3>1
  <2>7. QED BY <2>5, <2>6
<1>11. ASSUME NEW w \in Workers, EnqueueWebhooks(w)
       PROVE  (CopyIsFresh /\ LaterMeansFailed)'
  BY <1>11 DEF EnqueueWebhooks, Goto
<1>12. ASSUME NEW w \in Workers, MarkProcessed(w)
       PROVE  (CopyIsFresh /\ LaterMeansFailed)'
  <2> DEFINE r == [rows[cur[w]] EXCEPT !.status = Column(copy[w].status, @, "processed")]
  <2>a. cur[w] \in Items
    BY <1>12 DEF MarkProcessed
  <2>b. Store(cur[w], r)
    BY <1>12 DEF MarkProcessed
  <2>c. /\ r.status = Column(copy[w].status, rows[cur[w]].status, "processed")
        /\ r.attempts = rows[cur[w]].attempts
        /\ r.retry = rows[cur[w]].retry
    BY <2>a
  <2>. HIDE DEF r
  <2>1. \A j \in Items : j # cur[w] => rows'[j] = rows[j]
    BY <2>a, <2>b, StoreEffect
  <2>2. cur'[w] = NoItem /\ copy' = [copy EXCEPT ![w] = Absent] /\ UNCHANGED contended
    BY <1>12 DEF MarkProcessed, Finish
  <2>3. \A b \in Actors : b # w => cur'[b] = cur[b] /\ copy'[b] = copy[b]
    BY <1>12 DEF MarkProcessed, Finish
  <2>5. CopyIsFresh'
    <3> SUFFICES ASSUME NEW i \in Items \ contended, NEW b \in Actors,
                        cur'[b] = i, rows'[i].status # "deleted"
                 PROVE  copy'[b] = rows'[i]
      BY <2>2
    <3>1. b # w /\ cur[b] = i
      BY <2>2, <2>3
    <3>2. i # cur[w]
      BY <2>a, <3>1
    <3>3. QED BY <2>1, <2>3, <3>1, <3>2
  <2>6. LaterMeansFailed'
    <3> SUFFICES ASSUME NEW i \in Items \ contended, rows'[i].retry = "later"
                 PROVE  rows'[i].status = "failed"
      BY <2>2
    <3>1. CASE i # cur[w]
      BY <2>1, <3>1
    <3>2. CASE i = cur[w]
      <4>1. CASE rows'[i] = rows[i]
        BY <4>1
      <4>2. CASE rows'[i] # rows[i]
        <5>1. rows[i].status # "deleted" /\ rows'[i] = r
          BY <2>a, <2>b, <3>2, <4>2, StoreEffect
        <5>2. copy[w] = rows[i] /\ rows[i].status = "processing"
          BY <2>a, <3>2, <5>1
        <5>3. QED BY <2>c, <3>2, <5>1, <5>2 DEF Column
      <4>3. QED BY <4>1, <4>2
    <3>3. QED BY <3>1, <3>2
  <2>7. QED BY <2>5, <2>6
<1>13. ASSUME NEW w \in Workers, HandlerRaises(w)
       PROVE  (CopyIsFresh /\ LaterMeansFailed)'
  BY <1>13 DEF HandlerRaises, Goto
<1>14. ASSUME NEW w \in Workers, RecordFailure(w)
       PROVE  (CopyIsFresh /\ LaterMeansFailed)'
  <2> DEFINE r == [rows[cur[w]] EXCEPT !.status = Column(copy[w].status, @, "failed"),
                    !.retry  = IF copy[w].attempts < MaxAttempts THEN "later"
                               ELSE Column(copy[w].retry, @, "null")]
  <2>a. cur[w] \in Items
    BY <1>14 DEF RecordFailure
  <2>b. Store(cur[w], r)
    BY <1>14 DEF RecordFailure
  <2>c. /\ r.status = Column(copy[w].status, rows[cur[w]].status, "failed")
        /\ r.attempts = rows[cur[w]].attempts
        /\ r.retry = IF copy[w].attempts < MaxAttempts THEN "later"
                        ELSE Column(copy[w].retry, rows[cur[w]].retry, "null")
    BY <2>a
  <2>. HIDE DEF r
  <2>1. \A j \in Items : j # cur[w] => rows'[j] = rows[j]
    BY <2>a, <2>b, StoreEffect
  <2>2. cur'[w] = NoItem /\ copy' = [copy EXCEPT ![w] = Absent] /\ UNCHANGED contended
    BY <1>14 DEF RecordFailure, Finish
  <2>3. \A b \in Actors : b # w => cur'[b] = cur[b] /\ copy'[b] = copy[b]
    BY <1>14 DEF RecordFailure, Finish
  <2>5. CopyIsFresh'
    <3> SUFFICES ASSUME NEW i \in Items \ contended, NEW b \in Actors,
                        cur'[b] = i, rows'[i].status # "deleted"
                 PROVE  copy'[b] = rows'[i]
      BY <2>2
    <3>1. b # w /\ cur[b] = i
      BY <2>2, <2>3
    <3>2. i # cur[w]
      BY <2>a, <3>1
    <3>3. QED BY <2>1, <2>3, <3>1, <3>2
  <2>6. LaterMeansFailed'
    <3> SUFFICES ASSUME NEW i \in Items \ contended, rows'[i].retry = "later"
                 PROVE  rows'[i].status = "failed"
      BY <2>2
    <3>1. CASE i # cur[w]
      BY <2>1, <3>1
    <3>2. CASE i = cur[w]
      <4>1. CASE rows'[i] = rows[i]
        BY <4>1
      <4>2. CASE rows'[i] # rows[i]
        <5>1. rows[i].status # "deleted" /\ rows'[i] = r
          BY <2>a, <2>b, <3>2, <4>2, StoreEffect
        <5>2. copy[w] = rows[i] /\ rows[i].status = "processing"
          BY <2>a, <3>2, <5>1
        <5>3. QED BY <2>c, <3>2, <5>1, <5>2 DEF Column
      <4>3. QED BY <4>1, <4>2
    <3>3. QED BY <3>1, <3>2
  <2>7. QED BY <2>5, <2>6
<1>15. ASSUME NEW w \in Workers, LoadDelivery(w)
       PROVE  (CopyIsFresh /\ LaterMeansFailed)'
  <2>1. UNCHANGED <<rows, contended>>
    BY <1>15 DEF LoadDelivery
  <2>2. \/ UNCHANGED <<cur, copy>>
        \/ \E d \in todo[w] : /\ cur' = [cur EXCEPT ![w] = d]
                               /\ copy' = [copy EXCEPT ![w] = rows[d]]
    BY <1>15 DEF LoadDelivery, TakeUp
  <2>3. CopyIsFresh'
    <3>1. CASE UNCHANGED <<cur, copy>>
      BY <2>1, <3>1
    <3>2. CASE ~UNCHANGED <<cur, copy>>
      <4>1. PICK d \in todo[w] : /\ cur' = [cur EXCEPT ![w] = d]
                                /\ copy' = [copy EXCEPT ![w] = rows[d]]
        BY <2>2, <3>2
      <4>2. QED BY <2>1, <4>1
    <3>3. QED BY <3>1, <3>2
  <2>4. LaterMeansFailed'
    BY <2>1
  <2>5. QED BY <2>3, <2>4
<1>16. ASSUME NEW a \in Actors, RefuseDelivery(a)
       PROVE  (CopyIsFresh /\ LaterMeansFailed)'
  <2>1. CopyIsFresh'
    BY <1>16 DEF RefuseDelivery, Finish, Store
  <2>2. /\ contended' = contended
        /\ \A j \in Items : /\ rows'[j].retry = rows[j].retry
                             /\ rows'[j].status \in {rows[j].status, "failed"}
    <3> DEFINE r == [rows[cur[a]] EXCEPT !.status = Column(copy[a].status, @, "failed")]
    <3>1. /\ cur[a] \in Items /\ Store(cur[a], r)
          /\ contended' = contended
      BY <1>16 DEF RefuseDelivery
    <3>2. r.retry = rows[cur[a]].retry /\ r.status \in {rows[cur[a]].status, "failed"}
      BY <3>1 DEF Column
    <3>. HIDE DEF r
    <3>3. \A j \in Items : rows'[j] = rows[j] \/ (j = cur[a] /\ rows'[j] = r)
      BY <3>1, StoreEffect
    <3>4. QED BY <3>1, <3>2, <3>3
  <2>3. LaterMeansFailed'
    BY <2>2
  <2>4. QED BY <2>1, <2>3
<1>17. ASSUME NEW a \in Actors, CountDeliveryAttempt(a)
       PROVE  (CopyIsFresh /\ LaterMeansFailed)'
  <2> DEFINE r == [rows[cur[a]] EXCEPT !.attempts = copy[a].attempts + 1]
  <2>a. cur[a] \in Items
    BY <1>17 DEF CountDeliveryAttempt
  <2>b. Store(cur[a], r)
    BY <1>17 DEF CountDeliveryAttempt
  <2>c. /\ r.status = rows[cur[a]].status
        /\ r.attempts = copy[a].attempts + 1
        /\ r.retry = rows[cur[a]].retry
    BY <2>a
  <2>. HIDE DEF r
  <2>1. \A j \in Items : j # cur[a] => rows'[j] = rows[j]
    BY <2>a, <2>b, StoreEffect
  <2>2. rows[cur[a]].status # "deleted" => rows'[cur[a]] = r
    BY <2>a, <2>b, StoreEffect
  <2>3. rows[cur[a]].status = "deleted" => rows'[cur[a]] = rows[cur[a]]
    BY <2>a, <2>b, StoreEffect
  <2>4. /\ copy' = [copy EXCEPT ![a] = [copy[a] EXCEPT !.attempts = copy[a].attempts + 1]]
        /\ UNCHANGED <<cur, contended>>
    BY <1>17 DEF CountDeliveryAttempt, Goto
  <2>5. CopyIsFresh'
    <3> SUFFICES ASSUME NEW i \in Items \ contended, NEW b \in Actors,
                        cur[b] = i, rows'[i].status # "deleted"
                 PROVE  copy'[b] = rows'[i]
      BY <2>4
    <3>1. CASE b = a
      <4>1. rows[i].status # "deleted"
        BY <2>3, <3>1
      <4>2. copy[b] = rows[i]
        BY <4>1
      <4>3. copy'[b] = [copy[b] EXCEPT !.attempts = copy[b].attempts + 1]
        BY <2>4, <3>1
      <4>4. r = [copy[b] EXCEPT !.attempts = copy[b].attempts + 1]
        BY <3>1, <4>2 DEF r
      <4>5. QED BY <2>2, <3>1, <4>1, <4>3, <4>4
    <3>2. CASE b # a
      <4>1. i # cur[a]
        BY <2>a, <3>2
      <4>2. rows'[i] = rows[i] /\ copy'[b] = copy[b]
        BY <2>1, <2>4, <3>2, <4>1
      <4>3. QED BY <4>2
    <3>3. QED BY <3>1, <3>2
  <2>6. LaterMeansFailed'
    <3>1. \A j \in Items : rows'[j].status = rows[j].status /\ rows'[j].retry = rows[j].retry
      BY <2>1, <2>2, <2>3, <2>c
    <3>2. QED BY <2>4, <3>1
  <2>7. QED BY <2>5, <2>6
<1>18. ASSUME NEW a \in Actors, PostAccepted(a)
       PROVE  (CopyIsFresh /\ LaterMeansFailed)'
  BY <1>18 DEF PostAccepted, Goto
<1>19. ASSUME NEW a \in Actors, SaveDelivered(a)
       PROVE  (CopyIsFresh /\ LaterMeansFailed)'
  <2> DEFINE r == [rows[cur[a]] EXCEPT !.status = Column(copy[a].status, @, "delivered")]
  <2>a. cur[a] \in Items
    BY <1>19 DEF SaveDelivered
  <2>b. Store(cur[a], r)
    BY <1>19 DEF SaveDelivered
  <2>c. /\ r.status = Column(copy[a].status, rows[cur[a]].status, "delivered")
        /\ r.attempts = rows[cur[a]].attempts
        /\ r.retry = rows[cur[a]].retry
    BY <2>a
  <2>. HIDE DEF r
  <2>1. \A j \in Items : j # cur[a] => rows'[j] = rows[j]
    BY <2>a, <2>b, StoreEffect
  <2>2. cur'[a] = NoItem /\ copy' = [copy EXCEPT ![a] = Absent] /\ UNCHANGED contended
    BY <1>19 DEF SaveDelivered, Finish
  <2>3. \A b \in Actors : b # a => cur'[b] = cur[b] /\ copy'[b] = copy[b]
    BY <1>19 DEF SaveDelivered, Finish
  <2>5. CopyIsFresh'
    <3> SUFFICES ASSUME NEW i \in Items \ contended, NEW b \in Actors,
                        cur'[b] = i, rows'[i].status # "deleted"
                 PROVE  copy'[b] = rows'[i]
      BY <2>2
    <3>1. b # a /\ cur[b] = i
      BY <2>2, <2>3
    <3>2. i # cur[a]
      BY <2>a, <3>1
    <3>3. QED BY <2>1, <2>3, <3>1, <3>2
  <2>6. LaterMeansFailed'
    <3> SUFFICES ASSUME NEW i \in Items \ contended, rows'[i].retry = "later"
                 PROVE  rows'[i].status = "failed"
      BY <2>2
    <3>1. CASE i # cur[a]
      BY <2>1, <3>1
    <3>2. CASE i = cur[a]
      <4>1. CASE rows'[i] = rows[i]
        BY <4>1
      <4>2. CASE rows'[i] # rows[i]
        <5>1. rows[i].status # "deleted" /\ rows'[i] = r
          BY <2>a, <2>b, <3>2, <4>2, StoreEffect
        <5>2. copy[a] = rows[i] /\ rows[i].status = "processing"
          BY <2>a, <3>2, <5>1
        <5>3. QED BY <2>c, <3>2, <5>1, <5>2 DEF Column
      <4>3. QED BY <4>1, <4>2
    <3>3. QED BY <3>1, <3>2
  <2>7. QED BY <2>5, <2>6
<1>20. ASSUME NEW a \in Actors, PostRejected(a)
       PROVE  (CopyIsFresh /\ LaterMeansFailed)'
  <2> DEFINE r == [rows[cur[a]] EXCEPT !.status = Column(copy[a].status, @, "failed"),
                    !.retry  = IF copy[a].attempts < AttemptLimit(a) THEN "later"
                               ELSE Column(copy[a].retry, @, "null")]
  <2>a. cur[a] \in Items
    BY <1>20 DEF PostRejected
  <2>b. Store(cur[a], r)
    BY <1>20 DEF PostRejected
  <2>c. /\ r.status = Column(copy[a].status, rows[cur[a]].status, "failed")
        /\ r.attempts = rows[cur[a]].attempts
        /\ r.retry = IF copy[a].attempts < AttemptLimit(a) THEN "later"
                        ELSE Column(copy[a].retry, rows[cur[a]].retry, "null")
    BY <2>a
  <2>. HIDE DEF r
  <2>1. \A j \in Items : j # cur[a] => rows'[j] = rows[j]
    BY <2>a, <2>b, StoreEffect
  <2>2. cur'[a] = NoItem /\ copy' = [copy EXCEPT ![a] = Absent] /\ UNCHANGED contended
    BY <1>20 DEF PostRejected, Finish
  <2>3. \A b \in Actors : b # a => cur'[b] = cur[b] /\ copy'[b] = copy[b]
    BY <1>20 DEF PostRejected, Finish
  <2>5. CopyIsFresh'
    <3> SUFFICES ASSUME NEW i \in Items \ contended, NEW b \in Actors,
                        cur'[b] = i, rows'[i].status # "deleted"
                 PROVE  copy'[b] = rows'[i]
      BY <2>2
    <3>1. b # a /\ cur[b] = i
      BY <2>2, <2>3
    <3>2. i # cur[a]
      BY <2>a, <3>1
    <3>3. QED BY <2>1, <2>3, <3>1, <3>2
  <2>6. LaterMeansFailed'
    <3> SUFFICES ASSUME NEW i \in Items \ contended, rows'[i].retry = "later"
                 PROVE  rows'[i].status = "failed"
      BY <2>2
    <3>1. CASE i # cur[a]
      BY <2>1, <3>1
    <3>2. CASE i = cur[a]
      <4>1. CASE rows'[i] = rows[i]
        BY <4>1
      <4>2. CASE rows'[i] # rows[i]
        <5>1. rows[i].status # "deleted" /\ rows'[i] = r
          BY <2>a, <2>b, <3>2, <4>2, StoreEffect
        <5>2. copy[a] = rows[i] /\ rows[i].status = "processing"
          BY <2>a, <3>2, <5>1
        <5>3. QED BY <2>c, <3>2, <5>1, <5>2 DEF Column
      <4>3. QED BY <4>1, <4>2
    <3>3. QED BY <3>1, <3>2
  <2>7. QED BY <2>5, <2>6
<1>21. ASSUME NEW a \in Actors, DispatchRaises(a)
       PROVE  (CopyIsFresh /\ LaterMeansFailed)'
  <2> DEFINE r == [rows[cur[a]] EXCEPT !.status = Column(copy[a].status, @, "failed")]
  <2>a. cur[a] \in Items
    BY <1>21 DEF DispatchRaises
  <2>b. Store(cur[a], r) \/ UNCHANGED <<rows, aged>>
    BY <1>21 DEF DispatchRaises
  <2>c. /\ r.status = Column(copy[a].status, rows[cur[a]].status, "failed")
        /\ r.attempts = rows[cur[a]].attempts
        /\ r.retry = rows[cur[a]].retry
    BY <2>a
  <2>. HIDE DEF r
  <2>1. \A j \in Items : j # cur[a] => rows'[j] = rows[j]
    BY <2>a, <2>b, StoreEffect
  <2>2. cur'[a] = NoItem /\ copy' = [copy EXCEPT ![a] = Absent] /\ UNCHANGED contended
    BY <1>21 DEF DispatchRaises, Finish
  <2>3. \A b \in Actors : b # a => cur'[b] = cur[b] /\ copy'[b] = copy[b]
    BY <1>21 DEF DispatchRaises, Finish
  <2>5. CopyIsFresh'
    <3> SUFFICES ASSUME NEW i \in Items \ contended, NEW b \in Actors,
                        cur'[b] = i, rows'[i].status # "deleted"
                 PROVE  copy'[b] = rows'[i]
      BY <2>2
    <3>1. b # a /\ cur[b] = i
      BY <2>2, <2>3
    <3>2. i # cur[a]
      BY <2>a, <3>1
    <3>3. QED BY <2>1, <2>3, <3>1, <3>2
  <2>6. LaterMeansFailed'
    <3> SUFFICES ASSUME NEW i \in Items \ contended, rows'[i].retry = "later"
                 PROVE  rows'[i].status = "failed"
      BY <2>2
    <3>1. CASE i # cur[a]
      BY <2>1, <3>1
    <3>2. CASE i = cur[a]
      <4>1. CASE rows'[i] = rows[i]
        BY <4>1
      <4>2. CASE rows'[i] # rows[i]
        <5>1. rows[i].status # "deleted" /\ rows'[i] = r
          BY <2>a, <2>b, <3>2, <4>2, StoreEffect
        <5>2. copy[a] = rows[i] /\ rows[i].status = "processing"
          BY <2>a, <3>2, <5>1
        <5>3. QED BY <2>c, <3>2, <5>1, <5>2 DEF Column
      <4>3. QED BY <4>1, <4>2
    <3>3. QED BY <3>1, <3>2
  <2>7. QED BY <2>5, <2>6
<1>22. ASSUME NEW w \in Workers, ClaimRolledBack(w)
       PROVE  (CopyIsFresh /\ LaterMeansFailed)'
  BY <1>22 DEF ClaimRolledBack, Batches
<1>23. ASSUME NEW w \in Workers, Stop(w)
       PROVE  (CopyIsFresh /\ LaterMeansFailed)'
  BY <1>23 DEF Stop
<1>24. ASSUME NEW w \in Workers, EventCommitFails(w)
       PROVE  (CopyIsFresh /\ LaterMeansFailed)'
  BY <1>24 DEF EventCommitFails, Goto
<1>25. ASSUME NEW w \in Workers, FailureNotSaved(w)
       PROVE  (CopyIsFresh /\ LaterMeansFailed)'
  BY <1>25 DEF FailureNotSaved, Finish
<1>26. ASSUME NEW a \in Actors, Crash(a)
       PROVE  (CopyIsFresh /\ LaterMeansFailed)'
  BY <1>26 DEF Crash
<1>27. ASSUME NEW a \in Actors, DeliveryCommitFails(a)
       PROVE  (CopyIsFresh /\ LaterMeansFailed)'
  BY <1>27 DEF DeliveryCommitFails, Finish
<1>28. ASSUME NEW i \in Items, LeaseExpires(i)
       PROVE  (CopyIsFresh /\ LaterMeansFailed)'
  BY <1>28 DEF LeaseExpires
<1>29. ASSUME NEW i \in Items, LeaseOverrun(i)
       PROVE  (CopyIsFresh /\ LaterMeansFailed)'
  BY <1>29 DEF LeaseOverrun
<1>30. ASSUME NEW i \in Items, RetryDue(i)
       PROVE  (CopyIsFresh /\ LaterMeansFailed)'
  BY <1>30 DEF RetryDue
<1>31. CASE UNCHANGED vars
  BY <1>31 DEF vars
<1>32. QED
  BY <1>1, <1>2, <1>3, <1>4, <1>5, <1>6, <1>7, <1>8, <1>9, <1>10, <1>11, <1>12, <1>13, <1>14, <1>15, <1>16, <1>17, <1>18, <1>19, <1>20, <1>21, <1>22, <1>23, <1>24, <1>25, <1>26, <1>27, <1>28, <1>29, <1>30, <1>31
  DEF Next, ApiStep, WorkerStep, EventStep, DispatchStep, FaultStep, TaskStep, TimeStep

\* A final status is only written after the work it reports.
LEMMA OutcomesStep ==
    Shape /\ AboutToFinish /\ OutcomeEarned /\ [Next]_vars => (AboutToFinish /\ OutcomeEarned)'
<1> SUFFICES ASSUME Shape, AboutToFinish, OutcomeEarned, [Next]_vars
             PROVE  (AboutToFinish /\ OutcomeEarned)'
    OBVIOUS
<1> USE DEF Shape, TypeOK, InHand, Row, Statuses, Pcs, Actors, Items,
            tables, actors, bounds, history, Absent, NewRow,
            AboutToFinish, OutcomeEarned
<1>1. ASSUME NEW e \in Events, EmitEvent(e)
       PROVE  (AboutToFinish /\ OutcomeEarned)'
  BY <1>1 DEF EmitEvent
<1>2. ASSUME NEW s \in Subs, UpdateSubscription(s)
       PROVE  (AboutToFinish /\ OutcomeEarned)'
  BY <1>2 DEF UpdateSubscription
<1>3. ASSUME NEW s \in Subs, DeleteSubscription(s)
       PROVE  (AboutToFinish /\ OutcomeEarned)'
  BY <1>3 DEF DeleteSubscription
<1>4. ASSUME NEW t \in Tasks, NEW d \in Deliveries, TestSubscription(t, d)
       PROVE  (AboutToFinish /\ OutcomeEarned)'
  BY <1>4 DEF TestSubscription
<1>5. ASSUME NEW t \in Tasks, DetachedDispatch(t)
       PROVE  (AboutToFinish /\ OutcomeEarned)'
  BY <1>5 DEF DetachedDispatch, Finish
<1>6. ASSUME NEW w \in Workers, Start(w)
       PROVE  (AboutToFinish /\ OutcomeEarned)'
  BY <1>6 DEF Start
<1>7. ASSUME NEW w \in Workers, Claim(w)
       PROVE  (AboutToFinish /\ OutcomeEarned)'
  BY <1>7 DEF Claim, Batches
<1>8. ASSUME NEW w \in Workers, Leave(w)
       PROVE  (AboutToFinish /\ OutcomeEarned)'
  BY <1>8 DEF Leave
<1>9. ASSUME NEW w \in Workers, LoadEvent(w)
       PROVE  (AboutToFinish /\ OutcomeEarned)'
  BY <1>9 DEF LoadEvent, TakeUp
<1>10. ASSUME NEW w \in Workers, CountEventAttempt(w)
       PROVE  (AboutToFinish /\ OutcomeEarned)'
  <2>a. /\ cur[w] \in Items /\ copy[w].attempts + 1 \in Nat
        /\ Store(cur[w], [rows[cur[w]] EXCEPT !.attempts = copy[w].attempts + 1])
    BY <1>10 DEF CountEventAttempt
  <2>1. \A j \in Items : rows'[j].status = rows[j].status
    BY <2>a, AttemptsStore
  <2>2. /\ pc' = [pc EXCEPT ![w] = "run"]
        /\ UNCHANGED <<cur, done>>
    BY <1>10 DEF CountEventAttempt, Goto
  <2>3. AboutToFinish'
    BY <2>2
  <2>4. OutcomeEarned'
    BY <2>1, <2>2
  <2>5. QED BY <2>3, <2>4
<1>11. ASSUME NEW w \in Workers, EnqueueWebhooks(w)
       PROVE  (AboutToFinish /\ OutcomeEarned)'
  BY <1>11 DEF EnqueueWebhooks, Goto
<1>12. ASSUME NEW w \in Workers, MarkProcessed(w)
       PROVE  (AboutToFinish /\ OutcomeEarned)'
  <2>1. /\ cur[w] \in Items /\ done[cur[w]] >= 1 /\ done' = done
        /\ \A j \in Items : j # cur[w] => rows'[j] = rows[j]
    BY <1>12 DEF MarkProcessed, Store
  <2>2. AboutToFinish'
    BY <1>12, <2>1 DEF MarkProcessed, Finish
  <2>3. OutcomeEarned'
    BY <2>1
  <2>4. QED BY <2>2, <2>3
<1>13. ASSUME NEW w \in Workers, HandlerRaises(w)
       PROVE  (AboutToFinish /\ OutcomeEarned)'
  BY <1>13 DEF HandlerRaises, Goto
<1>14. ASSUME NEW w \in Workers, RecordFailure(w)
       PROVE  (AboutToFinish /\ OutcomeEarned)'
  <2> DEFINE r == [rows[cur[w]] EXCEPT !.status = Column(copy[w].status, @, "failed"),
                    !.retry  = IF copy[w].attempts < MaxAttempts THEN "later"
                               ELSE Column(copy[w].retry, @, "null")]
  <2>a. cur[w] \in Items
    BY <1>14 DEF RecordFailure
  <2>b. Store(cur[w], r)
    BY <1>14 DEF RecordFailure
  <2>c. /\ r.status = Column(copy[w].status, rows[cur[w]].status, "failed")
        /\ r.attempts = rows[cur[w]].attempts
        /\ r.retry = IF copy[w].attempts < MaxAttempts THEN "later"
                        ELSE Column(copy[w].retry, rows[cur[w]].retry, "null")
    BY <2>a
  <2>. HIDE DEF r
  <2>1. \A j \in Items :
           (rows'[j].status = rows[j].status) \/ (j = cur[w] /\ rows'[j].status = "failed")
    BY <2>a, <2>b, <2>c, StoreEffect DEF Column
  <2>2. UNCHANGED done /\ \A b \in Actors : b # w => pc'[b] = pc[b] /\ cur'[b] = cur[b]
    BY <1>14 DEF RecordFailure, Finish
  <2>3. pc'[w] \in {"off", "poll", "work"}
    BY <1>14 DEF RecordFailure, Finish
  <2>4. QED BY <1>14, <2>1, <2>2, <2>3
<1>15. ASSUME NEW w \in Workers, LoadDelivery(w)
       PROVE  (AboutToFinish /\ OutcomeEarned)'
  BY <1>15 DEF LoadDelivery, TakeUp
<1>16. ASSUME NEW a \in Actors, RefuseDelivery(a)
       PROVE  (AboutToFinish /\ OutcomeEarned)'
  <2> DEFINE r == [rows[cur[a]] EXCEPT !.status = Column(copy[a].status, @, "failed")]
  <2>a. cur[a] \in Items
    BY <1>16 DEF RefuseDelivery
  <2>b. Store(cur[a], r)
    BY <1>16 DEF RefuseDelivery
  <2>c. /\ r.status = Column(copy[a].status, rows[cur[a]].status, "failed")
        /\ r.attempts = rows[cur[a]].attempts
        /\ r.retry = rows[cur[a]].retry
    BY <2>a
  <2>. HIDE DEF r
  <2>1. \A j \in Items :
           (rows'[j].status = rows[j].status) \/ (j = cur[a] /\ rows'[j].status = "failed")
    BY <2>a, <2>b, <2>c, StoreEffect DEF Column
  <2>2. UNCHANGED done /\ \A b \in Actors : b # a => pc'[b] = pc[b] /\ cur'[b] = cur[b]
    BY <1>16 DEF RefuseDelivery, Finish
  <2>3. pc'[a] \in {"off", "poll", "work"}
    BY <1>16 DEF RefuseDelivery, Finish
  <2>4. QED BY <1>16, <2>1, <2>2, <2>3
<1>17. ASSUME NEW a \in Actors, CountDeliveryAttempt(a)
       PROVE  (AboutToFinish /\ OutcomeEarned)'
  BY <1>17 DEF CountDeliveryAttempt, Goto, Store, Column
<1>18. ASSUME NEW a \in Actors, PostAccepted(a)
       PROVE  (AboutToFinish /\ OutcomeEarned)'
  BY <1>18 DEF PostAccepted, Goto
<1>19. ASSUME NEW a \in Actors, SaveDelivered(a)
       PROVE  (AboutToFinish /\ OutcomeEarned)'
  <2> DEFINE r == [rows[cur[a]] EXCEPT !.status = Column(copy[a].status, @, "delivered")]
  <2>a. cur[a] \in Items
    BY <1>19 DEF SaveDelivered
  <2>b. Store(cur[a], r)
    BY <1>19 DEF SaveDelivered
  <2>c. /\ r.status = Column(copy[a].status, rows[cur[a]].status, "delivered")
        /\ r.attempts = rows[cur[a]].attempts
        /\ r.retry = rows[cur[a]].retry
    BY <2>a
  <2>. HIDE DEF r
  <2>1. \A j \in Items :
           (rows'[j].status = rows[j].status) \/ (j = cur[a] /\ rows'[j].status = "delivered")
    BY <2>a, <2>b, <2>c, StoreEffect DEF Column
  <2>2. UNCHANGED done /\ \A b \in Actors : b # a => pc'[b] = pc[b] /\ cur'[b] = cur[b]
    BY <1>19 DEF SaveDelivered, Finish
  <2>3. pc'[a] \in {"off", "poll", "work"}
    BY <1>19 DEF SaveDelivered, Finish
  <2>4. QED BY <1>19, <2>1, <2>2, <2>3 DEF SaveDelivered
<1>20. ASSUME NEW a \in Actors, PostRejected(a)
       PROVE  (AboutToFinish /\ OutcomeEarned)'
  <2> DEFINE r == [rows[cur[a]] EXCEPT !.status = Column(copy[a].status, @, "failed"),
                    !.retry  = IF copy[a].attempts < AttemptLimit(a) THEN "later"
                               ELSE Column(copy[a].retry, @, "null")]
  <2>a. cur[a] \in Items
    BY <1>20 DEF PostRejected
  <2>b. Store(cur[a], r)
    BY <1>20 DEF PostRejected
  <2>c. /\ r.status = Column(copy[a].status, rows[cur[a]].status, "failed")
        /\ r.attempts = rows[cur[a]].attempts
        /\ r.retry = IF copy[a].attempts < AttemptLimit(a) THEN "later"
                        ELSE Column(copy[a].retry, rows[cur[a]].retry, "null")
    BY <2>a
  <2>. HIDE DEF r
  <2>1. \A j \in Items :
           (rows'[j].status = rows[j].status) \/ (j = cur[a] /\ rows'[j].status = "failed")
    BY <2>a, <2>b, <2>c, StoreEffect DEF Column
  <2>2. UNCHANGED done /\ \A b \in Actors : b # a => pc'[b] = pc[b] /\ cur'[b] = cur[b]
    BY <1>20 DEF PostRejected, Finish
  <2>3. pc'[a] \in {"off", "poll", "work"}
    BY <1>20 DEF PostRejected, Finish
  <2>4. QED BY <1>20, <2>1, <2>2, <2>3
<1>21. ASSUME NEW a \in Actors, DispatchRaises(a)
       PROVE  (AboutToFinish /\ OutcomeEarned)'
  BY <1>21 DEF DispatchRaises, Finish, Store, Column
<1>22. ASSUME NEW w \in Workers, ClaimRolledBack(w)
       PROVE  (AboutToFinish /\ OutcomeEarned)'
  BY <1>22 DEF ClaimRolledBack, Batches
<1>23. ASSUME NEW w \in Workers, Stop(w)
       PROVE  (AboutToFinish /\ OutcomeEarned)'
  BY <1>23 DEF Stop
<1>24. ASSUME NEW w \in Workers, EventCommitFails(w)
       PROVE  (AboutToFinish /\ OutcomeEarned)'
  BY <1>24 DEF EventCommitFails, Goto
<1>25. ASSUME NEW w \in Workers, FailureNotSaved(w)
       PROVE  (AboutToFinish /\ OutcomeEarned)'
  BY <1>25 DEF FailureNotSaved, Finish
<1>26. ASSUME NEW a \in Actors, Crash(a)
       PROVE  (AboutToFinish /\ OutcomeEarned)'
  BY <1>26 DEF Crash
<1>27. ASSUME NEW a \in Actors, DeliveryCommitFails(a)
       PROVE  (AboutToFinish /\ OutcomeEarned)'
  BY <1>27 DEF DeliveryCommitFails, Finish
<1>28. ASSUME NEW i \in Items, LeaseExpires(i)
       PROVE  (AboutToFinish /\ OutcomeEarned)'
  BY <1>28 DEF LeaseExpires
<1>29. ASSUME NEW i \in Items, LeaseOverrun(i)
       PROVE  (AboutToFinish /\ OutcomeEarned)'
  BY <1>29 DEF LeaseOverrun
<1>30. ASSUME NEW i \in Items, RetryDue(i)
       PROVE  (AboutToFinish /\ OutcomeEarned)'
  BY <1>30 DEF RetryDue
<1>31. CASE UNCHANGED vars
  BY <1>31 DEF vars
<1>32. QED
  BY <1>1, <1>2, <1>3, <1>4, <1>5, <1>6, <1>7, <1>8, <1>9, <1>10, <1>11, <1>12, <1>13, <1>14, <1>15, <1>16, <1>17, <1>18, <1>19, <1>20, <1>21, <1>22, <1>23, <1>24, <1>25, <1>26, <1>27, <1>28, <1>29, <1>30, <1>31
  DEF Next, ApiStep, WorkerStep, EventStep, DispatchStep, FaultStep, TaskStep, TimeStep

\* The attempt count behind a retry date is the one in the table.
LEMMA StrandedStep ==
    Shape /\ CopyIsFresh /\ HeldIsClaimed /\ ExclusiveClaim /\ NoStrandedEvent /\ [Next]_vars => NoStrandedEvent'
<1> SUFFICES ASSUME Shape, CopyIsFresh, HeldIsClaimed, ExclusiveClaim, NoStrandedEvent, [Next]_vars
             PROVE  NoStrandedEvent'
    OBVIOUS
<1> USE DEF Shape, TypeOK, InHand, Row, Statuses, Pcs, Actors, Items,
            tables, actors, bounds, history, Absent, NewRow,
            NoStrandedEvent, CopyIsFresh, Held, HeldIsClaimed, ExclusiveClaim
<1>1. ASSUME NEW e \in Events, EmitEvent(e)
       PROVE  NoStrandedEvent'
  BY <1>1 DEF EmitEvent
<1>2. ASSUME NEW s \in Subs, UpdateSubscription(s)
       PROVE  NoStrandedEvent'
  BY <1>2 DEF UpdateSubscription
<1>3. ASSUME NEW s \in Subs, DeleteSubscription(s)
       PROVE  NoStrandedEvent'
  BY <1>3 DEF DeleteSubscription
<1>4. ASSUME NEW t \in Tasks, NEW d \in Deliveries, TestSubscription(t, d)
       PROVE  NoStrandedEvent'
  BY <1>4 DEF TestSubscription
<1>5. ASSUME NEW t \in Tasks, DetachedDispatch(t)
       PROVE  NoStrandedEvent'
  BY <1>5 DEF DetachedDispatch, Finish
<1>6. ASSUME NEW w \in Workers, Start(w)
       PROVE  NoStrandedEvent'
  BY <1>6 DEF Start
<1>7. ASSUME NEW w \in Workers, Claim(w)
       PROVE  NoStrandedEvent'
  BY <1>7 DEF Claim, Batches
<1>8. ASSUME NEW w \in Workers, Leave(w)
       PROVE  NoStrandedEvent'
  BY <1>8 DEF Leave
<1>9. ASSUME NEW w \in Workers, LoadEvent(w)
       PROVE  NoStrandedEvent'
  BY <1>9 DEF LoadEvent, TakeUp
<1>10. ASSUME NEW w \in Workers, CountEventAttempt(w)
       PROVE  NoStrandedEvent'
  <2>a. /\ cur[w] \in Items /\ copy[w].attempts + 1 \in Nat
        /\ Store(cur[w], [rows[cur[w]] EXCEPT !.attempts = copy[w].attempts + 1])
        /\ contended' = contended
    BY <1>10 DEF CountEventAttempt
  <2>1. \A j \in Items : /\ rows'[j].status = rows[j].status
                         /\ rows'[j].retry = rows[j].retry
                         /\ j # cur[w] => rows'[j] = rows[j]
    BY <2>a, AttemptsStore
  <2>2. cur[w] \notin contended => rows[cur[w]].status # "failed"
    BY <1>10 DEF CountEventAttempt
  <2>3. QED BY <2>a, <2>1, <2>2
<1>11. ASSUME NEW w \in Workers, EnqueueWebhooks(w)
       PROVE  NoStrandedEvent'
  BY <1>11 DEF EnqueueWebhooks, Goto
<1>12. ASSUME NEW w \in Workers, MarkProcessed(w)
       PROVE  NoStrandedEvent'
  BY <1>12 DEF MarkProcessed, Finish, Store, Column
<1>13. ASSUME NEW w \in Workers, HandlerRaises(w)
       PROVE  NoStrandedEvent'
  BY <1>13 DEF HandlerRaises, Goto
<1>14. ASSUME NEW w \in Workers, RecordFailure(w)
       PROVE  NoStrandedEvent'
  <2> DEFINE r == [rows[cur[w]] EXCEPT !.status = Column(copy[w].status, @, "failed"),
                    !.retry  = IF copy[w].attempts < MaxAttempts THEN "later"
                               ELSE Column(copy[w].retry, @, "null")]
  <2>a. cur[w] \in Items
    BY <1>14 DEF RecordFailure
  <2>b. Store(cur[w], r)
    BY <1>14 DEF RecordFailure
  <2>c. /\ r.status = Column(copy[w].status, rows[cur[w]].status, "failed")
        /\ r.attempts = rows[cur[w]].attempts
        /\ r.retry = IF copy[w].attempts < MaxAttempts THEN "later"
                        ELSE Column(copy[w].retry, rows[cur[w]].retry, "null")
    BY <2>a
  <2>. HIDE DEF r
  <2>1. \A j \in Items : j # cur[w] => rows'[j] = rows[j]
    BY <2>a, <2>b, StoreEffect
  <2>2. UNCHANGED contended
    BY <1>14 DEF RecordFailure
  <2>3. CASE rows[cur[w]].status = "deleted"
    BY <2>a, <2>b, <2>1, <2>2, <2>3, StoreEffect
  <2>4. CASE rows[cur[w]].status # "deleted"
    <3>1. rows'[cur[w]] = r
      BY <2>a, <2>b, <2>4, StoreEffect
    <3>2. cur[w] \notin contended => copy[w] = rows[cur[w]]
      BY <2>a, <2>4
    <3>3. cur[w] \notin contended /\ r.attempts < MaxAttempts => r.retry = "later"
      BY <2>c, <3>2
    <3>4. QED BY <2>1, <2>2, <3>1, <3>3
  <2>5. QED BY <2>3, <2>4
<1>15. ASSUME NEW w \in Workers, LoadDelivery(w)
       PROVE  NoStrandedEvent'
  BY <1>15 DEF LoadDelivery, TakeUp
<1>16. ASSUME NEW a \in Actors, RefuseDelivery(a)
       PROVE  NoStrandedEvent'
  BY <1>16 DEF RefuseDelivery, Finish, Store, Column
<1>17. ASSUME NEW a \in Actors, CountDeliveryAttempt(a)
       PROVE  NoStrandedEvent'
  <2> DEFINE r == [rows[cur[a]] EXCEPT !.attempts = copy[a].attempts + 1]
  <2>a. cur[a] \in Items
    BY <1>17 DEF CountDeliveryAttempt
  <2>b. Store(cur[a], r)
    BY <1>17 DEF CountDeliveryAttempt
  <2>c. /\ r.status = rows[cur[a]].status
        /\ r.attempts = copy[a].attempts + 1
        /\ r.retry = rows[cur[a]].retry
    BY <2>a
  <2>. HIDE DEF r
  <2>1. \A e \in Events : rows'[e] = rows[e]
    BY <1>17, <2>a, <2>b, StoreEffect DEF CountDeliveryAttempt
  <2>2. QED BY <1>17, <2>1 DEF CountDeliveryAttempt
<1>18. ASSUME NEW a \in Actors, PostAccepted(a)
       PROVE  NoStrandedEvent'
  BY <1>18 DEF PostAccepted, Goto
<1>19. ASSUME NEW a \in Actors, SaveDelivered(a)
       PROVE  NoStrandedEvent'
  <2>1. /\ \A e \in Events : rows'[e] = rows[e]
        /\ contended' = contended
    BY <1>19 DEF SaveDelivered, Store
  <2>2. QED BY <2>1
<1>20. ASSUME NEW a \in Actors, PostRejected(a)
       PROVE  NoStrandedEvent'
  BY <1>20 DEF PostRejected, Finish, Store, Column
<1>21. ASSUME NEW a \in Actors, DispatchRaises(a)
       PROVE  NoStrandedEvent'
  <2>1. cur[a] \in Deliveries /\ contended' = contended
    BY <1>21 DEF DispatchRaises
  <2>2. \A e \in Events : rows'[e] = rows[e]
    BY <1>21, <2>1, ConstantsAssumption DEF DispatchRaises, Store, ConstantsAssumption
  <2>3. QED BY <2>1, <2>2
<1>22. ASSUME NEW w \in Workers, ClaimRolledBack(w)
       PROVE  NoStrandedEvent'
  BY <1>22 DEF ClaimRolledBack, Batches
<1>23. ASSUME NEW w \in Workers, Stop(w)
       PROVE  NoStrandedEvent'
  BY <1>23 DEF Stop
<1>24. ASSUME NEW w \in Workers, EventCommitFails(w)
       PROVE  NoStrandedEvent'
  BY <1>24 DEF EventCommitFails, Goto
<1>25. ASSUME NEW w \in Workers, FailureNotSaved(w)
       PROVE  NoStrandedEvent'
  BY <1>25 DEF FailureNotSaved, Finish
<1>26. ASSUME NEW a \in Actors, Crash(a)
       PROVE  NoStrandedEvent'
  BY <1>26 DEF Crash
<1>27. ASSUME NEW a \in Actors, DeliveryCommitFails(a)
       PROVE  NoStrandedEvent'
  BY <1>27 DEF DeliveryCommitFails, Finish
<1>28. ASSUME NEW i \in Items, LeaseExpires(i)
       PROVE  NoStrandedEvent'
  BY <1>28 DEF LeaseExpires
<1>29. ASSUME NEW i \in Items, LeaseOverrun(i)
       PROVE  NoStrandedEvent'
  BY <1>29 DEF LeaseOverrun
<1>30. ASSUME NEW i \in Items, RetryDue(i)
       PROVE  NoStrandedEvent'
  BY <1>30 DEF RetryDue
<1>31. CASE UNCHANGED vars
  BY <1>31 DEF vars
<1>32. QED
  BY <1>1, <1>2, <1>3, <1>4, <1>5, <1>6, <1>7, <1>8, <1>9, <1>10, <1>11, <1>12, <1>13, <1>14, <1>15, <1>16, <1>17, <1>18, <1>19, <1>20, <1>21, <1>22, <1>23, <1>24, <1>25, <1>26, <1>27, <1>28, <1>29, <1>30, <1>31
  DEF Next, ApiStep, WorkerStep, EventStep, DispatchStep, FaultStep, TaskStep, TimeStep

\* A row under an exclusive claim is written by its holder only, or by the
\* poll that claims it.
LEMMA RowStep ==
    IInv /\ [Next]_vars =>
        \A i \in Items \ contended' : KeepsOutcome(i) /\ KeepsAttempts(i)
<1> SUFFICES ASSUME IInv, [Next]_vars, NEW i \in Items \ contended'
             PROVE  KeepsOutcome(i) /\ KeepsAttempts(i)
    OBVIOUS
<1> USE DEF IInv, TypeOK, InHand, Row, Statuses, Pcs, Actors, Items,
            tables, actors, bounds, history, Absent, NewRow,
            KeepsOutcome, KeepsAttempts, HeldIsClaimed, CopyIsFresh, Held
<1>1. ASSUME NEW e \in Events, EmitEvent(e)
       PROVE  KeepsOutcome(i) /\ KeepsAttempts(i)
  BY <1>1 DEF EmitEvent
<1>2. ASSUME NEW s \in Subs, UpdateSubscription(s)
       PROVE  KeepsOutcome(i) /\ KeepsAttempts(i)
  BY <1>2 DEF UpdateSubscription
<1>3. ASSUME NEW s \in Subs, DeleteSubscription(s)
       PROVE  KeepsOutcome(i) /\ KeepsAttempts(i)
  <2>1. rows'[i].status = "deleted" \/ rows'[i] = rows[i]
    BY <1>3 DEF DeleteSubscription
  <2>2. QED BY <2>1
<1>4. ASSUME NEW t \in Tasks, NEW d \in Deliveries, TestSubscription(t, d)
       PROVE  KeepsOutcome(i) /\ KeepsAttempts(i)
  BY <1>4 DEF TestSubscription
<1>5. ASSUME NEW t \in Tasks, DetachedDispatch(t)
       PROVE  KeepsOutcome(i) /\ KeepsAttempts(i)
  BY <1>5 DEF DetachedDispatch
<1>6. ASSUME NEW w \in Workers, Start(w)
       PROVE  KeepsOutcome(i) /\ KeepsAttempts(i)
  BY <1>6 DEF Start
<1>7. ASSUME NEW w \in Workers, Claim(w)
       PROVE  KeepsOutcome(i) /\ KeepsAttempts(i)
  <2>1. PICK E \in Batches(Events), D \in Batches(Deliveries) :
           rows' = [k \in Items |-> IF k \in E \cup D
                                    THEN [rows[k] EXCEPT !.status = "processing"]
                                    ELSE rows[k]]
    BY <1>7 DEF Claim
  <2>2. \A k \in E \cup D : Claimable(k)
    BY BatchesClaimable
  <2>3. CASE i \in E \cup D
    <3>1. rows[i].status \in {"pending", "failed", "processing"}
      BY <2>2, <2>3 DEF Claimable
    <3>2. rows'[i] = [rows[i] EXCEPT !.status = "processing"]
      BY <2>1, <2>3
    <3>3. rows[i].attempts \in Nat /\ rows'[i].attempts = rows[i].attempts
      BY <3>2
    <3>4. QED BY <3>1, <3>3
  <2>4. CASE i \notin E \cup D
    BY <2>1, <2>4
  <2>5. QED BY <2>3, <2>4
<1>8. ASSUME NEW w \in Workers, Leave(w)
       PROVE  KeepsOutcome(i) /\ KeepsAttempts(i)
  BY <1>8 DEF Leave
<1>9. ASSUME NEW w \in Workers, LoadEvent(w)
       PROVE  KeepsOutcome(i) /\ KeepsAttempts(i)
  BY <1>9 DEF LoadEvent
<1>10. ASSUME NEW w \in Workers, CountEventAttempt(w)
       PROVE  KeepsOutcome(i) /\ KeepsAttempts(i)
  BY <1>10 DEF CountEventAttempt, Store, Column
<1>11. ASSUME NEW w \in Workers, EnqueueWebhooks(w)
       PROVE  KeepsOutcome(i) /\ KeepsAttempts(i)
  BY <1>11 DEF EnqueueWebhooks
<1>12. ASSUME NEW w \in Workers, MarkProcessed(w)
       PROVE  KeepsOutcome(i) /\ KeepsAttempts(i)
  <2> DEFINE r == [rows[cur[w]] EXCEPT !.status = Column(copy[w].status, @, "processed")]
  <2>a. cur[w] \in Items /\ Store(cur[w], r)
    BY <1>12 DEF MarkProcessed
  <2>b. r.attempts = rows[cur[w]].attempts
    BY <2>a
  <2>. HIDE DEF r
  <2>1. CASE i # cur[w]
    BY <2>1, <2>a, StoreEffect
  <2>2. CASE i = cur[w]
    <3>1. rows[i].status \in {"processing", "deleted"}
      BY <1>12, <2>2 DEF MarkProcessed
    <3>2. rows'[i] = rows[i] \/ rows'[i] = r
      BY <2>2, <2>a, StoreEffect
    <3>3. QED BY <2>2, <2>b, <3>1, <3>2
  <2>3. QED BY <2>1, <2>2
<1>13. ASSUME NEW w \in Workers, HandlerRaises(w)
       PROVE  KeepsOutcome(i) /\ KeepsAttempts(i)
  BY <1>13 DEF HandlerRaises
<1>14. ASSUME NEW w \in Workers, RecordFailure(w)
       PROVE  KeepsOutcome(i) /\ KeepsAttempts(i)
  <2> DEFINE r == [rows[cur[w]] EXCEPT !.status = Column(copy[w].status, @, "failed"),
                    !.retry  = IF copy[w].attempts < MaxAttempts THEN "later"
                               ELSE Column(copy[w].retry, @, "null")]
  <2>a. cur[w] \in Items
    BY <1>14 DEF RecordFailure
  <2>b. Store(cur[w], r)
    BY <1>14 DEF RecordFailure
  <2>c. /\ r.status = Column(copy[w].status, rows[cur[w]].status, "failed")
        /\ r.attempts = rows[cur[w]].attempts
        /\ r.retry = IF copy[w].attempts < MaxAttempts THEN "later"
                        ELSE Column(copy[w].retry, rows[cur[w]].retry, "null")
    BY <2>a
  <2>. HIDE DEF r
  <2>1. CASE i # cur[w]
    BY <2>1, <2>a, <2>b, StoreEffect
  <2>2. CASE i = cur[w]
    <3>1. rows[i].status \in {"processing", "deleted"}
      BY <1>14, <2>2 DEF RecordFailure
    <3>2. rows'[i] = rows[i] \/ rows'[i] = r
      BY <2>2, <2>a, <2>b, StoreEffect
    <3>3. r.attempts = rows[i].attempts
      BY <2>2, <2>c
    <3>4. QED BY <3>1, <3>2, <3>3
  <2>3. QED BY <2>1, <2>2
<1>15. ASSUME NEW w \in Workers, LoadDelivery(w)
       PROVE  KeepsOutcome(i) /\ KeepsAttempts(i)
  BY <1>15 DEF LoadDelivery
<1>16. ASSUME NEW a \in Actors, RefuseDelivery(a)
       PROVE  KeepsOutcome(i) /\ KeepsAttempts(i)
  <2>1. CASE i # cur[a]
    BY <1>16, <2>1 DEF RefuseDelivery, Store
  <2>2. CASE i = cur[a]
    <3>1. rows[i].status \in {"processing", "deleted"}
      BY <1>16, <2>2 DEF RefuseDelivery
    <3>2. rows'[i] = rows[i] \/ rows'[i].attempts = rows[i].attempts
      BY <1>16, <2>2 DEF RefuseDelivery, Store
    <3>3. QED BY <3>1, <3>2
  <2>3. QED BY <2>1, <2>2
<1>17. ASSUME NEW a \in Actors, CountDeliveryAttempt(a)
       PROVE  KeepsOutcome(i) /\ KeepsAttempts(i)
  BY <1>17 DEF CountDeliveryAttempt, Store, Column
<1>18. ASSUME NEW a \in Actors, PostAccepted(a)
       PROVE  KeepsOutcome(i) /\ KeepsAttempts(i)
  BY <1>18 DEF PostAccepted
<1>19. ASSUME NEW a \in Actors, SaveDelivered(a)
       PROVE  KeepsOutcome(i) /\ KeepsAttempts(i)
  BY SMTT(30), <1>19 DEF SaveDelivered, Store, Column
<1>20. ASSUME NEW a \in Actors, PostRejected(a)
       PROVE  KeepsOutcome(i) /\ KeepsAttempts(i)
  <2> DEFINE r == [rows[cur[a]] EXCEPT !.status = Column(copy[a].status, @, "failed"),
                    !.retry  = IF copy[a].attempts < AttemptLimit(a) THEN "later"
                               ELSE Column(copy[a].retry, @, "null")]
  <2>a. cur[a] \in Items
    BY <1>20 DEF PostRejected
  <2>b. Store(cur[a], r)
    BY <1>20 DEF PostRejected
  <2>c. /\ r.status = Column(copy[a].status, rows[cur[a]].status, "failed")
        /\ r.attempts = rows[cur[a]].attempts
        /\ r.retry = IF copy[a].attempts < AttemptLimit(a) THEN "later"
                        ELSE Column(copy[a].retry, rows[cur[a]].retry, "null")
    BY <2>a
  <2>. HIDE DEF r
  <2>1. CASE i # cur[a]
    BY <2>1, <2>a, <2>b, StoreEffect
  <2>2. CASE i = cur[a]
    <3>1. rows[i].status \in {"processing", "deleted"}
      BY <1>20, <2>2 DEF PostRejected
    <3>2. rows'[i] = rows[i] \/ rows'[i] = r
      BY <2>2, <2>a, <2>b, StoreEffect
    <3>3. r.attempts = rows[i].attempts
      BY <2>2, <2>c
    <3>4. QED BY <3>1, <3>2, <3>3
  <2>3. QED BY <2>1, <2>2
<1>21. ASSUME NEW a \in Actors, DispatchRaises(a)
       PROVE  KeepsOutcome(i) /\ KeepsAttempts(i)
  <2> DEFINE r == [rows[cur[a]] EXCEPT !.status = Column(copy[a].status, @, "failed")]
  <2>a. cur[a] \in Items
    BY <1>21 DEF DispatchRaises
  <2>b. Store(cur[a], r) \/ UNCHANGED <<rows, aged>>
    BY <1>21 DEF DispatchRaises
  <2>c. /\ r.status = Column(copy[a].status, rows[cur[a]].status, "failed")
        /\ r.attempts = rows[cur[a]].attempts
        /\ r.retry = rows[cur[a]].retry
    BY <2>a
  <2>. HIDE DEF r
  <2>1. CASE i # cur[a]
    BY <2>1, <2>a, <2>b, StoreEffect
  <2>2. CASE i = cur[a]
    <3>1. rows[i].status \in {"processing", "deleted"}
      BY <1>21, <2>2 DEF DispatchRaises
    <3>2. rows'[i] = rows[i] \/ rows'[i] = r
      BY <2>2, <2>a, <2>b, StoreEffect
    <3>3. r.attempts = rows[i].attempts
      BY <2>2, <2>c
    <3>4. QED BY <3>1, <3>2, <3>3
  <2>3. QED BY <2>1, <2>2
<1>22. ASSUME NEW w \in Workers, ClaimRolledBack(w)
       PROVE  KeepsOutcome(i) /\ KeepsAttempts(i)
  BY <1>22 DEF ClaimRolledBack
<1>23. ASSUME NEW w \in Workers, Stop(w)
       PROVE  KeepsOutcome(i) /\ KeepsAttempts(i)
  BY <1>23 DEF Stop
<1>24. ASSUME NEW w \in Workers, EventCommitFails(w)
       PROVE  KeepsOutcome(i) /\ KeepsAttempts(i)
  BY <1>24 DEF EventCommitFails
<1>25. ASSUME NEW w \in Workers, FailureNotSaved(w)
       PROVE  KeepsOutcome(i) /\ KeepsAttempts(i)
  BY <1>25 DEF FailureNotSaved
<1>26. ASSUME NEW a \in Actors, Crash(a)
       PROVE  KeepsOutcome(i) /\ KeepsAttempts(i)
  BY <1>26 DEF Crash
<1>27. ASSUME NEW a \in Actors, DeliveryCommitFails(a)
       PROVE  KeepsOutcome(i) /\ KeepsAttempts(i)
  BY <1>27 DEF DeliveryCommitFails
<1>28. ASSUME NEW j \in Items, LeaseExpires(j)
       PROVE  KeepsOutcome(i) /\ KeepsAttempts(i)
  BY <1>28 DEF LeaseExpires
<1>29. ASSUME NEW j \in Items, LeaseOverrun(j)
       PROVE  KeepsOutcome(i) /\ KeepsAttempts(i)
  BY <1>29 DEF LeaseOverrun
<1>30. ASSUME NEW j \in Items, RetryDue(j)
       PROVE  KeepsOutcome(i) /\ KeepsAttempts(i)
  BY <1>30 DEF RetryDue
<1>31. CASE UNCHANGED vars
  BY <1>31 DEF vars
<1>32. QED
  BY <1>1, <1>2, <1>3, <1>4, <1>5, <1>6, <1>7, <1>8, <1>9, <1>10, <1>11, <1>12, <1>13, <1>14, <1>15, <1>16, <1>17, <1>18, <1>19, <1>20, <1>21, <1>22, <1>23, <1>24, <1>25, <1>26, <1>27, <1>28, <1>29, <1>30, <1>31
  DEF Next, ApiStep, WorkerStep, EventStep, DispatchStep, FaultStep, TaskStep, TimeStep

-----------------------------------------------------------------------------
(* The theorems *)

\* No poll selects a row that is held under an exclusive claim: the invariant
\* is inductive (jobs/outbox_worker.py, core/webhook_dispatcher.py).
THEOREM Inductive == Spec => []IInv
<1>1. Init => IInv
  <2> SUFFICES ASSUME Init PROVE IInv
      OBVIOUS
  <2>1. Shape
    BY ShapeInit
  <2>2. aged = {} /\ contended = {} /\ \A a \in Actors : Held(a) = {}
    BY DEF Init, Held
  <2>3. AgedIsClaimed /\ HeldIsClaimed /\ ExclusiveClaim
    BY <2>2 DEF AgedIsClaimed, HeldIsClaimed, ExclusiveClaim
  <2>4. CopyIsFresh
    BY DEF Init, CopyIsFresh, Items
  <2>5. LaterMeansFailed /\ OutcomeEarned /\ NoStrandedEvent
    BY DEF Init, LaterMeansFailed, OutcomeEarned, NoStrandedEvent, Absent, Items
  <2>6. AboutToFinish
    BY DEF Init, AboutToFinish
  <2>7. QED BY <2>1, <2>3, <2>4, <2>5, <2>6 DEF IInv, Shape
<1>2. IInv /\ [Next]_vars => IInv'
  BY ShapeStep, AgedStep, ExclusiveStep, CopiesStep, OutcomesStep, StrandedStep
  DEF IInv, Shape
<1>3. QED BY <1>1, <1>2, PTL DEF Spec

\* Every variable keeps its type, in particular the fault counters stay in
\* their bounds and every row in hand exists.
THEOREM TypeCorrect == Spec => []TypeOK
<1>1. IInv => TypeOK
  BY DEF IInv
<1>2. QED BY <1>1, Inductive, PTL

\* Two processes have the same row on their hands only after a lease on it ran
\* out under its holder or a claim of it was rolled back, for any number of
\* workers, rows, crashes and restarts.
THEOREM ClaimsAreExclusive == Spec => []ExclusiveClaim
<1>1. IInv => ExclusiveClaim
  BY DEF IInv
<1>2. QED BY <1>1, Inductive, PTL

\* At least once: a row is marked processed or delivered only after its
\* handlers committed or its endpoint answered 2xx, contended or not.
THEOREM OutcomesAreEarned == Spec => []OutcomeEarned
<1>1. IInv => OutcomeEarned
  BY DEF IInv
<1>2. QED BY <1>1, Inductive, PTL

\* A failed event with attempts left always has a retry date.
THEOREM NoEventStranded == Spec => []NoStrandedEvent
<1>1. IInv => NoStrandedEvent
  BY DEF IInv
<1>2. QED BY <1>1, Inductive, PTL

\* "processed" and "delivered" are final while claims stay exclusive.
THEOREM OutcomesAreFinal == Spec => OutcomeFinal
<1>1. IInv /\ [Next]_vars => [\A i \in Items \ contended' : KeepsOutcome(i)]_vars
  BY RowStep
<1>2. QED BY <1>1, Inductive, PTL DEF Spec, OutcomeFinal

\* No attempt is forgotten while claims stay exclusive, although the count is
\* read and written in different transactions.
THEOREM AttemptsAreKept == Spec => AttemptsNeverDecrease
<1>1. IInv /\ [Next]_vars => [\A i \in Items \ contended' : KeepsAttempts(i)]_vars
  BY RowStep
<1>2. QED BY <1>1, Inductive, PTL DEF Spec, AttemptsNeverDecrease
=============================================================================
