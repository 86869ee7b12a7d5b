-------------------------- MODULE IdempotencyProofs --------------------------
(***************************************************************************)
(* Proofs about Idempotency, for any number of requests, keys, payloads    *)
(* and faults.  IInv is inductive: one lemma per conjunct that an action   *)
(* can disturb, one step per group of actions.                             *)
(***************************************************************************)
EXTENDS Idempotency, TLAPS

\* Every step keeps the types.
LEMMA TypeStep ==
    ASSUME TypeOK, [Next]_vars
    PROVE  TypeOK'
<1>. USE ConstantsAssumption DEF ConstantsAssumption, TypeOK, Record, Absent,
         Pcs, Response, Kinds, NoAnswer, history
<1>1. ASSUME NEW r \in Requests, Refuse(r) \/ Reject(r)
      PROVE  TypeOK'
  <2>1. CASE Refuse(r)  BY <2>1 DEF Refuse, Respond, Answer
  <2>2. CASE Reject(r)  BY <2>2 DEF Reject, Respond, Answer
  <2>. QED  BY <1>1, <2>1, <2>2
<1>2. ASSUME NEW r \in Requests, LookUpNothing(r)
      PROVE  TypeOK'
  BY <1>2 DEF LookUpNothing, Of
<1>3. ASSUME NEW r \in Requests, LookUpConflict(r) \/ KeyTaken(r)
      PROVE  TypeOK'
  <2>1. CASE LookUpConflict(r)  BY <2>1 DEF LookUpConflict, Close, Answer
  <2>2. CASE KeyTaken(r)        BY <2>2 DEF KeyTaken, Close, Answer
  <2>. QED  BY <1>3, <2>1, <2>2
<1>4. ASSUME NEW r \in Requests, LookUpCompleted(r)
      PROVE  TypeOK'
  BY <1>4 DEF LookUpCompleted, Of, Respond
<1>5. ASSUME NEW r \in Requests, StoreKey(r)
      PROVE  TypeOK'
  BY <1>5 DEF StoreKey, Of
<1>6. ASSUME NEW r \in Requests, CreateInvitation(r)
      PROVE  TypeOK'
  BY <1>6 DEF CreateInvitation
<1>7. ASSUME NEW r \in Requests, StorePlaceholder(r)
      PROVE  TypeOK'
  BY <1>7 DEF StorePlaceholder, MarkCompleted, Completed, Of, Respond, Answer
<1>8. ASSUME NEW r \in Requests, StoreResponse(r)
      PROVE  TypeOK'
  BY <1>8 DEF StoreResponse, MarkCompleted, Completed, Of, Close
<1>9. ASSUME NEW r \in Requests, CommitFails(r) \/ Crash(r)
      PROVE  TypeOK'
  <2>1. faults' \in 0..MaxFaults
    BY <1>9 DEF CommitFails, Crash
  <2>2. PICK place \in Pcs, answer \in Response :
            /\ pc' = [pc EXCEPT ![r] = place]
            /\ resp' = [resp EXCEPT ![r] = answer]
    <3>1. CASE CommitFails(r)  BY <3>1 DEF CommitFails, Close, Answer
    <3>2. CASE Crash(r)        BY <3>2 DEF Crash
    <3>. QED  BY <1>9, <3>1, <3>2
  <2>3. UNCHANGED <<record, expired, history>>
    BY <1>9 DEF CommitFails, Crash
  <2>. QED  BY <2>1, <2>2, <2>3
<1>10. CASE \E k \in Keys : Expire(k)
  BY <1>10 DEF Expire
<1>11. CASE Cleanup
  BY <1>11 DEF Cleanup
<1>12. CASE UNCHANGED vars
  BY <1>12 DEF vars
<1>. QED  BY <1>1, <1>2, <1>3, <1>4, <1>5, <1>6, <1>7, <1>8, <1>9, <1>10,
    <1>11, <1>12
    DEF Next, RequestStep

\* What each place in the code says of its request survives every step: the
\* record of a request that is still running cannot expire under it, and an
\* executed request finds its own record completed.
LEMMA ProgressStep ==
    ASSUME TypeOK, Progress, RecordShape, [Next]_vars
    PROVE  Progress'
<1>. USE ConstantsAssumption DEF ConstantsAssumption, TypeOK, Progress,
         RecordShape, Holds, NoAnswer, Of, Absent, history
<1>1. ASSUME NEW r \in Requests, Refuse(r) \/ Reject(r)
      PROVE  Progress'
  BY <1>1 DEF Refuse, Reject, Respond, Answer
<1>2. ASSUME NEW r \in Requests, LookUpNothing(r)
      PROVE  Progress'
  BY <1>2 DEF LookUpNothing
<1>3. ASSUME NEW r \in Requests, LookUpConflict(r) \/ KeyTaken(r)
      PROVE  Progress'
  BY <1>3 DEF LookUpConflict, KeyTaken, Close, Answer
<1>4. ASSUME NEW r \in Requests, LookUpCompleted(r)
      PROVE  Progress'
  BY <1>4 DEF LookUpCompleted, Respond
<1>5. ASSUME NEW r \in Requests, StoreKey(r)
      PROVE  Progress'
  BY <1>5 DEF StoreKey
<1>6. ASSUME NEW r \in Requests, CreateInvitation(r)
      PROVE  Progress'
  BY <1>6 DEF CreateInvitation
<1>7. ASSUME NEW r \in Requests, StorePlaceholder(r)
      PROVE  Progress'
  BY <1>7 DEF StorePlaceholder, MarkCompleted, Completed, Respond, Answer
<1>8. ASSUME NEW r \in Requests, StoreResponse(r)
      PROVE  Progress'
  BY <1>8 DEF StoreResponse, MarkCompleted, Completed, Close
<1>9. ASSUME NEW r \in Requests, CommitFails(r) \/ Crash(r)
      PROVE  Progress'
  BY <1>9 DEF CommitFails, Crash, Close, Answer
<1>10. CASE \E k \in Keys : Expire(k)
  BY <1>10 DEF Expire
<1>11. CASE Cleanup
  BY <1>11 DEF Cleanup
<1>12. CASE UNCHANGED vars
  BY <1>12 DEF vars
<1>. QED  BY <1>1, <1>2, <1>3, <1>4, <1>5, <1>6, <1>7, <1>8, <1>9, <1>10,
    <1>11, <1>12
    DEF Next, RequestStep

\* Records keep an owner, stay unanswered until completed, and expire only
\* after their owner has ended.
LEMMA ShapeStep ==
    ASSUME TypeOK, Progress, RecordShape, [Next]_vars
    PROVE  RecordShape'
<1>. USE ConstantsAssumption DEF ConstantsAssumption, TypeOK, Progress,
         RecordShape, Holds, NoAnswer, Of, Absent, history
<1>1. ASSUME NEW r \in Requests, Refuse(r) \/ Reject(r)
      PROVE  RecordShape'
  BY <1>1 DEF Refuse, Reject, Respond, Answer
<1>2. ASSUME NEW r \in Requests, LookUpNothing(r)
      PROVE  RecordShape'
  BY <1>2 DEF LookUpNothing
<1>3. ASSUME NEW r \in Requests, LookUpConflict(r) \/ KeyTaken(r)
      PROVE  RecordShape'
  BY <1>3 DEF LookUpConflict, KeyTaken, Close, Answer
<1>4. ASSUME NEW r \in Requests, LookUpCompleted(r)
      PROVE  RecordShape'
  BY <1>4 DEF LookUpCompleted, Respond
<1>5. ASSUME NEW r \in Requests, StoreKey(r)
      PROVE  RecordShape'
  BY <1>5 DEF StoreKey
<1>6. ASSUME NEW r \in Requests, CreateInvitation(r)
      PROVE  RecordShape'
  BY <1>6 DEF CreateInvitation
<1>7. ASSUME NEW r \in Requests, StorePlaceholder(r)
      PROVE  RecordShape'
  BY <1>7 DEF StorePlaceholder, MarkCompleted, Completed, Respond, Answer
<1>8. ASSUME NEW r \in Requests, StoreResponse(r)
      PROVE  RecordShape'
  BY <1>8 DEF StoreResponse, MarkCompleted, Completed, Close
<1>9. ASSUME NEW r \in Requests, CommitFails(r) \/ Crash(r)
      PROVE  RecordShape'
  BY <1>9 DEF CommitFails, Crash, Close, Answer
<1>10. CASE \E k \in Keys : Expire(k)
  BY <1>10 DEF Expire
<1>11. CASE Cleanup
  BY <1>11 DEF Cleanup
<1>12. CASE UNCHANGED vars
  BY <1>12 DEF vars
<1>. QED  BY <1>1, <1>2, <1>3, <1>4, <1>5, <1>6, <1>7, <1>8, <1>9, <1>10,
    <1>11, <1>12
    DEF Next, RequestStep

\* An executed request keeps holding its key; only the clean-up, which starts a
\* new epoch, takes the record away, and StoreKey needs an absent record.
LEMMA ExecutedStep ==
    ASSUME TypeOK, Progress, RecordShape, ExecutedHolds, [Next]_vars
    PROVE  ExecutedHolds'
<1>. USE ConstantsAssumption DEF ConstantsAssumption, TypeOK, Progress,
         RecordShape, ExecutedHolds, Holds, Of, Absent, history
<1>1. ASSUME NEW r \in Requests, Refuse(r) \/ Reject(r)
      PROVE  ExecutedHolds'
  BY <1>1 DEF Refuse, Reject, Respond, Answer
<1>2. ASSUME NEW r \in Requests, LookUpNothing(r)
      PROVE  ExecutedHolds'
  BY <1>2 DEF LookUpNothing
<1>3. ASSUME NEW r \in Requests, LookUpConflict(r) \/ KeyTaken(r)
      PROVE  ExecutedHolds'
  BY <1>3 DEF LookUpConflict, KeyTaken, Close, Answer
<1>4. ASSUME NEW r \in Requests, LookUpCompleted(r)
      PROVE  ExecutedHolds'
  BY <1>4 DEF LookUpCompleted, Respond
<1>5. ASSUME NEW r \in Requests, StoreKey(r)
      PROVE  ExecutedHolds'
  BY <1>5 DEF StoreKey
<1>6. ASSUME NEW r \in Requests, CreateInvitation(r)
      PROVE  ExecutedHolds'
  BY <1>6 DEF CreateInvitation
<1>7. ASSUME NEW r \in Requests, StorePlaceholder(r)
      PROVE  ExecutedHolds'
  BY <1>7 DEF StorePlaceholder, MarkCompleted, Completed, Respond, Answer
<1>8. ASSUME NEW r \in Requests, StoreResponse(r)
      PROVE  ExecutedHolds'
  BY <1>8 DEF StoreResponse, MarkCompleted, Completed, Close
<1>9. ASSUME NEW r \in Requests, CommitFails(r) \/ Crash(r)
      PROVE  ExecutedHolds'
  BY <1>9 DEF CommitFails, Crash, Close, Answer, NoAnswer
<1>10. CASE \E k \in Keys : Expire(k)
  BY <1>10 DEF Expire
<1>11. CASE Cleanup
  BY <1>11 DEF Cleanup
<1>12. CASE UNCHANGED vars
  BY <1>12 DEF vars
<1>. QED  BY <1>1, <1>2, <1>3, <1>4, <1>5, <1>6, <1>7, <1>8, <1>9, <1>10,
    <1>11, <1>12
    DEF Next, RequestStep

\* A request executes while it holds its key, so any other request executed in
\* the same epoch would be the owner of the same record.
LEMMA OnceStep ==
    ASSUME TypeOK, Progress, ExecutedHolds, AtMostOnce, [Next]_vars
    PROVE  AtMostOnce'
<1>. USE ConstantsAssumption DEF ConstantsAssumption, TypeOK, Progress,
         ExecutedHolds, AtMostOnce, Holds, Of, history
<1>1. ASSUME NEW r \in Requests, Refuse(r) \/ Reject(r)
      PROVE  AtMostOnce'
  BY <1>1 DEF Refuse, Reject, Respond, Answer
<1>2. ASSUME NEW r \in Requests, LookUpNothing(r)
      PROVE  AtMostOnce'
  BY <1>2 DEF LookUpNothing
<1>3. ASSUME NEW r \in Requests, LookUpConflict(r) \/ KeyTaken(r)
      PROVE  AtMostOnce'
  BY <1>3 DEF LookUpConflict, KeyTaken, Close, Answer
<1>4. ASSUME NEW r \in Requests, LookUpCompleted(r)
      PROVE  AtMostOnce'
  BY <1>4 DEF LookUpCompleted, Respond
<1>5. ASSUME NEW r \in Requests, StoreKey(r)
      PROVE  AtMostOnce'
  BY <1>5 DEF StoreKey
<1>6. ASSUME NEW r \in Requests, CreateInvitation(r)
      PROVE  AtMostOnce'
  BY <1>6 DEF CreateInvitation
<1>7. ASSUME NEW r \in Requests, StorePlaceholder(r)
      PROVE  AtMostOnce'
  BY <1>7 DEF StorePlaceholder, MarkCompleted, Completed, Respond, Answer
<1>8. ASSUME NEW r \in Requests, StoreResponse(r)
      PROVE  AtMostOnce'
  BY <1>8 DEF StoreResponse, MarkCompleted, Completed, Close
<1>9. ASSUME NEW r \in Requests, CommitFails(r) \/ Crash(r)
      PROVE  AtMostOnce'
  BY <1>9 DEF CommitFails, Crash, Close, Answer, NoAnswer
<1>10. CASE \E k \in Keys : Expire(k)
  BY <1>10 DEF Expire
<1>11. CASE Cleanup
  BY <1>11 DEF Cleanup
<1>12. CASE UNCHANGED vars
  BY <1>12 DEF vars
<1>. QED  BY <1>1, <1>2, <1>3, <1>4, <1>5, <1>6, <1>7, <1>8, <1>9, <1>10,
    <1>11, <1>12
    DEF Next, RequestStep

\* The response written into a record comes from its owner, or from a replay
\* of that very record, or is no success at all.
LEMMA RecordHonestStep ==
    ASSUME TypeOK, Progress, RecordShape, RecordIsHonest,
           ReplayUnderway, ReplayIsHonest, [Next]_vars
    PROVE  RecordIsHonest'
<1>. USE ConstantsAssumption DEF ConstantsAssumption, TypeOK, Progress,
         RecordShape, RecordIsHonest, ReplayUnderway, ReplayIsHonest, Holds,
         Of, NoAnswer, Absent, history
<1>1. ASSUME NEW r \in Requests, Refuse(r) \/ Reject(r)
      PROVE  RecordIsHonest'
  BY <1>1 DEF Refuse, Reject, Respond, Answer
<1>2. ASSUME NEW r \in Requests, LookUpNothing(r)
      PROVE  RecordIsHonest'
  BY <1>2 DEF LookUpNothing
<1>3. ASSUME NEW r \in Requests, LookUpConflict(r) \/ KeyTaken(r)
      PROVE  RecordIsHonest'
  BY <1>3 DEF LookUpConflict, KeyTaken, Close, Answer
<1>4. ASSUME NEW r \in Requests, LookUpCompleted(r)
      PROVE  RecordIsHonest'
  BY <1>4 DEF LookUpCompleted, Respond
<1>5. ASSUME NEW r \in Requests, StoreKey(r)
      PROVE  RecordIsHonest'
  BY <1>5 DEF StoreKey
<1>6. ASSUME NEW r \in Requests, CreateInvitation(r)
      PROVE  RecordIsHonest'
  BY <1>6 DEF CreateInvitation
<1>7. ASSUME NEW r \in Requests, StorePlaceholder(r)
      PROVE  RecordIsHonest'
  BY <1>7 DEF StorePlaceholder, MarkCompleted, Completed, Respond, Answer
<1>8. ASSUME NEW r \in Requests, StoreResponse(r)
      PROVE  RecordIsHonest'
  BY <1>8 DEF StoreResponse, MarkCompleted, Completed, Close
<1>9. ASSUME NEW r \in Requests, CommitFails(r) \/ Crash(r)
      PROVE  RecordIsHonest'
  BY <1>9 DEF CommitFails, Crash, Close, Answer
<1>10. CASE \E k \in Keys : Expire(k)
  BY <1>10 DEF Expire
<1>11. CASE Cleanup
  BY <1>11 DEF Cleanup
<1>12. CASE UNCHANGED vars
  BY <1>12 DEF vars
<1>. QED  BY <1>1, <1>2, <1>3, <1>4, <1>5, <1>6, <1>7, <1>8, <1>9, <1>10,
    <1>11, <1>12
    DEF Next, RequestStep

\* A record is not taken away under a replay without the key being marked as
\* crossed.
LEMMA ReplayUnderwayStep ==
    ASSUME TypeOK, Progress, RecordShape, ReplayUnderway, [Next]_vars
    PROVE  ReplayUnderway'
<1>. USE ConstantsAssumption DEF ConstantsAssumption, TypeOK, Progress,
         RecordShape, ReplayUnderway, Holds, Of, Absent, history
<1>1. ASSUME NEW r \in Requests, Refuse(r) \/ Reject(r)
      PROVE  ReplayUnderway'
  BY <1>1 DEF Refuse, Reject, Respond, Answer
<1>2. ASSUME NEW r \in Requests, LookUpNothing(r)
      PROVE  ReplayUnderway'
  BY <1>2 DEF LookUpNothing
<1>3. ASSUME NEW r \in Requests, LookUpConflict(r) \/ KeyTaken(r)
      PROVE  ReplayUnderway'
  BY <1>3 DEF LookUpConflict, KeyTaken, Close, Answer
<1>4. ASSUME NEW r \in Requests, LookUpCompleted(r)
      PROVE  ReplayUnderway'
  BY <1>4 DEF LookUpCompleted, Respond
<1>5. ASSUME NEW r \in Requests, StoreKey(r)
      PROVE  ReplayUnderway'
  BY <1>5 DEF StoreKey
<1>6. ASSUME NEW r \in Requests, CreateInvitation(r)
      PROVE  ReplayUnderway'
  BY <1>6 DEF CreateInvitation
<1>7. ASSUME NEW r \in Requests, StorePlaceholder(r)
      PROVE  ReplayUnderway'
  BY <1>7 DEF StorePlaceholder, MarkCompleted, Completed, Respond, Answer
<1>8. ASSUME NEW r \in Requests, StoreResponse(r)
      PROVE  ReplayUnderway'
  BY <1>8 DEF StoreResponse, MarkCompleted, Completed, Close
<1>9. ASSUME NEW r \in Requests, CommitFails(r) \/ Crash(r)
      PROVE  ReplayUnderway'
  BY <1>9 DEF CommitFails, Crash, Close, Answer, NoAnswer
<1>10. CASE \E k \in Keys : Expire(k)
  BY <1>10 DEF Expire
<1>11. CASE Cleanup
  BY <1>11 DEF Cleanup
<1>12. CASE UNCHANGED vars
  BY <1>12 DEF vars
<1>. QED  BY <1>1, <1>2, <1>3, <1>4, <1>5, <1>6, <1>7, <1>8, <1>9, <1>10,
    <1>11, <1>12
    DEF Next, RequestStep

\* A success reaches a client from its own execution or from an honest record.
LEMMA ReplayHonestStep ==
    ASSUME TypeOK, Progress, RecordIsHonest, ReplayIsHonest, [Next]_vars
    PROVE  ReplayIsHonest'
<1>. USE ConstantsAssumption DEF ConstantsAssumption, TypeOK, Progress,
         RecordIsHonest, ReplayIsHonest, Holds, Of, NoAnswer, history
<1>1. ASSUME NEW r \in Requests, Refuse(r) \/ Reject(r)
      PROVE  ReplayIsHonest'
  BY <1>1 DEF Refuse, Reject, Respond, Answer
<1>2. ASSUME NEW r \in Requests, LookUpNothing(r)
      PROVE  ReplayIsHonest'
  BY <1>2 DEF LookUpNothing
<1>3. ASSUME NEW r \in Requests, LookUpConflict(r) \/ KeyTaken(r)
      PROVE  ReplayIsHonest'
  BY <1>3 DEF LookUpConflict, KeyTaken, Close, Answer
<1>4. ASSUME NEW r \in Requests, LookUpCompleted(r)
      PROVE  ReplayIsHonest'
  BY <1>4 DEF LookUpCompleted, Respond
<1>5. ASSUME NEW r \in Requests, StoreKey(r)
      PROVE  ReplayIsHonest'
  BY <1>5 DEF StoreKey
<1>6. ASSUME NEW r \in Requests, CreateInvitation(r)
      PROVE  ReplayIsHonest'
  BY <1>6 DEF CreateInvitation
<1>7. ASSUME NEW r \in Requests, StorePlaceholder(r)
      PROVE  ReplayIsHonest'
  BY <1>7 DEF StorePlaceholder, MarkCompleted, Completed, Respond, Answer
<1>8. ASSUME NEW r \in Requests, StoreResponse(r)
      PROVE  ReplayIsHonest'
  BY <1>8 DEF StoreResponse, MarkCompleted, Completed, Close
<1>9. ASSUME NEW r \in Requests, CommitFails(r) \/ Crash(r)
      PROVE  ReplayIsHonest'
  BY <1>9 DEF CommitFails, Crash, Close, Answer
<1>10. CASE \E k \in Keys : Expire(k)
  BY <1>10 DEF Expire
<1>11. CASE Cleanup
  BY <1>11 DEF Cleanup
<1>12. CASE UNCHANGED vars
  BY <1>12 DEF vars
<1>. QED  BY <1>1, <1>2, <1>3, <1>4, <1>5, <1>6, <1>7, <1>8, <1>9, <1>10,
    <1>11, <1>12
    DEF Next, RequestStep

\* The handler completes the record before the client can hear of the success,
\* and no later step makes it "processing" again.
LEMMA RememberedStep ==
    ASSUME TypeOK, Progress, RecordShape, ExecutedHolds, RecordIsHonest,
           ReplayIsHonest, SuccessIsRemembered, [Next]_vars
    PROVE  SuccessIsRemembered'
<1>. USE ConstantsAssumption DEF ConstantsAssumption, TypeOK, Progress,
         RecordShape, ExecutedHolds, RecordIsHonest, ReplayIsHonest,
         SuccessIsRemembered, Holds, Of, NoAnswer, Absent, Answer, history
<1>1. ASSUME NEW r \in Requests, Refuse(r) \/ Reject(r)
      PROVE  SuccessIsRemembered'
  BY <1>1 DEF Refuse, Reject, Respond
<1>2. ASSUME NEW r \in Requests, LookUpNothing(r)
      PROVE  SuccessIsRemembered'
  BY <1>2 DEF LookUpNothing
<1>3. ASSUME NEW r \in Requests, LookUpConflict(r) \/ KeyTaken(r)
      PROVE  SuccessIsRemembered'
  BY <1>3 DEF LookUpConflict, KeyTaken, Close
<1>4. ASSUME NEW r \in Requests, LookUpCompleted(r)
      PROVE  SuccessIsRemembered'
  BY <1>4 DEF LookUpCompleted, Respond
<1>5. ASSUME NEW r \in Requests, StoreKey(r)
      PROVE  SuccessIsRemembered'
  BY <1>5 DEF StoreKey
<1>6. ASSUME NEW r \in Requests, CreateInvitation(r)
      PROVE  SuccessIsRemembered'
  BY <1>6 DEF CreateInvitation
<1>7. ASSUME NEW r \in Requests, StorePlaceholder(r)
      PROVE  SuccessIsRemembered'
  BY <1>7 DEF StorePlaceholder, MarkCompleted, Completed, Respond
<1>8. ASSUME NEW r \in Requests, StoreResponse(r)
      PROVE  SuccessIsRemembered'
  BY <1>8 DEF StoreResponse, MarkCompleted, Completed, Close
<1>9. ASSUME NEW r \in Requests, CommitFails(r) \/ Crash(r)
      PROVE  SuccessIsRemembered'
  BY <1>9 DEF CommitFails, Crash, Close
<1>10. CASE \E k \in Keys : Expire(k)
  BY <1>10 DEF Expire
<1>11. CASE Cleanup
  BY <1>11 DEF Cleanup
<1>12. CASE UNCHANGED vars
  BY <1>12 DEF vars
<1>. QED  BY <1>1, <1>2, <1>3, <1>4, <1>5, <1>6, <1>7, <1>8, <1>9, <1>10,
    <1>11, <1>12
    DEF Next, RequestStep

-----------------------------------------------------------------------------
\* Before the first request there is nothing to relate.
LEMMA InitEstablishes == Init => IInv
BY ConstantsAssumption
   DEF Init, IInv, TypeOK, Record, Response, Kinds, Pcs, Absent, NoAnswer, Answer,
       Progress, RecordShape, ExecutedHolds, RecordIsHonest, ReplayUnderway,
       AtMostOnce, ReplayIsHonest, SuccessIsRemembered, ConstantsAssumption

\* IInv holds in every reachable state.
THEOREM Inductive == Spec => []IInv
<1>1. IInv /\ [Next]_vars => IInv'
  BY TypeStep, ProgressStep, ShapeStep, ExecutedStep, OnceStep, RecordHonestStep,
     ReplayUnderwayStep, ReplayHonestStep, RememberedStep DEF IInv
<1>. QED  BY InitEstablishes, <1>1, PTL DEF Spec

\* Every variable keeps its type, for any requests, keys and faults.
THEOREM TypeCorrect == Spec => []TypeOK
<1>1. IInv => TypeOK  BY DEF IInv
<1>. QED  BY <1>1, Inductive, PTL

\* Between two clean-ups of its key at most one request is executed, for any
\* number of concurrent retries: the unique constraint decides between requests
\* that all saw no record, and a completed record never runs again.
THEOREM ExecutedAtMostOnce == Spec => []AtMostOnce
<1>1. IInv => AtMostOnce  BY DEF IInv
<1>. QED  BY <1>1, Inductive, PTL

\* No client hears of a success that was not committed for its key and payload.
THEOREM RepliesAreHonest == Spec => []ReplayIsHonest
<1>1. IInv => ReplayIsHonest  BY DEF IInv
<1>. QED  BY <1>1, Inductive, PTL

\* A request that succeeded is never reported as still in progress.
THEOREM SuccessesAreRemembered == Spec => []SuccessIsRemembered
<1>1. IInv => SuccessIsRemembered  BY DEF IInv
<1>. QED  BY <1>1, Inductive, PTL
==============================================================================
