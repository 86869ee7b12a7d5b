-------------------------- MODULE CashRegisterProofs --------------------------
(***************************************************************************)
(* Proofs about CashRegister, for any number of requests, periods, changes *)
(* of the subscription and faults, and for every limit.                    *)
(***************************************************************************)
EXTENDS CashRegister, TLAPS

USE ConstantsAssumption DEF ConstantsAssumption

\* Before the first request nothing is sold, counted or reported.
LEMMA InitOK == Init => IInv
<1> SUFFICES ASSUME Init PROVE IInv
    OBVIOUS
<1>. USE DEF Init, Requests
<1>0. sub \in [active : BOOLEAN, period : Periods]
  OBVIOUS
<1>1. TypeOK
  BY <1>0 DEF TypeOK, Pcs
<1>2. Roles /\ SaleShape /\ CancelShape /\ CopyIsFresh
  BY DEF Roles, SaleShape, CancelShape, CopyIsFresh
<1>3. CounterHonest /\ QuotaRespected
  BY DEF CounterHonest, QuotaRespected
<1>4. SalesReported /\ CancellationReportedOnce
  BY DEF SalesReported, CancellationReportedOnce
<1>. QED BY <1>1, <1>2, <1>3, <1>4 DEF IInv

\* Every step of a request, of the subscription and of a fault keeps the
\* invariant.
LEMMA StepOK == IInv /\ [Next]_vars => IInv'
<1> SUFFICES ASSUME IInv, [Next]_vars PROVE IInv'
    OBVIOUS
<1>. USE DEF IInv, TypeOK, Requests, Pcs, tables, copies, bounds, history
<1>1. ASSUME NEW s \in Sellers, CheckLimit(s) PROVE IInv'
  <2>1. TypeOK'
    BY <1>1 DEF CheckLimit, Goto, WithinLimit
  <2>2. Roles'
    BY SMTT(30), <1>1 DEF CheckLimit, Goto, Roles, WithinLimit
  <2>3. SaleShape'
    BY <1>1 DEF CheckLimit, Goto, SaleShape, WithinLimit
  <2>4. CancelShape'
    BY <1>1 DEF CheckLimit, Goto, CancelShape, SaleShape, CancellationReportedOnce, WithinLimit
  <2>5. CopyIsFresh'
    BY <1>1 DEF CheckLimit, Goto, CopyIsFresh, HasRoom, QuotaRespected, CounterHonest, WithinLimit
  <2>6. CounterHonest'
    BY <1>1 DEF CheckLimit, Goto, CounterHonest, CopyIsFresh, WithinLimit
  <2>7. QuotaRespected'
    BY <1>1 DEF CheckLimit, Goto, QuotaRespected, CopyIsFresh, HasRoom, CounterHonest, WithinLimit
  <2>8. SalesReported'
    BY <1>1 DEF CheckLimit, Goto, SalesReported, SaleShape, WithinLimit
  <2>9. CancellationReportedOnce'
    BY <1>1 DEF CheckLimit, Goto, CancellationReportedOnce, CancelShape, SaleShape, WithinLimit
  <2>. QED BY <2>1, <2>2, <2>3, <2>4, <2>5, <2>6, <2>7, <2>8, <2>9
<1>2. ASSUME NEW s \in Sellers, CountUsage(s) PROVE IInv'
  <2>1. TypeOK'
    BY <1>2 DEF CountUsage, Goto
  <2>2. Roles'
    BY <1>2 DEF CountUsage, Goto, Roles
  <2>3. SaleShape'
    BY <1>2 DEF CountUsage, Goto, SaleShape
  <2>4. CancelShape'
    BY <1>2 DEF CountUsage, Goto, CancelShape, SaleShape, CancellationReportedOnce
  <2>5. CopyIsFresh'
    BY <1>2 DEF CountUsage, Goto, CopyIsFresh, HasRoom, QuotaRespected, CounterHonest, WithinLimit
  <2>6. CounterHonest'
    BY <1>2 DEF CountUsage, Goto, CounterHonest, CopyIsFresh
  <2>7. QuotaRespected'
    BY <1>2 DEF CountUsage, Goto, QuotaRespected, CopyIsFresh, HasRoom, CounterHonest, WithinLimit
  <2>8. SalesReported'
    BY <1>2 DEF CountUsage, Goto, SalesReported, SaleShape
  <2>9. CancellationReportedOnce'
    BY <1>2 DEF CountUsage, Goto, CancellationReportedOnce, CancelShape, SaleShape
  <2>. QED BY <2>1, <2>2, <2>3, <2>4, <2>5, <2>6, <2>7, <2>8, <2>9
<1>3. ASSUME NEW s \in Sellers, CommitSale(s) PROVE IInv'
  <2>1. TypeOK'
    <3>1. CASE seen[s].period = NoPeriod
      BY <1>3, <3>1 DEF CommitSale, Goto, Underway
    <3>2. CASE seen[s].period # NoPeriod
      <4>1. seen[s].period \in Periods /\ seen[s].used + 1 \in Nat
        BY <3>2
      <4>2. counter' \in [Periods -> Nat] /\ sold' \in [Periods -> Nat]
        <5>1. /\ counter' = [counter EXCEPT ![seen[s].period] = seen[s].used + 1]
              /\ sold' = [sold EXCEPT ![seen[s].period] = sold[seen[s].period] + 1]
          BY <1>3, <3>2 DEF CommitSale
        <5>2. sold[seen[s].period] + 1 \in Nat
          BY <4>1
        <5>. QED BY <4>1, <5>1, <5>2
      <4>3. sale' \in [Sellers -> {"none", "completed", "cancelled"}]
        BY <1>3 DEF CommitSale
      <4>4. overlaps' \in [Periods -> Nat]
        BY <1>3, <3>2, <4>1 DEF CommitSale
      <4>5. pc' \in [Requests -> Pcs]
        BY <1>3 DEF CommitSale, Goto
      <4>. QED BY <1>3, <4>2, <4>3, <4>4, <4>5 DEF CommitSale
    <3>. QED BY <3>1, <3>2
  <2>2. Roles'
    BY <1>3 DEF CommitSale, Goto, Underway, Roles
  <2>3. SaleShape'
    BY <1>3 DEF CommitSale, Goto, Underway, SaleShape
  <2>4. CancelShape'
    BY <1>3 DEF CommitSale, Goto, Underway, CancelShape, SaleShape, CancellationReportedOnce
  <2>5. CopyIsFresh'
    <3>1. CASE seen[s].period = NoPeriod
      BY <1>3, <3>1 DEF CommitSale, Goto, Underway, CopyIsFresh, HasRoom, QuotaRespected, CounterHonest, WithinLimit
    <3>2. CASE seen[s].period # NoPeriod
      BY SMTT(30), <1>3, <3>2 DEF CommitSale, Goto, Underway, CopyIsFresh, HasRoom, QuotaRespected, CounterHonest, WithinLimit
    <3>. QED BY <3>1, <3>2
  <2>6. CounterHonest'
    BY <1>3 DEF CommitSale, Goto, Underway, CounterHonest, CopyIsFresh
  <2>7. QuotaRespected'
    BY <1>3 DEF CommitSale, Goto, Underway, QuotaRespected, CopyIsFresh, HasRoom, CounterHonest, WithinLimit
  <2>8. SalesReported'
    BY <1>3 DEF CommitSale, Goto, Underway, SalesReported, SaleShape
  <2>9. CancellationReportedOnce'
    BY <1>3 DEF CommitSale, Goto, Underway, CancellationReportedOnce, CancelShape, SaleShape
  <2>. QED BY <2>1, <2>2, <2>3, <2>4, <2>5, <2>6, <2>7, <2>8, <2>9
<1>4. ASSUME NEW s \in Sellers, CounterExists(s) PROVE IInv'
  <2>1. TypeOK'
    BY <1>4 DEF CounterExists, Goto
  <2>2. Roles'
    BY <1>4 DEF CounterExists, Goto, Roles
  <2>3. SaleShape'
    BY <1>4 DEF CounterExists, Goto, SaleShape
  <2>4. CancelShape'
    BY <1>4 DEF CounterExists, Goto, CancelShape, SaleShape, CancellationReportedOnce
  <2>5. CopyIsFresh'
    BY <1>4 DEF CounterExists, Goto, CopyIsFresh, HasRoom, QuotaRespected, CounterHonest, WithinLimit
  <2>6. CounterHonest'
    BY <1>4 DEF CounterExists, Goto, CounterHonest, CopyIsFresh
  <2>7. QuotaRespected'
    BY <1>4 DEF CounterExists, Goto, QuotaRespected, CopyIsFresh, HasRoom, CounterHonest, WithinLimit
  <2>8. SalesReported'
    BY <1>4 DEF CounterExists, Goto, SalesReported, SaleShape
  <2>9. CancellationReportedOnce'
    BY <1>4 DEF CounterExists, Goto, CancellationReportedOnce, CancelShape, SaleShape
  <2>. QED BY <2>1, <2>2, <2>3, <2>4, <2>5, <2>6, <2>7, <2>8, <2>9
<1>5. ASSUME NEW s \in Sellers, EmitSaleEvent(s) PROVE IInv'
  <2>1. TypeOK'
    BY <1>5 DEF EmitSaleEvent, Goto
  <2>2. Roles'
    BY <1>5 DEF EmitSaleEvent, Goto, Roles
  <2>3. SaleShape'
    BY <1>5 DEF EmitSaleEvent, Goto, SaleShape
  <2>4. CancelShape'
    BY <1>5 DEF EmitSaleEvent, Goto, CancelShape, SaleShape, CancellationReportedOnce
  <2>5. CopyIsFresh'
    BY <1>5 DEF EmitSaleEvent, Goto, CopyIsFresh, HasRoom, QuotaRespected, CounterHonest, WithinLimit
  <2>6. CounterHonest'
    BY <1>5 DEF EmitSaleEvent, Goto, CounterHonest, CopyIsFresh
  <2>7. QuotaRespected'
    BY <1>5 DEF EmitSaleEvent, Goto, QuotaRespected, CopyIsFresh, HasRoom, CounterHonest, WithinLimit
  <2>8. SalesReported'
    BY <1>5 DEF EmitSaleEvent, Goto, SalesReported, SaleShape
  <2>9. CancellationReportedOnce'
    BY <1>5 DEF EmitSaleEvent, Goto, CancellationReportedOnce, CancelShape, SaleShape
  <2>. QED BY <2>1, <2>2, <2>3, <2>4, <2>5, <2>6, <2>7, <2>8, <2>9
<1>6. ASSUME NEW c \in Cancellers, CommitCancel(c) PROVE IInv'
  <2>0. target[c] \in Sellers /\ sale[target[c]] # "none"
    BY <1>6 DEF CommitCancel, CancelShape
  <2>1. TypeOK'
    BY <1>6, <2>0 DEF CommitCancel, Goto
  <2>2. Roles'
    BY <1>6, <2>0 DEF CommitCancel, Goto, Roles
  <2>3. SaleShape'
    BY <1>6, <2>0 DEF CommitCancel, Goto, SaleShape
  <2>4. CancelShape'
    BY <1>6, <2>0 DEF CommitCancel, Goto, CancelShape, SaleShape, CancellationReportedOnce
  <2>5. CopyIsFresh'
    BY <1>6, <2>0 DEF CommitCancel, Goto, CopyIsFresh, HasRoom, QuotaRespected, CounterHonest, WithinLimit
  <2>6. CounterHonest'
    BY <1>6, <2>0 DEF CommitCancel, Goto, CounterHonest, CopyIsFresh
  <2>7. QuotaRespected'
    BY <1>6, <2>0 DEF CommitCancel, Goto, QuotaRespected, CopyIsFresh, HasRoom, CounterHonest, WithinLimit
  <2>8. SalesReported'
    BY <1>6, <2>0 DEF CommitCancel, Goto, SalesReported, SaleShape
  <2>9. CancellationReportedOnce'
    BY <1>6, <2>0 DEF CommitCancel, Goto, CancellationReportedOnce, CancelShape, SaleShape
  <2>. QED BY <2>1, <2>2, <2>3, <2>4, <2>5, <2>6, <2>7, <2>8, <2>9
<1>7. ASSUME NEW c \in Cancellers, NEW s \in Sellers, LoadSale(c, s) PROVE IInv'
  <2>0. pc' = [pc EXCEPT ![c] = "done"] \/ pc' = [pc EXCEPT ![c] = "cancel"]
    BY <1>7 DEF LoadSale, Goto
  <2>1. TypeOK'
    <3>1. pc' \in [Requests -> Pcs]
      BY <2>0
    <3>2. target' \in [Cancellers -> Sellers \cup {NoSale}]
      BY <1>7 DEF LoadSale
    <3>. QED BY <1>7, <3>1, <3>2 DEF LoadSale
  <2>2. Roles'
    BY <2>0 DEF Roles
  <2>3. SaleShape'
    BY <1>7 DEF LoadSale, Goto, SaleShape
  <2>4. CancelShape'
    BY <1>7 DEF LoadSale, Goto, CancelShape, SaleShape, CancellationReportedOnce
  <2>5. CopyIsFresh'
    BY <1>7 DEF LoadSale, Goto, CopyIsFresh, HasRoom, QuotaRespected, CounterHonest, WithinLimit
  <2>6. CounterHonest'
    BY <1>7 DEF LoadSale, Goto, CounterHonest, CopyIsFresh
  <2>7. QuotaRespected'
    BY <1>7 DEF LoadSale, Goto, QuotaRespected, CopyIsFresh, HasRoom, CounterHonest, WithinLimit
  <2>8. SalesReported'
    BY <1>7 DEF LoadSale, Goto, SalesReported, SaleShape
  <2>9. CancellationReportedOnce'
    BY <1>7 DEF LoadSale, Goto, CancellationReportedOnce, CancelShape, SaleShape
  <2>. QED BY <2>1, <2>2, <2>3, <2>4, <2>5, <2>6, <2>7, <2>8, <2>9
<1>8. ASSUME NEW k \in Closers, ReadDay(k) PROVE IInv'
  <2>1. TypeOK'
    BY <1>8 DEF ReadDay, Goto
  <2>2. Roles'
    BY <1>8 DEF ReadDay, Goto, Roles
  <2>3. SaleShape'
    BY <1>8 DEF ReadDay, Goto, SaleShape
  <2>4. CancelShape'
    BY <1>8 DEF ReadDay, Goto, CancelShape, SaleShape, CancellationReportedOnce
  <2>5. CopyIsFresh'
    BY <1>8 DEF ReadDay, Goto, CopyIsFresh, HasRoom, QuotaRespected, CounterHonest, WithinLimit
  <2>6. CounterHonest'
    BY <1>8 DEF ReadDay, Goto, CounterHonest, CopyIsFresh
  <2>7. QuotaRespected'
    BY <1>8 DEF ReadDay, Goto, QuotaRespected, CopyIsFresh, HasRoom, CounterHonest, WithinLimit
  <2>8. SalesReported'
    BY <1>8 DEF ReadDay, Goto, SalesReported, SaleShape
  <2>9. CancellationReportedOnce'
    BY <1>8 DEF ReadDay, Goto, CancellationReportedOnce, CancelShape, SaleShape
  <2>. QED BY <2>1, <2>2, <2>3, <2>4, <2>5, <2>6, <2>7, <2>8, <2>9
<1>9. ASSUME NEW k \in Closers, CommitClosure(k) PROVE IInv'
  <2>1. TypeOK'
    BY <1>9 DEF CommitClosure, Goto
  <2>2. Roles'
    BY <1>9 DEF CommitClosure, Goto, Roles
  <2>3. SaleShape'
    BY <1>9 DEF CommitClosure, Goto, SaleShape
  <2>4. CancelShape'
    BY <1>9 DEF CommitClosure, Goto, CancelShape, SaleShape, CancellationReportedOnce
  <2>5. CopyIsFresh'
    BY <1>9 DEF CommitClosure, Goto, CopyIsFresh, HasRoom, QuotaRespected, CounterHonest, WithinLimit
  <2>6. CounterHonest'
    BY <1>9 DEF CommitClosure, Goto, CounterHonest, CopyIsFresh
  <2>7. QuotaRespected'
    BY <1>9 DEF CommitClosure, Goto, QuotaRespected, CopyIsFresh, HasRoom, CounterHonest, WithinLimit
  <2>8. SalesReported'
    BY <1>9 DEF CommitClosure, Goto, SalesReported, SaleShape
  <2>9. CancellationReportedOnce'
    BY <1>9 DEF CommitClosure, Goto, CancellationReportedOnce, CancelShape, SaleShape
  <2>. QED BY <2>1, <2>2, <2>3, <2>4, <2>5, <2>6, <2>7, <2>8, <2>9
<1>10. ASSUME NEW p \in Periods, EnterPeriod(p) PROVE IInv'
  <2>1. TypeOK'
    BY <1>10 DEF EnterPeriod
  <2>2. Roles'
    BY <1>10 DEF EnterPeriod, Roles
  <2>3. SaleShape'
    BY <1>10 DEF EnterPeriod, SaleShape
  <2>4. CancelShape'
    BY <1>10 DEF EnterPeriod, CancelShape, SaleShape, CancellationReportedOnce
  <2>5. CopyIsFresh'
    BY <1>10 DEF EnterPeriod, CopyIsFresh, HasRoom, QuotaRespected, CounterHonest, WithinLimit
  <2>6. CounterHonest'
    BY <1>10 DEF EnterPeriod, CounterHonest, CopyIsFresh
  <2>7. QuotaRespected'
    BY <1>10 DEF EnterPeriod, QuotaRespected, CopyIsFresh, HasRoom, CounterHonest, WithinLimit
  <2>8. SalesReported'
    BY <1>10 DEF EnterPeriod, SalesReported, SaleShape
  <2>9. CancellationReportedOnce'
    BY <1>10 DEF EnterPeriod, CancellationReportedOnce, CancelShape, SaleShape
  <2>. QED BY <2>1, <2>2, <2>3, <2>4, <2>5, <2>6, <2>7, <2>8, <2>9
<1>11. ASSUME Lapse PROVE IInv'
  <2>1. TypeOK'
    <3>1. sub' \in [active : BOOLEAN, period : Periods]
      BY <1>11 DEF Lapse
    <3>. QED BY <1>11, <3>1 DEF Lapse
  <2>2. Roles'
    BY <1>11 DEF Lapse, Roles
  <2>3. SaleShape'
    BY <1>11 DEF Lapse, SaleShape
  <2>4. CancelShape'
    BY <1>11 DEF Lapse, CancelShape, SaleShape, CancellationReportedOnce
  <2>5. CopyIsFresh'
    BY <1>11 DEF Lapse, CopyIsFresh, HasRoom, QuotaRespected, CounterHonest, WithinLimit
  <2>6. CounterHonest'
    BY <1>11 DEF Lapse, CounterHonest, CopyIsFresh
  <2>7. QuotaRespected'
    BY <1>11 DEF Lapse, QuotaRespected, CopyIsFresh, HasRoom, CounterHonest, WithinLimit
  <2>8. SalesReported'
    BY <1>11 DEF Lapse, SalesReported, SaleShape
  <2>9. CancellationReportedOnce'
    BY <1>11 DEF Lapse, CancellationReportedOnce, CancelShape, SaleShape
  <2>. QED BY <2>1, <2>2, <2>3, <2>4, <2>5, <2>6, <2>7, <2>8, <2>9
<1>12. ASSUME NEW r \in Requests, Fail(r) PROVE IInv'
  <2>1. TypeOK'
    <3>1. pc[r] = "emit" => r \in Sellers
      BY DEF Roles
    <3>. QED BY <1>12, <3>1 DEF Fail, Goto
  <2>2. Roles'
    BY <1>12 DEF Fail, Goto, Roles
  <2>3. SaleShape'
    BY <1>12 DEF Fail, Goto, SaleShape
  <2>4. CancelShape'
    BY <1>12 DEF Fail, Goto, CancelShape, SaleShape, CancellationReportedOnce
  <2>5. CopyIsFresh'
    BY <1>12 DEF Fail, Goto, CopyIsFresh, HasRoom, QuotaRespected, CounterHonest, WithinLimit
  <2>6. CounterHonest'
    BY <1>12 DEF Fail, Goto, CounterHonest, CopyIsFresh
  <2>7. QuotaRespected'
    BY <1>12 DEF Fail, Goto, QuotaRespected, CopyIsFresh, HasRoom, CounterHonest, WithinLimit
  <2>8. SalesReported'
    BY <1>12 DEF Fail, Goto, SalesReported, SaleShape
  <2>9. CancellationReportedOnce'
    BY <1>12 DEF Fail, Goto, CancellationReportedOnce, CancelShape, SaleShape
  <2>. QED BY <2>1, <2>2, <2>3, <2>4, <2>5, <2>6, <2>7, <2>8, <2>9
<1>13. CASE UNCHANGED vars
  BY <1>13 DEF vars, Roles, SaleShape, CancelShape, CopyIsFresh, CounterHonest,
     QuotaRespected, SalesReported, CancellationReportedOnce, HasRoom, WithinLimit
<1>. QED BY <1>1, <1>2, <1>3, <1>4, <1>5, <1>6, <1>7, <1>8, <1>9, <1>10, <1>11, <1>12, <1>13 DEF Next, SaleStep

\* The invariant holds in every reachable state.
THEOREM Inductive == Spec => []IInv
BY InitOK, StepOK, PTL DEF Spec

\* Every variable keeps its type.
THEOREM TypeCorrect == Spec => []TypeOK
<1>1. IInv => TypeOK
  BY DEF IInv
<1>. QED BY <1>1, Inductive, PTL

\* The usage counter never exceeds what was sold, and what it loses are at most the
\* sales booked while another one was in progress.
THEOREM CountersAreHonest == Spec => []CounterHonest
<1>1. IInv => CounterHonest
  BY DEF IInv
<1>. QED BY <1>1, Inductive, PTL

\* A period is oversold by one sale at most for each sale booked while another one was
\* in progress and each change into the period under a sale that was checked before it.
THEOREM QuotasAreRespected == Spec => []QuotaRespected
<1>1. IInv => QuotaRespected
  BY DEF IInv
<1>. QED BY <1>1, Inductive, PTL

\* Every committed sale has its event, unless its request died before it.
THEOREM SalesAreReported == Spec => []SalesReported
<1>1. IInv => SalesReported
  BY DEF IInv
<1>. QED BY <1>1, Inductive, PTL

\* A cancellation is reported once, and once more at most for each request that
\* cancelled the sale while another one was about to.
THEOREM CancellationsAreReportedOnce == Spec => []CancellationReportedOnce
<1>1. IInv => CancellationReportedOnce
  BY DEF IInv
<1>. QED BY <1>1, Inductive, PTL

===============================================================================
