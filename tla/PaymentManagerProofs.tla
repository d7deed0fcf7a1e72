------------------------ MODULE PaymentManagerProofs ------------------------
(***************************************************************************)
(* Proofs about PaymentManager for any set of requests and payments and    *)
(* any number of crashes: type correctness, the lock discipline, the       *)
(* single grant per payment, and the refinement of PaymentOnce.            *)
(***************************************************************************)
EXTENDS PaymentManager, TLAPS

\* Where a request can be once it has a result or has called the facilitator,
\* and with which results a request leaves that called the facilitator.
ProgramPoints ==
  \A r \in Request :
    /\ outcome[r] # "none" => pc[r] \in {"unlock", "done"}
    /\ call[r] # "none" => pc[r] \in {"await", "record", "unlock", "done", "lost"}
    /\ call[r] # "none" /\ pc[r] \in {"unlock", "done"}
         => outcome[r] \in {"settled", "refused", "error500"}

\* The inductive invariant.  Mutual exclusion alone is not inductive for
\* CheckStaysValid, nor is that for GrantedAtMostOnce: the row that forbids the
\* second grant is the one GrantIsDurable speaks of.
IInv ==
  /\ TypeOK
  /\ ProgramPoints
  /\ LockHeldByOne
  /\ CheckStaysValid
  /\ GrantIsDurable
  /\ GrantedAtMostOnce
  /\ SecondCallNeedsAFailure

USE DEF Goto, Return, Leave, Holding, Granted, Finished, tables

\* Types are preserved, whatever the protocol does.
LEMMA TypeStep == TypeOK /\ [Next]_vars => TypeOK'
<1> SUFFICES ASSUME TypeOK, [Next]_vars PROVE TypeOK'
  OBVIOUS
<1> USE DEF TypeOK, PC, Outcome, Call
<1>1. ASSUME NEW r \in Request, NEW k \in Payment, Receive(r, k) PROVE TypeOK'
  BY <1>1 DEF Receive
<1>2. ASSUME NEW r \in Request, Thread(r) PROVE TypeOK'
  <2>1. CASE Prevalidate(r) \/ PrevalidationFails(r)
    BY <2>1 DEF Prevalidate, PrevalidationFails
  <2>2. CASE LockPaymentAsBeingSettled(r) \/ LockRefused(r) \/ Unlock(r)
    BY <2>2 DEF LockPaymentAsBeingSettled, LockRefused, Unlock
  <2>3. CASE CheckIsNew(r) \/ CheckAlreadySpent(r) \/ CheckThrows(r)
    BY <2>3 DEF CheckIsNew, CheckAlreadySpent, CheckThrows
  <2>4. CASE SendSettle(r) \/ ReceiveAnswer(r) \/ SettleCallThrows(r)
    BY <2>4 DEF SendSettle, ReceiveAnswer, SettleCallThrows
  <2>5. CASE RecordSuccessfulSettlement(r) \/ RecordThrows(r)
    BY <2>5 DEF RecordSuccessfulSettlement, RecordThrows
  <2>6. QED
    BY <1>2, <2>1, <2>2, <2>3, <2>4, <2>5 DEF Thread
<1>3. ASSUME NEW r \in Request, Facilitator(r) PROVE TypeOK'
  BY <1>3 DEF Facilitator, FacilitatorMoves, FacilitatorReports, FacilitatorDeclines
<1>4. CASE Crash
  BY <1>4, CrashAssumption DEF Crash
<1>5. CASE Quiescent \/ UNCHANGED vars
  BY <1>5 DEF Quiescent, vars
<1>6. QED
  BY <1>1, <1>2, <1>3, <1>4, <1>5 DEF Next

\* Type correctness of the specification.
THEOREM TypeCorrect == Spec => []TypeOK
<1>1. Init => TypeOK
  BY PaymentAssumption, CrashAssumption DEF Init, TypeOK, PC, Outcome, Call
<1>2. QED
  BY <1>1, TypeStep, PTL DEF Spec

\* One step of the system preserves the inductive invariant.
LEMMA StepKeepsIInv == IInv /\ [Next]_vars => IInv'
<1> SUFFICES ASSUME IInv, [Next]_vars PROVE IInv'
  OBVIOUS
<1>t. TypeOK'
  BY TypeStep DEF IInv
<1> USE DEF IInv, TypeOK, ProgramPoints, LockHeldByOne, CheckStaysValid, GrantIsDurable,
            GrantedAtMostOnce, SecondCallNeedsAFailure
<1>1. ASSUME NEW r \in Request, NEW k \in Payment, Receive(r, k) PROVE IInv'
  BY <1>1, <1>t DEF Receive
<1>2. ASSUME NEW r \in Request, Prevalidate(r) \/ PrevalidationFails(r) PROVE IInv'
  BY <1>2, <1>t DEF Prevalidate, PrevalidationFails
<1>3. ASSUME NEW r \in Request, LockPaymentAsBeingSettled(r) PROVE IInv'
  BY <1>3, <1>t DEF LockPaymentAsBeingSettled
<1>4. ASSUME NEW r \in Request, LockRefused(r) PROVE IInv'
  BY <1>4, <1>t DEF LockRefused
<1>5. ASSUME NEW r \in Request, CheckIsNew(r) PROVE IInv'
  BY <1>5, <1>t DEF CheckIsNew
<1>6. ASSUME NEW r \in Request, CheckAlreadySpent(r) \/ CheckThrows(r) PROVE IInv'
  BY <1>6, <1>t DEF CheckAlreadySpent, CheckThrows
<1>7. ASSUME NEW r \in Request, SendSettle(r) PROVE IInv'
  <2>1. \A s \in Request : s # r /\ payment[s] = payment[r] => ~Holding(s) /\ ~Granted(s)
    BY <1>7 DEF SendSettle
  <2>2. \A s \in Request : s # r /\ payment[s] = payment[r] /\ call[s] # "none"
          => outcome[s] = "error500" \/ pc[s] = "lost"
    BY <2>1
  <2>3. SecondCallNeedsAFailure'
    BY <1>7, <2>2 DEF SendSettle
  <2>4. QED
    BY <1>7, <1>t, <2>3 DEF SendSettle
<1>8. ASSUME NEW r \in Request, ReceiveAnswer(r) PROVE IInv'
  BY <1>8, <1>t DEF ReceiveAnswer
<1>9. ASSUME NEW r \in Request, SettleCallThrows(r) \/ RecordThrows(r) PROVE IInv'
  BY <1>9, <1>t DEF SettleCallThrows, RecordThrows
<1>10. ASSUME NEW r \in Request, RecordSuccessfulSettlement(r) PROVE IInv'
  <2>1. \A s \in Request : Granted(s) => payment[s] # payment[r]
    BY <1>10 DEF RecordSuccessfulSettlement
  <2>2. \A s \in Request : Holding(s) /\ s # r => payment[s] # payment[r]
    BY <1>10 DEF RecordSuccessfulSettlement
  <2>3. GrantedAtMostOnce' /\ GrantIsDurable'
    BY <1>10, <2>1 DEF RecordSuccessfulSettlement
  <2>4. CheckStaysValid'
    BY <1>10, <2>2 DEF RecordSuccessfulSettlement
  <2>5. (ProgramPoints /\ LockHeldByOne /\ SecondCallNeedsAFailure)'
    BY <1>10 DEF RecordSuccessfulSettlement
  <2>6. QED
    BY <1>t, <2>3, <2>4, <2>5
<1>11. ASSUME NEW r \in Request, Unlock(r) PROVE IInv'
  BY <1>11, <1>t DEF Unlock
<1>12. ASSUME NEW r \in Request, Facilitator(r) PROVE IInv'
  BY <1>12, <1>t DEF Facilitator, FacilitatorMoves, FacilitatorReports, FacilitatorDeclines
<1>13. CASE Crash
  BY <1>13, <1>t DEF Crash
<1>14. CASE Quiescent \/ UNCHANGED vars
  BY <1>14, <1>t DEF Quiescent, vars
<1>15. QED
  BY <1>1, <1>2, <1>3, <1>4, <1>5, <1>6, <1>7, <1>8, <1>9, <1>10, <1>11, <1>12, <1>13, <1>14
  DEF Next, Thread

\* The inductive invariant holds in every reachable state.
LEMMA Invariance == Spec => []IInv
<1>1. Init => IInv
  BY PaymentAssumption, CrashAssumption
  DEF Init, IInv, TypeOK, PC, Outcome, Call, ProgramPoints, LockHeldByOne, CheckStaysValid,
      GrantIsDurable, GrantedAtMostOnce, SecondCallNeedsAFailure
<1>2. QED
  BY <1>1, StepKeepsIInv, PTL DEF Spec

\* However many requests carry however many payments, and however often the
\* process crashes: the set of locked payments mirrors the requests inside the
\* guarded region, one request per payment, so the CHECK_STATE in
\* unlockPaymentAsBeingSettled cannot fail.
THEOREM LockDiscipline == Spec => []LockHeldByOne
<1>1. IInv => LockHeldByOne
  BY DEF IInv
<1>2. QED
  BY <1>1, Invariance, PTL

\* The row looked for by settledPaymentExists cannot appear between the check
\* and the INSERT.
THEOREM CheckThenActIsSafe == Spec => []CheckStaysValid
<1>1. IInv => CheckStaysValid
  BY DEF IInv
<1>2. QED
  BY <1>1, Invariance, PTL

\* One payment is granted to one request only, and only with its row written.
THEOREM SingleGrant == Spec => [](GrantedAtMostOnce /\ GrantIsDurable)
<1>1. IInv => GrantedAtMostOnce /\ GrantIsDurable
  BY DEF IInv
<1>2. QED
  BY <1>1, Invariance, PTL

\* A payment reaches the facilitator twice only after an internal error or a crash.
THEOREM RepeatedCallsFollowFailures == Spec => []SecondCallNeedsAFailure
<1>1. IInv => SecondCallNeedsAFailure
  BY DEF IInv
<1>2. QED
  BY <1>1, Invariance, PTL
-----------------------------------------------------------------------------
(***************************************************************************)
(* Refinement                                                              *)
(***************************************************************************)

\* The mapped status of every request, as a function.
StatusMap == [r \in Request |-> OnceStatus(r)]

\* A step that maps every request to the status it had, with the claims and the
\* table unchanged, is a stuttering step of PaymentOnce.
LEMMA Stutter ==
  ASSUME StatusMap' = StatusMap, payment' = payment, settledPayments' = settledPayments
  PROVE  [Once!Next]_(Once!vars)
BY DEF Once!vars, StatusMap

\* Every step of the payment manager is a step of PaymentOnce or a stutter.
LEMMA StepRefines == IInv /\ [Next]_vars => [Once!Next]_(Once!vars)
<1> SUFFICES ASSUME IInv, [Next]_vars PROVE [Once!Next]_(Once!vars)
  OBVIOUS
<1> USE DEF IInv, TypeOK, ProgramPoints, OnceStatus
<1>1. ASSUME NEW r \in Request, NEW k \in Payment, Receive(r, k)
      PROVE Once!Submit(r, k)
  BY <1>1 DEF Receive, Once!Submit
<1>2. ASSUME NEW r \in Request, PrevalidationFails(r) \/ LockRefused(r) PROVE Once!Reject(r)
  <2>1. CASE PrevalidationFails(r)
    BY <2>1 DEF PrevalidationFails, Once!Reject
  <2>2. CASE LockRefused(r)
    BY <2>2 DEF LockRefused, Once!Reject
  <2>3. QED
    BY <1>2, <2>1, <2>2
<1>3. ASSUME NEW r \in Request, RecordSuccessfulSettlement(r) PROVE Once!Consume(r)
  BY <1>3 DEF RecordSuccessfulSettlement, Once!Consume
<1>4. ASSUME NEW r \in Request, Unlock(r), Granted(r) PROVE Once!Grant(r)
  BY <1>4 DEF Unlock, Once!Grant
<1>5. ASSUME NEW r \in Request, Unlock(r), ~Granted(r) PROVE Once!Reject(r)
  BY <1>5 DEF Unlock, Once!Reject
<1>6. ASSUME Crash PROVE Once!Drop
  BY <1>6 DEF Crash, Once!Drop
<1>7. ASSUME NEW r \in Request,
             \/ Prevalidate(r) \/ LockPaymentAsBeingSettled(r)
             \/ CheckIsNew(r) \/ CheckAlreadySpent(r) \/ CheckThrows(r)
             \/ SendSettle(r) \/ ReceiveAnswer(r) \/ SettleCallThrows(r) \/ RecordThrows(r)
      PROVE StatusMap' = StatusMap /\ payment' = payment /\ settledPayments' = settledPayments
  <2> USE DEF StatusMap
  <2>1. CASE Prevalidate(r) \/ LockPaymentAsBeingSettled(r)
    BY <2>1 DEF Prevalidate, LockPaymentAsBeingSettled
  <2>2. CASE CheckIsNew(r) \/ CheckAlreadySpent(r) \/ CheckThrows(r)
    BY <2>2 DEF CheckIsNew, CheckAlreadySpent, CheckThrows
  <2>3. CASE SendSettle(r) \/ ReceiveAnswer(r)
    BY <2>3 DEF SendSettle, ReceiveAnswer
  <2>4. CASE SettleCallThrows(r) \/ RecordThrows(r)
    BY <2>4 DEF SettleCallThrows, RecordThrows
  <2>5. QED
    BY <1>7, <2>1, <2>2, <2>3, <2>4
<1>8. ASSUME (\E r \in Request : Facilitator(r)) \/ Quiescent \/ UNCHANGED vars
      PROVE StatusMap' = StatusMap /\ payment' = payment /\ settledPayments' = settledPayments
  BY <1>8 DEF Facilitator, FacilitatorMoves, FacilitatorReports, FacilitatorDeclines, Quiescent, vars, StatusMap
<1>9. QED
  BY <1>1, <1>2, <1>3, <1>4, <1>5, <1>6, <1>7, <1>8, Stutter DEF Next, Thread, Once!Next

\* The payment manager implements the abstract promise.
THEOREM Refinement == Spec => ImplementsPaymentOnce
<1>1. Init => Once!Init
  BY DEF Init, Once!Init, OnceStatus
<1>2. QED
  BY <1>1, StepRefines, Invariance, PTL DEF Spec, ImplementsPaymentOnce, Once!Spec
=============================================================================
