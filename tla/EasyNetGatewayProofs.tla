------------------------ MODULE EasyNetGatewayProofs ------------------------
(***************************************************************************)
(* Proofs about EasyNetGateway, for any requests, payments, wallets and    *)
(* amounts and any number of crashes: the composed system is still the     *)
(* payment manager on its own side and the facilitator on the other, so    *)
(* that what is proved of each of them holds of it; the outcome of a       *)
(* request tells what the ledger took; a second charge needs a failure.    *)
(***************************************************************************)
EXTENDS EasyNetGateway, PaymentManagerProofs

\* Where a call is while its outcome is open.
Undecided(r) ==
  fpc[r] \in {"enter", "validate", "sender", "receiver", "fund", "insert", "transfer", "write"}

\* What PaymentManager thinks of a call is what the facilitator has done with it:
\* the variable `call' and the ledger do not drift apart.
CallsAgree ==
  /\ auth \in [Request -> Authorization]
  /\ fpc \in [Request -> F!PC]
  /\ answer \in [Request -> F!Answers]
  /\ transactions \subseteq Request
  /\ \A r \in Request : /\ Undecided(r) => call[r] = "sent"
                        /\ fpc[r] = "committed" => call[r] = "moved"
                        /\ Undecided(r) \/ fpc[r] \in {"idle", "committed"} => answer[r] = "none"
                        /\ call[r] = "none" <=> fpc[r] = "idle"
                        /\ call[r] \in {"moved", "confirmed"} => r \in transactions
                        /\ call[r] \in {"none", "sent", "refused"} => r \notin transactions
                        /\ call[r] = "misreported" /\ fpc[r] \in {"reply", "done"} => answer[r] = "error"

\* What PaymentManager makes of the answer it has received, which nothing changes
\* any more.
Receipts ==
  \A r \in Request : /\ pc[r] = "record" \/ Granted(r) => fpc[r] = "done"
                     /\ pc[r] = "record" => call[r] \in {"confirmed", "misreported", "refused"}
                     /\ outcome[r] = "settled" => call[r] = "confirmed"
                     /\ outcome[r] = "refused" => call[r] \in {"misreported", "refused"}

\* The inductive invariant: that of the payment manager, and the link.
GatewayInv ==
  /\ IInv
  /\ CallsAgree
  /\ Receipts

USE DEF Goto, Return, Leave, tables, F!Goto, F!Answer, F!Finished, F!locks, F!locals, F!ledger

\* An authorization is about a payment.
LEMMA PaymentOfAuthorization ==
  ASSUME CallsAgree, NEW r \in Request
  PROVE  auth[r].payment \in Payment
<1>1. auth[r] \in [payment : Payment, from : Wallet, to : Wallet, value : 0..MaxUint]
  BY AuthorizationOfPayment DEF CallsAgree
<1>2. QED
  BY <1>1

\* What the two halves see of a step of the facilitator.
LEMMA FacilitatorSide ==
  ASSUME CallsAgree, NEW r \in Request, FacilitatorStep(r)
  PROVE  /\ UNCHANGED gateway \/ Facilitator(r)
         /\ F!Thread(r)
<1>1. CASE /\ \/ F!EnterSettle(r) \/ F!AcceptPayload(r) \/ F!ReadSender(r) \/ F!LockState(r)
              \/ F!InsertFunds(r) \/ F!ReadForTransfer(r) \/ F!Reply(r)
              \/ (F!ReadReceiver(r) /\ answer'[r] = "none")
           /\ UNCHANGED gateway
  BY <1>1 DEF F!Thread
<1>2. CASE F!Commit(r) /\ FacilitatorMoves(r)
  BY <1>2 DEF F!Thread, Facilitator
<1>3. CASE /\ \/ F!RejectPayload(r)
              \/ fpc[r] # "committed" /\ F!Throw(r)
              \/ F!ReadReceiver(r) /\ answer'[r] = "no"
           /\ call' = [call EXCEPT ![r] = "refused"]
           /\ UNCHANGED <<pc, payment, outcome, tables, crashes>>
  <2>1. fpc[r] \in {"validate", "sender", "receiver", "fund", "insert", "transfer", "write"}
    BY <1>3 DEF F!RejectPayload, F!Throw, F!ReadReceiver
  <2>2. call[r] = "sent"
    BY <2>1 DEF CallsAgree, Undecided
  <2>3. FacilitatorDeclines(r)
    BY <1>3, <2>2 DEF FacilitatorDeclines
  <2>4. QED
    BY <1>3, <2>3 DEF Facilitator, F!Thread
<1>4. CASE /\ \/ F!Confirm(r) /\ call' = [call EXCEPT ![r] = "confirmed"]
              \/ fpc[r] = "committed" /\ F!Throw(r) /\ call' = [call EXCEPT ![r] = "misreported"]
           /\ FacilitatorReports(r)
  BY <1>4 DEF F!Thread, Facilitator
<1>5. QED
  BY <1>1, <1>2, <1>3, <1>4 DEF FacilitatorStep

\* A step of the gateway is a step of the payment manager, or none.
LEMMA ManagerSide == CallsAgree /\ [GatewayNext]_all => [Next]_vars
<1> SUFFICES ASSUME CallsAgree, [GatewayNext]_all PROVE [Next]_vars
  OBVIOUS
<1>1. ASSUME NEW r \in Request, ReceivePayment(r) PROVE Next
  BY <1>1, PaymentOfAuthorization DEF ReceivePayment, Next
<1>2. ASSUME NEW r \in Request, Alone(r) PROVE Next
  BY <1>2 DEF Alone, Next, Thread
<1>3. ASSUME NEW r \in Request, SendToFacilitator(r) \/ ReceiveReply(r) PROVE Next
  BY <1>3 DEF SendToFacilitator, ReceiveReply, Next, Thread
<1>4. ASSUME NEW r \in Request, FacilitatorStep(r) PROVE [Next]_vars
  BY <1>4, FacilitatorSide DEF Next, gateway
<1>5. CASE CrashBoth
  BY <1>5 DEF CrashBoth, Next, gateway
<1>6. CASE AllDone \/ UNCHANGED all
  BY <1>6 DEF AllDone, all
<1>7. QED
  BY <1>1, <1>2, <1>3, <1>4, <1>5, <1>6 DEF GatewayNext

\* And a step of the facilitator, or none.
LEMMA LedgerSide == CallsAgree /\ [GatewayNext]_all => [F!Next]_(F!vars)
<1> SUFFICES ASSUME CallsAgree, [GatewayNext]_all PROVE [F!Next]_(F!vars)
  OBVIOUS
<1>1. ASSUME UNCHANGED fvars PROVE UNCHANGED F!vars
  BY <1>1 DEF fvars, F!vars
<1>2. ASSUME NEW r \in Request, ReceivePayment(r) \/ Alone(r) \/ ReceiveReply(r)
      PROVE  UNCHANGED fvars
  BY <1>2 DEF ReceivePayment, Alone, ReceiveReply
<1>3. ASSUME NEW r \in Request, SendToFacilitator(r) PROVE F!Next
  BY <1>3 DEF SendToFacilitator, F!Next
<1>4. ASSUME NEW r \in Request, FacilitatorStep(r) PROVE F!Next
  BY <1>4, FacilitatorSide DEF F!Next
<1>5. CASE CrashBoth
  BY <1>5, <1>1 DEF CrashBoth, F!Next
<1>6. CASE AllDone \/ UNCHANGED all
  BY <1>6, <1>1 DEF AllDone, all
<1>7. QED
  BY <1>1, <1>2, <1>3, <1>4, <1>5, <1>6 DEF GatewayNext
-----------------------------------------------------------------------------
\* A step within a call that decides nothing.
LEMMA Advance ==
  ASSUME CallsAgree, NEW r \in Request, Undecided(r), NEW to \in F!PC \ {"idle", "committed", "reply", "done"},
         fpc' = [fpc EXCEPT ![r] = to], UNCHANGED <<auth, answer, transactions, call>>
  PROVE  CallsAgree'
<1>1. fpc' \in [Request -> F!PC]
  BY DEF CallsAgree
<1>2. \A q \in Request : /\ Undecided(q)' => Undecided(q)
                         /\ fpc'[q] \in {"idle", "committed", "reply", "done"} => fpc'[q] = fpc[q]
                         /\ fpc[q] = "idle" => fpc'[q] = "idle"
  BY DEF CallsAgree, Undecided
<1>3. QED
  BY <1>1, <1>2 DEF CallsAgree

\* A step of the facilitator changes its own call only, forwards.
LEMMA CallsAgreeInFacilitator ==
  ASSUME TypeOK, CallsAgree, NEW r \in Request, FacilitatorStep(r)
  PROVE  CallsAgree'
<1> USE DEF Undecided, F!PC, F!Answers
<1>1. CASE /\ \/ F!EnterSettle(r) \/ F!AcceptPayload(r) \/ F!ReadSender(r) \/ F!LockState(r)
              \/ F!InsertFunds(r) \/ F!ReadForTransfer(r) \/ F!Reply(r)
              \/ (F!ReadReceiver(r) /\ answer'[r] = "none")
           /\ UNCHANGED gateway
  <2>1. UNCHANGED call
    BY <1>1 DEF gateway, vars
  <2>2. CASE F!EnterSettle(r) \/ F!AcceptPayload(r) \/ F!ReadSender(r)
    BY <2>1, <2>2, Advance DEF F!EnterSettle, F!AcceptPayload, F!ReadSender
  <2>3. CASE F!LockState(r)
    BY <2>1, <2>3, Advance DEF F!LockState
  <2>4. CASE F!InsertFunds(r) \/ F!ReadForTransfer(r)
    BY <2>1, <2>4, Advance DEF F!InsertFunds, F!ReadForTransfer
  <2>5. CASE F!ReadReceiver(r) /\ answer'[r] = "none"
    BY <2>1, <2>5, Advance DEF F!ReadReceiver, CallsAgree
  <2>6. CASE F!Reply(r)
    <3>1. /\ fpc[r] = "reply" /\ fpc' = [fpc EXCEPT ![r] = "done"]
          /\ UNCHANGED <<auth, answer, transactions>>
      BY <2>6 DEF F!Reply
    <3>2. fpc' \in [Request -> F!PC]
      BY <3>1 DEF CallsAgree
    <3>3. QED
      BY <2>1, <3>1, <3>2 DEF CallsAgree
  <2>7. QED
    BY <1>1, <2>2, <2>3, <2>4, <2>5, <2>6
<1>2. CASE F!Commit(r) /\ FacilitatorMoves(r)
  <2>1. /\ UNCHANGED auth /\ transactions' = transactions \cup {r}
        /\ fpc' = [fpc EXCEPT ![r] = "committed"] /\ fpc[r] = "write"
        /\ UNCHANGED answer
        /\ call' = [call EXCEPT ![r] = "moved"]
    BY <1>2 DEF F!Commit, FacilitatorMoves
  <2>2. QED
    BY <2>1 DEF CallsAgree, TypeOK
<1>3. CASE /\ \/ F!RejectPayload(r)
              \/ fpc[r] # "committed" /\ F!Throw(r)
              \/ F!ReadReceiver(r) /\ answer'[r] = "no"
           /\ call' = [call EXCEPT ![r] = "refused"]
           /\ UNCHANGED <<pc, payment, outcome, tables, crashes>>
  <2>1. /\ UNCHANGED <<auth, transactions>>
        /\ fpc' = [fpc EXCEPT ![r] = "reply"]
        /\ \E a \in {"no", "error"} : answer' = [answer EXCEPT ![r] = a]
        /\ Undecided(r)
    BY <1>3 DEF F!RejectPayload, F!Throw, F!ReadReceiver, CallsAgree
  <2>2. QED
    BY <1>3, <2>1 DEF CallsAgree, TypeOK
<1>4. CASE /\ \/ F!Confirm(r) /\ call' = [call EXCEPT ![r] = "confirmed"]
              \/ fpc[r] = "committed" /\ F!Throw(r) /\ call' = [call EXCEPT ![r] = "misreported"]
           /\ FacilitatorReports(r)
  <2>1. /\ UNCHANGED <<auth, transactions>>
        /\ fpc' = [fpc EXCEPT ![r] = "reply"] /\ fpc[r] = "committed"
        /\ \/ /\ answer' = [answer EXCEPT ![r] = "yes"]
              /\ call' = [call EXCEPT ![r] = "confirmed"]
           \/ /\ answer' = [answer EXCEPT ![r] = "error"]
              /\ call' = [call EXCEPT ![r] = "misreported"]
    BY <1>4 DEF F!Confirm, F!Throw
  <2>2. QED
    BY <2>1 DEF CallsAgree, TypeOK
<1> HIDE DEF Undecided, F!PC, F!Answers
<1>5. QED
  BY <1>1, <1>2, <1>3, <1>4 DEF FacilitatorStep

\* The link survives every step of the composed system.
LEMMA CallsAgreeStep ==
  ASSUME TypeOK, CallsAgree, [GatewayNext]_all
  PROVE  CallsAgree'
<1>1. ASSUME UNCHANGED <<fvars, call>> PROVE CallsAgree'
  BY <1>1 DEF fvars, CallsAgree, Undecided
<1>2. ASSUME NEW r \in Request, ReceivePayment(r) \/ Alone(r) \/ ReceiveReply(r)
      PROVE  UNCHANGED <<fvars, call>>
  <2>1. CASE ReceivePayment(r) \/ ReceiveReply(r)
    BY <2>1 DEF ReceivePayment, Receive, ReceiveReply, ReceiveAnswer
  <2>2. CASE Alone(r)
    BY <2>2 DEF Alone, Prevalidate, PrevalidationFails, LockPaymentAsBeingSettled, LockRefused,
                CheckIsNew, CheckAlreadySpent, CheckThrows, SettleCallThrows,
                RecordSuccessfulSettlement, RecordThrows, Unlock
  <2>3. QED
    BY <1>2, <2>1, <2>2
<1>3. ASSUME NEW r \in Request, SendToFacilitator(r) PROVE CallsAgree'
  <2>1. /\ fpc[r] = "idle" /\ fpc' = [fpc EXCEPT ![r] = "enter"]
        /\ UNCHANGED <<auth, answer, transactions>>
        /\ call' = [call EXCEPT ![r] = "sent"]
    BY <1>3 DEF SendToFacilitator, SendSettle, F!Arrive
  <2>2. fpc' \in [Request -> F!PC]
    BY <2>1 DEF CallsAgree, F!PC
  <2>3. QED
    BY <2>1, <2>2 DEF CallsAgree, TypeOK, Undecided
<1>4. CASE CrashBoth
  <2>1. call' = call
    BY <1>4 DEF CrashBoth, Crash, gateway, vars
  <2>2. CASE UNCHANGED fvars
    BY <1>1, <2>1, <2>2
  <2>3. CASE F!Crash
    <3>1. /\ fpc' = [r \in Request |-> IF fpc[r] = "idle" \/ F!Finished(r) THEN fpc[r] ELSE "lost"]
          /\ answer' = [r \in Request |-> IF fpc[r] = "reply" THEN "none" ELSE answer[r]]
          /\ UNCHANGED <<auth, transactions>>
      BY <2>3 DEF F!Crash
    <3>2. /\ fpc' \in [Request -> F!PC]
          /\ answer' \in [Request -> F!Answers]
      BY <3>1 DEF CallsAgree, F!PC, F!Answers
    <3>3. \A r \in Request : /\ ~Undecided(r)' /\ fpc'[r] \notin {"committed", "reply"}
                             /\ fpc'[r] = "idle" <=> fpc[r] = "idle"
                             /\ fpc'[r] = "done" <=> fpc[r] = "done"
                             /\ fpc'[r] \in {"idle", "done"} => answer'[r] = answer[r]
      BY <3>1 DEF Undecided
    <3>4. QED
      BY <2>1, <3>1, <3>2, <3>3 DEF CallsAgree
  <2>4. QED
    BY <1>4, <2>2, <2>3 DEF CrashBoth
<1>5. CASE AllDone \/ UNCHANGED all
  BY <1>1, <1>5 DEF AllDone, all, vars
<1>6. QED
  BY <1>1, <1>2, <1>3, <1>4, <1>5, CallsAgreeInFacilitator DEF GatewayNext

\* A step that leaves the payment manager's side of every received answer alone.
LEMMA ReceiptsFrame ==
  ASSUME Receipts, UNCHANGED <<pc, outcome>>,
         \A q \in Request : fpc[q] = "done" => fpc'[q] = "done" /\ call'[q] = call[q]
  PROVE  Receipts'
BY DEF Receipts, Granted

\* What a request has received, and what it was given for it, is not changed.
LEMMA ReceiptsStep ==
  ASSUME TypeOK, ProgramPoints, CallsAgree, Receipts, [GatewayNext]_all
  PROVE  Receipts'
<1> USE DEF Receipts, Granted, TypeOK
<1>1. ASSUME NEW r \in Request, ReceivePayment(r) PROVE Receipts'
  BY <1>1 DEF ReceivePayment, Receive, fvars
<1>2. ASSUME NEW r \in Request, Alone(r) PROVE Receipts'
  <2>1. UNCHANGED <<fvars, call>>
    BY <1>2 DEF Alone, Prevalidate, PrevalidationFails, LockPaymentAsBeingSettled, LockRefused,
                CheckIsNew, CheckAlreadySpent, CheckThrows, SettleCallThrows,
                RecordSuccessfulSettlement, RecordThrows, Unlock
  <2>2. CASE Prevalidate(r) \/ PrevalidationFails(r)
    BY <2>1, <2>2 DEF Prevalidate, PrevalidationFails, fvars
  <2>3. CASE LockPaymentAsBeingSettled(r) \/ LockRefused(r) \/ Unlock(r)
    BY <2>1, <2>3 DEF LockPaymentAsBeingSettled, LockRefused, Unlock, fvars
  <2>4. CASE CheckIsNew(r) \/ CheckAlreadySpent(r) \/ CheckThrows(r)
    BY <2>1, <2>4 DEF CheckIsNew, CheckAlreadySpent, CheckThrows, fvars
  <2>5. CASE SettleCallThrows(r) \/ RecordThrows(r)
    BY <2>1, <2>5 DEF SettleCallThrows, RecordThrows, fvars
  <2>6. CASE RecordSuccessfulSettlement(r)
    BY <2>1, <2>6 DEF RecordSuccessfulSettlement, fvars
  <2>7. QED
    BY <1>2, <2>2, <2>3, <2>4, <2>5, <2>6 DEF Alone
<1>3. ASSUME NEW r \in Request, SendToFacilitator(r) PROVE Receipts'
  <2>1. /\ fpc[r] = "idle" /\ fpc' = [fpc EXCEPT ![r] = "enter"]
        /\ pc[r] = "settle" /\ pc' = [pc EXCEPT ![r] = "await"] /\ UNCHANGED outcome
        /\ call' = [call EXCEPT ![r] = "sent"]
    BY <1>3 DEF SendToFacilitator, SendSettle, F!Arrive
  <2>2. \A q \in Request \ {r} : pc'[q] = pc[q] /\ fpc'[q] = fpc[q] /\ call'[q] = call[q]
    BY <2>1 DEF CallsAgree
  <2>3. pc'[r] # "record" /\ outcome'[r] \notin {"settled", "refused"}
    BY <2>1 DEF ProgramPoints
  <2>4. QED
    BY <2>1, <2>2, <2>3
<1>4. ASSUME NEW r \in Request, ReceiveReply(r) PROVE Receipts'
  BY <1>4 DEF ReceiveReply, ReceiveAnswer, fvars
<1>5. ASSUME NEW r \in Request, FacilitatorStep(r) PROVE Receipts'
  <2>1. UNCHANGED <<pc, outcome>>
    BY <1>5 DEF FacilitatorStep, FacilitatorMoves, FacilitatorReports, gateway, vars
  <2>2. fpc[r] # "done" /\ \A q \in Request \ {r} : fpc'[q] = fpc[q]
    BY <1>5 DEF FacilitatorStep, CallsAgree, F!EnterSettle, F!AcceptPayload, F!ReadSender, F!LockState,
                F!InsertFunds, F!ReadForTransfer, F!Reply, F!ReadReceiver, F!Commit, F!Confirm, F!Throw,
                F!RejectPayload
  <2>3. \A q \in Request \ {r} : call'[q] = call[q]
    BY <1>5 DEF FacilitatorStep, FacilitatorMoves, FacilitatorReports, gateway, vars
  <2>4. QED
    BY <2>1, <2>2, <2>3, ReceiptsFrame
<1>6. CASE CrashBoth
  <2>1. \A q \in Request : /\ call'[q] = call[q]
                           /\ fpc[q] = "done" => fpc'[q] = "done"
    BY <1>6 DEF CrashBoth, Crash, gateway, vars, F!Crash, fvars
  <2>2. CASE UNCHANGED gateway
    BY <2>1, <2>2, ReceiptsFrame DEF gateway, vars
  <2>3. CASE Crash
    BY <2>1, <2>3 DEF Crash
  <2>4. QED
    BY <1>6, <2>2, <2>3 DEF CrashBoth
<1>7. CASE AllDone \/ UNCHANGED all
  BY <1>7 DEF AllDone, all, vars, fvars
<1>8. QED
  BY <1>1, <1>2, <1>3, <1>4, <1>5, <1>6, <1>7 DEF GatewayNext
-----------------------------------------------------------------------------
\* The gateway starts in the invariant.
LEMMA GatewayStarts == GatewayInit => GatewayInv
<1> SUFFICES ASSUME GatewayInit PROVE GatewayInv
  OBVIOUS
<1>1. Init /\ F!Init
  BY DEF GatewayInit
<1>2. IInv
  BY <1>1, PaymentAssumption, CrashAssumption
  DEF Init, IInv, TypeOK, PC, Outcome, Call, ProgramPoints, LockHeldByOne, CheckStaysValid,
      GrantIsDurable, GrantedAtMostOnce, SecondCallNeedsAFailure, Granted, Holding
<1>3. CallsAgree /\ Receipts
  BY <1>1 DEF Init, F!Init, CallsAgree, Undecided, F!PC, F!Answers, Receipts, Granted
<1>4. QED
  BY <1>2, <1>3 DEF GatewayInv

\* One step of the gateway preserves its invariant.
LEMMA GatewayStep == GatewayInv /\ [GatewayNext]_all => GatewayInv'
<1> SUFFICES ASSUME GatewayInv, [GatewayNext]_all PROVE GatewayInv'
  OBVIOUS
<1>1. TypeOK /\ ProgramPoints
  BY DEF GatewayInv, IInv
<1>2. IInv'
  BY ManagerSide, StepKeepsIInv DEF GatewayInv
<1>3. CallsAgree' /\ Receipts'
  BY <1>1, CallsAgreeStep, ReceiptsStep DEF GatewayInv
<1>4. QED
  BY <1>2, <1>3 DEF GatewayInv

\* The invariant holds in every reachable state.
LEMMA GatewayInvariance == GatewaySpec => []GatewayInv
BY GatewayStarts, GatewayStep, PTL DEF GatewaySpec

\* The gateway with its own facilitator is a payment manager: everything proved of
\* PaymentManager, with a facilitator that does what it likes, holds of it.
THEOREM GatewayIsPaymentManager == GatewaySpec => Spec
<1>1. GatewayInit => Init
  BY DEF GatewayInit
<1>2. GatewayInv /\ [GatewayNext]_all => [Next]_vars
  BY ManagerSide DEF GatewayInv
<1>3. QED
  BY <1>1, <1>2, GatewayInvariance, PTL DEF GatewaySpec, Spec

\* It is a facilitator, too: whatever calls the payment manager makes and gives up.
THEOREM GatewayIsFacilitator == GatewaySpec => F!Spec
<1>1. GatewayInit => F!Init
  BY DEF GatewayInit
<1>2. GatewayInv /\ [GatewayNext]_all => [F!Next]_(F!vars)
  BY LedgerSide DEF GatewayInv
<1>3. QED
  BY <1>1, <1>2, GatewayInvariance, PTL DEF GatewaySpec, F!Spec

\* So it keeps the promise of PaymentOnce.
THEOREM GatewayPaysOnce == GatewaySpec => ImplementsPaymentOnce
BY GatewayIsPaymentManager, Refinement, PTL

\* The outcome of a request tells what the ledger took from its payer: a settled one
\* its transfer, a refused one or an HTTP 400 nothing, the facilitator's
\* unexpected_settle_error excepted.
THEOREM OutcomesAreTruthful == GatewaySpec => []OutcomeTellsTheLedger
<1>1. GatewayInv => OutcomeTellsTheLedger
  <2> SUFFICES ASSUME GatewayInv, NEW r \in Request
               PROVE  /\ outcome[r] = "settled" => r \in transactions
                      /\ outcome[r] = "refused" => r \notin transactions \/ answer[r] = "error"
                      /\ outcome[r] = "error400" => r \notin transactions
    BY DEF OutcomeTellsTheLedger
  <2>1. CallsAgree /\ Receipts /\ ProgramPoints
    BY DEF GatewayInv, IInv
  <2>2. outcome[r] = "settled" => r \in transactions
    BY <2>1 DEF CallsAgree, Receipts
  <2>3. outcome[r] = "refused" => r \notin transactions \/ answer[r] = "error"
    BY <2>1 DEF CallsAgree, Receipts, Granted
  <2>4. outcome[r] = "error400" => call[r] = "none"
    BY <2>1 DEF ProgramPoints
  <2>5. QED
    BY <2>1, <2>2, <2>3, <2>4 DEF CallsAgree
<1>2. QED
  BY <1>1, GatewayInvariance, PTL

\* Two transfers for one payment mean that one of its requests was told of an
\* internal error or died with the process.
THEOREM SecondChargeFollowsFailure == GatewaySpec => []SecondChargeNeedsAFailure
<1>1. GatewayInv => SecondChargeNeedsAFailure
  BY DEF GatewayInv, IInv, CallsAgree, SecondCallNeedsAFailure, SecondChargeNeedsAFailure
<1>2. QED
  BY <1>1, GatewayInvariance, PTL
=============================================================================
