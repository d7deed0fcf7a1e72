--------------------------- MODULE EasyNetGateway ---------------------------
(***************************************************************************)
(* The default deployment: the gateway settles with the facilitator it     *)
(* hosts itself.  PaymentManager posts the settlement over HTTPS to its    *)
(* own process, where EasyNetFacilitator executes it on the ledger in the  *)
(* same SQLite file, and both die together.                                *)
(*                                                                         *)
(* A settle call of PaymentManager is a call of EasyNetFacilitator: it     *)
(* arrives when the request sends it, has moved the money when the ledger  *)
(* commits, says so or denies it afterwards, and is answered when the      *)
(* facilitator replies.  A gateway request that gives up does not recall   *)
(* it.                                                                     *)
(***************************************************************************)
EXTENDS PaymentManager

CONSTANTS Wallet, Authorization, InitialFunding, MaxUint, NoCall

VARIABLES fpc, kind, auth, answer, seen, exclusive, shared, stateMutex, rows, balance,
          transactions, funded, restarts

F == INSTANCE EasyNetFacilitator
       WITH Call <- Request, pc <- fpc, crashes <- restarts

fvars == <<fpc, kind, auth, answer, seen, exclusive, shared, stateMutex, rows, balance,
           transactions, funded, restarts>>
gateway == vars
all == <<vars, fvars>>

\* Every payment carries its own authorization.
ASSUME AuthorizationOfPayment == Authorization \subseteq [payment : Payment, from : Wallet,
                                                          to : Wallet, value : 0..MaxUint]

GatewayInit == Init /\ F!Init

\* The request presents the authorization its payment is about.
ReceivePayment(r) ==
  /\ Receive(r, auth[r].payment)
  /\ UNCHANGED fvars

\* The steps of a request that the facilitator does not see.
Alone(r) ==
  /\ \/ Prevalidate(r)
     \/ PrevalidationFails(r)
     \/ LockPaymentAsBeingSettled(r)
     \/ LockRefused(r)
     \/ CheckIsNew(r)
     \/ CheckAlreadySpent(r)
     \/ CheckThrows(r)
     \/ SettleCallThrows(r)
     \/ RecordSuccessfulSettlement(r)
     \/ RecordThrows(r)
     \/ Unlock(r)
  /\ UNCHANGED fvars

SendToFacilitator(r) == SendSettle(r) /\ F!Arrive(r, "settle")

\* The answer exists when the facilitator has replied.
ReceiveReply(r) ==
  /\ fpc[r] = "done"
  /\ ReceiveAnswer(r)
  /\ UNCHANGED fvars

\* A step of the facilitator: the commit is what moves the money, an answer from
\* then on reports it, rightly or not, a negative answer before it declines.
FacilitatorStep(r) ==
  \/ /\ \/ F!EnterSettle(r)
        \/ F!AcceptPayload(r)
        \/ F!ReadSender(r)
        \/ F!LockState(r)
        \/ F!InsertFunds(r)
        \/ F!ReadForTransfer(r)
        \/ F!Reply(r)
        \/ F!ReadReceiver(r) /\ answer'[r] = "none"
     /\ UNCHANGED gateway
  \/ F!Commit(r) /\ FacilitatorMoves(r)
  \/ /\ \/ F!Confirm(r) /\ call' = [call EXCEPT ![r] = "confirmed"]
        \/ fpc[r] = "committed" /\ F!Throw(r) /\ call' = [call EXCEPT ![r] = "misreported"]
     /\ FacilitatorReports(r)
  \/ /\ \/ F!RejectPayload(r)
        \/ fpc[r] # "committed" /\ F!Throw(r)
        \/ F!ReadReceiver(r) /\ answer'[r] = "no"
     /\ call' = [call EXCEPT ![r] = "refused"]
     /\ UNCHANGED <<pc, payment, outcome, tables, crashes>>

Idle(r) == (pc[r] = "idle" \/ Finished(r)) /\ (fpc[r] = "idle" \/ F!Finished(r))

\* The process dies with whichever of its halves are at work.
CrashBoth ==
  /\ \E r \in Request : ~Idle(r)
  /\ \/ Crash
     \/ UNCHANGED gateway /\ \A r \in Request : pc[r] = "idle" \/ Finished(r)
  /\ \/ F!Crash
     \/ UNCHANGED fvars /\ \A r \in Request : fpc[r] = "idle" \/ F!Finished(r)

AllDone ==
  /\ \A r \in Request : Finished(r) /\ Idle(r)
  /\ UNCHANGED all

GatewayNext ==
  \/ \E r \in Request : \/ ReceivePayment(r)
                        \/ Alone(r)
                        \/ SendToFacilitator(r)
                        \/ ReceiveReply(r)
                        \/ FacilitatorStep(r)
  \/ CrashBoth
  \/ AllDone

GatewaySpec == GatewayInit /\ [][GatewayNext]_all
-----------------------------------------------------------------------------
\* How PaymentManager leaves a request tells what the ledger took, then and after
\* any crash: a SettlementResponse with success = true means a transfer; one with
\* success = false (recorded, granted and served all the same, see
\* RefusedIsNotGranted) means none, unless it is the facilitator's
\* unexpected_settle_error; an HTTP 400 means none, now or later.  An HTTP 500, or
\* a crash, tells nothing.
OutcomeTellsTheLedger ==
  \A r \in Request :
    /\ outcome[r] = "settled" => r \in transactions
    /\ outcome[r] = "refused" => r \notin transactions \/ answer[r] = "error"
    /\ outcome[r] = "error400" => r \notin transactions

\* The ledger moves money twice for one payment only after the gateway has told
\* one of the two payers of an internal error, or died: its table protects every
\* payer that was answered, although the facilitator itself protects nobody.
SecondChargeNeedsAFailure ==
  \A r, s \in transactions :
    payment[r] = payment[s] /\ r # s => \E t \in {r, s} : outcome[t] = "error500" \/ pc[t] = "lost"

\* EIP712Domain.h: "payment for a particular unique payment can only be settled
\* once".  The settle call may time out after the ledger has committed; the
\* gateway then forgets the payment, and a retry is charged again.
PaidOnlyOnce == \A r, s \in transactions : payment[r] = payment[s] => r = s
=============================================================================
