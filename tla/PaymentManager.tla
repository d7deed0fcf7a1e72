--------------------------- MODULE PaymentManager ---------------------------
(***************************************************************************)
(* PaymentManager (payment/PaymentManager.cpp): the path of one paid       *)
(* request from the X-PAYMENT header to the SettlementResponse or the      *)
(* HttpError returned to X402Processor.                                    *)
(*                                                                         *)
(* Every request runs decodePreValidateAndSettleWithFacilitator on the     *)
(* worker thread of its connection, so any number of requests interleave   *)
(* between the points where shared state is touched:                       *)
(*   - the set currentlySettlingPayments_ under its mutex,                 *)
(*   - the payments table, one SELECT and one INSERT, each a               *)
(*     transaction of its own,                                             *)
(*   - the settle call to the facilitator, an HTTP round trip that may     *)
(*     time out, whose answer may be lost, and which the facilitator may   *)
(*     still execute after the gateway has given up on it.                 *)
(* A crash loses the lock set and every request in progress, and keeps the *)
(* table and what the facilitator has done.                                *)
(*                                                                         *)
(* A payment stands for the key of EIP712Domain::uniquePaymentKey: domain  *)
(* separator (hence chain and asset), payer and nonce.  The gateway serves *)
(* one network, so the columns of the table's unique index, (fromAddress,  *)
(* chainId, assetAddress, nonce), identify the same payment.               *)
(***************************************************************************)
EXTENDS Naturals, FiniteSets

CONSTANTS Request,     (* HTTP requests that carry an X-PAYMENT header *)
          Payment,     (* unique payments *)
          NoPayment,   (* the payment of a request that was not received yet *)
          MaxCrashes   (* bound: how often the gateway crashes and restarts *)

ASSUME PaymentAssumption == NoPayment \notin Payment
ASSUME CrashAssumption == MaxCrashes \in Nat

VARIABLES
  pc,                         (* where each request is *)
  payment,                    (* the payment it carries *)
  outcome,                    (* the variant<SettlementResponse, HttpError> it is to return *)
  currentlySettlingPayments,  (* PaymentManager::currentlySettlingPayments_ *)
  settledPayments,            (* rows of the payments table *)
  call,                       (* the request's settle call as the facilitator sees it *)
  crashes                     (* crashes so far *)

vars == <<pc, payment, outcome, currentlySettlingPayments, settledPayments, call, crashes>>

tables == <<currentlySettlingPayments, settledPayments>>

\* The program points between two accesses to shared state.
PC == {"idle", "prevalidate", "lock", "check", "settle", "await", "record",
       "unlock", "done", "lost"}

\* "settled" and "refused" are the two SettlementResponses, with success() true
\* and false; the others are the HttpErrors.
Outcome == {"none", "settled", "refused", "error400", "error500"}

\* "moved": executed, not answered yet; "confirmed" and "misreported": executed,
\* and answered with success = true or, by a catch clause, with false; "refused"
\* and "failed": not executed, and answered with success = false or an HTTP error.
Call == {"none", "sent", "moved", "confirmed", "misreported", "refused", "failed"}

\* The requests that hold the lock of their payment: those between
\* lockPaymentAsBeingSettled and the destructor of the scope guard.
Holding(r) == pc[r] \in {"check", "settle", "await", "record", "unlock"}

\* The requests that were, or are about to be, given a SettlementResponse.
Granted(r) == outcome[r] \in {"settled", "refused"}

Finished(r) == pc[r] \in {"done", "lost"}

Goto(r, from, to) ==
  /\ pc[r] = from
  /\ pc' = [pc EXCEPT ![r] = to]

Return(r, result) == outcome' = [outcome EXCEPT ![r] = result]

Init ==
  /\ pc = [r \in Request |-> "idle"]
  /\ payment = [r \in Request |-> NoPayment]
  /\ outcome = [r \in Request |-> "none"]
  /\ currentlySettlingPayments = {}
  /\ settledPayments = {}
  /\ call = [r \in Request |-> "none"]
  /\ crashes = 0
-----------------------------------------------------------------------------
(***************************************************************************)
(* decodePreValidateAndSettleWithFacilitator                               *)
(***************************************************************************)

\* Faulty variant: the payload is not bound to the request.
ReceiveUnbound(r, k) ==
  /\ Goto(r, "idle", "prevalidate")
  /\ UNCHANGED <<payment, outcome, tables, call, crashes>>

\* A request arrives with a payment; a client is free to send one twice.
Receive(r, k) ==
  /\ Goto(r, "idle", "prevalidate")
  /\ payment' = [payment EXCEPT ![r] = k]
  /\ UNCHANGED <<outcome, tables, call, crashes>>

\* The header decodes and validateAndVerifySignature accepts it.
Prevalidate(r) ==
  /\ Goto(r, "prevalidate", "lock")
  /\ UNCHANGED <<payment, outcome, tables, call, crashes>>

\* Undecodable header, failed validation (400) or an exception (500): the
\* request returns before it has touched anything shared.
PrevalidationFails(r) ==
  /\ Goto(r, "prevalidate", "done")
  /\ \E e \in {"error400", "error500"} : Return(r, e)
  /\ UNCHANGED <<payment, tables, call, crashes>>
-----------------------------------------------------------------------------
(***************************************************************************)
(* checkPaymentIsNewAndSettleIt: take the lock of the payment or return    *)
(***************************************************************************)

\* Faulty variant: insert without looking.
LockWithoutTest(r) ==
  /\ Goto(r, "lock", "check")
  /\ currentlySettlingPayments' = currentlySettlingPayments \cup {payment[r]}
  /\ UNCHANGED <<payment, outcome, settledPayments, call, crashes>>

LockPaymentAsBeingSettled(r) ==
  /\ payment[r] \notin currentlySettlingPayments
  /\ Goto(r, "lock", "check")
  /\ currentlySettlingPayments' = currentlySettlingPayments \cup {payment[r]}
  /\ UNCHANGED <<payment, outcome, settledPayments, call, crashes>>

\* "Your payment is currently being processed": no guard is constructed.
LockRefused(r) ==
  /\ payment[r] \in currentlySettlingPayments
  /\ Goto(r, "lock", "done")
  /\ Return(r, "error400")
  /\ UNCHANGED <<payment, tables, call, crashes>>
-----------------------------------------------------------------------------
(***************************************************************************)
(* checkPaymentIsNewAndSettleItUnsafe, run with the lock held.  Every way  *)
(* out of it, exceptions included, leads to the scope guard at "unlock".   *)
(***************************************************************************)

Leave(r, from, result) ==
  /\ Goto(r, from, "unlock")
  /\ Return(r, result)
  /\ UNCHANGED <<payment, currentlySettlingPayments, call, crashes>>

\* Faulty variant: the table is not asked.
PassUnchecked(r) ==
  /\ Goto(r, "check", "settle")
  /\ UNCHANGED <<payment, outcome, tables, call, crashes>>

\* settledPaymentExists finds no row; the answer is acted upon several steps later.
CheckIsNew(r) ==
  /\ payment[r] \notin settledPayments
  /\ Goto(r, "check", "settle")
  /\ UNCHANGED <<payment, outcome, tables, call, crashes>>

\* "This payment has already been spent".
CheckAlreadySpent(r) ==
  /\ payment[r] \in settledPayments
  /\ Leave(r, "check", "error400")
  /\ UNCHANGED settledPayments

\* The database or the construction of the payment requirements throws.
CheckThrows(r) ==
  /\ Leave(r, "check", "error500")
  /\ UNCHANGED settledPayments

\* routeToFacilitatorAndSettle posts the settlement request.
SendSettle(r) ==
  /\ Goto(r, "settle", "await")
  /\ call' = [call EXCEPT ![r] = "sent"]
  /\ UNCHANGED <<payment, outcome, tables, crashes>>

\* A 2xx answer that parses as a SettlementResponse, whatever its success flag says.
ReceiveAnswer(r) ==
  /\ call[r] \in {"confirmed", "misreported", "refused"}
  /\ Goto(r, "await", "record")
  /\ UNCHANGED <<payment, outcome, tables, call, crashes>>

\* Faulty variant: no scope guard.
ThrowWithoutUnlock(r) ==
  /\ Goto(r, "await", "done")
  /\ Return(r, "error500")
  /\ UNCHANGED <<payment, tables, call, crashes>>

\* Faulty variant: the call has no timeout.
ThrowOnlyWhenAnswered(r) ==
  /\ call[r] = "failed"
  /\ Leave(r, "await", "error500")
  /\ UNCHANGED settledPayments

\* connect or total timeout, curl error, HTTP error, empty or unparsable answer:
\* the call may be anywhere, executed or still on its way.
SettleCallThrows(r) ==
  /\ Leave(r, "await", "error500")
  /\ UNCHANGED settledPayments

\* Faulty variant: the settlement is not recorded.
AnswerWithoutRecord(r) ==
  /\ Leave(r, "record", IF call[r] = "confirmed" THEN "settled" ELSE "refused")
  /\ UNCHANGED settledPayments

\* recordSuccessfulSettlement: the INSERT succeeds unless the row exists.
RecordSuccessfulSettlement(r) ==
  /\ payment[r] \notin settledPayments
  /\ Leave(r, "record", IF call[r] = "confirmed" THEN "settled" ELSE "refused")
  /\ settledPayments' = settledPayments \cup {payment[r]}

\* The transaction hash does not parse, or the INSERT throws.
RecordThrows(r) ==
  /\ Leave(r, "record", "error500")
  /\ UNCHANGED settledPayments

\* ~ScopeGuard: unlockPaymentAsBeingSettled, whose CHECK_STATE wants to erase
\* exactly one key (LockHeldByOne says that it always does).
Unlock(r) ==
  /\ payment[r] \in currentlySettlingPayments
  /\ Goto(r, "unlock", "done")
  /\ currentlySettlingPayments' = currentlySettlingPayments \ {payment[r]}
  /\ UNCHANGED <<payment, outcome, settledPayments, call, crashes>>
-----------------------------------------------------------------------------
(***************************************************************************)
(* The facilitator and the process                                         *)
(***************************************************************************)

\* The facilitator executes the call, whether or not anybody still waits for
\* the answer.
FacilitatorMoves(r) ==
  /\ call[r] = "sent"
  /\ call' = [call EXCEPT ![r] = "moved"]
  /\ UNCHANGED <<pc, payment, outcome, tables, crashes>>

\* It answers what it has executed; something may throw before it says so.
FacilitatorReports(r) ==
  /\ call[r] = "moved"
  /\ \E c \in {"confirmed", "misreported"} : call' = [call EXCEPT ![r] = c]
  /\ UNCHANGED <<pc, payment, outcome, tables, crashes>>

\* success = false in a 2xx answer, or an HTTP error; nothing moves.
FacilitatorDeclines(r) ==
  /\ call[r] = "sent"
  /\ \E c \in {"refused", "failed"} : call' = [call EXCEPT ![r] = c]
  /\ UNCHANGED <<pc, payment, outcome, tables, crashes>>

\* The process dies and is restarted with its database.
Crash ==
  /\ crashes < MaxCrashes
  /\ \E r \in Request : pc[r] # "idle" /\ ~Finished(r)
  /\ crashes' = crashes + 1
  /\ pc' = [r \in Request |-> IF pc[r] = "idle" \/ Finished(r) THEN pc[r] ELSE "lost"]
  /\ outcome' = [r \in Request |-> IF pc[r] = "idle" \/ Finished(r) THEN outcome[r] ELSE "none"]
  /\ currentlySettlingPayments' = {}
  /\ UNCHANGED <<payment, settledPayments, call>>

\* Every request was answered or lost: the finite population is used up.
Quiescent ==
  /\ \A r \in Request : Finished(r)
  /\ UNCHANGED vars

\* What the worker thread of a request does.
Thread(r) ==
  \/ Prevalidate(r)
  \/ PrevalidationFails(r)
  \/ LockPaymentAsBeingSettled(r)
  \/ LockRefused(r)
  \/ CheckIsNew(r)
  \/ CheckAlreadySpent(r)
  \/ CheckThrows(r)
  \/ SendSettle(r)
  \/ ReceiveAnswer(r)
  \/ SettleCallThrows(r)
  \/ RecordSuccessfulSettlement(r)
  \/ RecordThrows(r)
  \/ Unlock(r)

Facilitator(r) == FacilitatorMoves(r) \/ FacilitatorReports(r) \/ FacilitatorDeclines(r)

Next ==
  \/ \E r \in Request : \/ \E k \in Payment : Receive(r, k)
                        \/ Thread(r)
                        \/ Facilitator(r)
  \/ Crash
  \/ Quiescent

Spec == Init /\ [][Next]_vars

\* A worker thread keeps running: nothing in its path blocks for good, because
\* the only wait, the settle call, ends at curl's total timeout.  Clients need
\* not send, the facilitator need not answer.
FairSpec == Spec /\ \A r \in Request : WF_vars(Thread(r))
-----------------------------------------------------------------------------
TypeOK ==
  /\ pc \in [Request -> PC]
  /\ payment \in [Request -> Payment \cup {NoPayment}]
  /\ outcome \in [Request -> Outcome]
  /\ currentlySettlingPayments \subseteq Payment
  /\ settledPayments \subseteq Payment
  /\ call \in [Request -> Call]
  /\ crashes \in 0..MaxCrashes
  /\ \A r \in Request : pc[r] # "idle" => payment[r] \in Payment

\* The locked payments are exactly the payments of the requests inside the
\* guarded region, and no two of these share a payment.
\* (lockPaymentAsBeingSettled, the scope guard; the CHECK_STATE of
\* unlockPaymentAsBeingSettled would otherwise throw out of a destructor.)
LockHeldByOne ==
  /\ \A r \in Request : Holding(r) => payment[r] \in currentlySettlingPayments
  /\ \A k \in currentlySettlingPayments : \E r \in Request : Holding(r) /\ payment[r] = k
  /\ \A r, s \in Request : Holding(r) /\ Holding(s) /\ payment[r] = payment[s] => r = s

\* "submitting the same payment twice should result in one successful settlement
\* and one error response": no two requests, however they interleave and
\* whatever crashes in between, are given a SettlementResponse for one payment.
GrantedAtMostOnce ==
  \A r, s \in Request : Granted(r) /\ Granted(s) /\ payment[r] = payment[s] => r = s

\* The answer of settledPaymentExists is still right when it is used: from the
\* check to the INSERT nobody else records the payment, so the facilitator is
\* never asked to settle a payment known to be spent, and the unique index of
\* the table is never hit.
CheckStaysValid ==
  \A r \in Request : pc[r] \in {"settle", "await", "record"} => payment[r] \notin settledPayments

\* A grant is written to the table before anybody can see it: MachinePalDb.h
\* promises that settledPaymentExists is true after saveSettledPayment, and the
\* next process must know of the payment although this one crashes.
GrantIsDurable ==
  \A r \in Request : Granted(r) => payment[r] \in settledPayments

\* Two settle calls for one payment reach the facilitator only if one of them
\* ended in an internal error or a crash: a client that was not told of a failure
\* never caused its payment to be presented twice.
SecondCallNeedsAFailure ==
  \A r, s \in Request :
    r # s /\ payment[r] = payment[s] /\ call[r] # "none" /\ call[s] # "none"
      => \E t \in {r, s} : outcome[t] = "error500" \/ pc[t] = "lost"

\* X402Processor.cpp: "Payment Failed | 402 | Payment verification or settlement
\* failed": a payment the facilitator refused is not treated as settled.
RefusedIsNotGranted == \A r \in Request : Granted(r) => call[r] # "refused"

\* Every request that arrives is answered, or lost in a crash.
EveryRequestEnds == \A r \in Request : pc[r] = "prevalidate" ~> Finished(r)

\* A locked payment is always unlocked again, so its payer can retry.
EveryLockIsReleased ==
  \A k \in Payment : k \in currentlySettlingPayments ~> k \notin currentlySettlingPayments
-----------------------------------------------------------------------------
(***************************************************************************)
(* Refinement: the payment manager implements PaymentOnce.  A request wins *)
(* its payment with the INSERT, and is granted when it leaves the guard.   *)
(***************************************************************************)

OnceStatus(r) ==
  CASE pc[r] = "idle" -> "idle"
    [] pc[r] = "lost" -> "dropped"
    [] pc[r] = "done" -> IF Granted(r) THEN "granted" ELSE "rejected"
    [] pc[r] = "unlock" -> IF Granted(r) THEN "won" ELSE "pending"
    [] OTHER -> "pending"

Once == INSTANCE PaymentOnce WITH
          status <- [r \in Request |-> OnceStatus(r)],
          claim <- payment,
          used <- settledPayments

ImplementsPaymentOnce == Once!Spec
=============================================================================
