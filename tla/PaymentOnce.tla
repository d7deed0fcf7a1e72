---------------------------- MODULE PaymentOnce ----------------------------
(***************************************************************************)
(* What the payment path of the gateway promises to its callers, with no   *)
(* locks, tables or facilitator in sight: a unique payment is used up at   *)
(* most once, only the request that used it up is granted, and the payment *)
(* stays used although the gateway crashes.  It is the sentence of         *)
(* PaymentManager::checkPaymentIsNewAndSettleIt ("submitting the same      *)
(* payment twice should result in one successful settlement and one error  *)
(* response") as a state machine.                                          *)
(***************************************************************************)
CONSTANTS Request,    (* HTTP requests carrying a payment *)
          Payment,    (* unique payments: (domain separator, from, nonce) *)
          NoPayment   (* the claim of a request that was not submitted yet *)

VARIABLES status,     (* what became of each request *)
          claim,      (* the payment each request carries *)
          used        (* the payments that are used up *)

vars == <<status, claim, used>>

Status == {"idle", "pending", "won", "granted", "rejected", "dropped"}

Init ==
  /\ status = [r \in Request |-> "idle"]
  /\ claim = [r \in Request |-> NoPayment]
  /\ used = {}

Submit(r, k) ==
  /\ status[r] = "idle"
  /\ status' = [status EXCEPT ![r] = "pending"]
  /\ claim' = [claim EXCEPT ![r] = k]
  /\ UNCHANGED used

Consume(r) ==
  /\ status[r] = "pending"
  /\ claim[r] \notin used
  /\ used' = used \cup {claim[r]}
  /\ status' = [status EXCEPT ![r] = "won"]
  /\ UNCHANGED claim

Grant(r) ==
  /\ status[r] = "won"
  /\ status' = [status EXCEPT ![r] = "granted"]
  /\ UNCHANGED <<claim, used>>

Reject(r) ==
  /\ status[r] = "pending"
  /\ status' = [status EXCEPT ![r] = "rejected"]
  /\ UNCHANGED <<claim, used>>

\* A crash takes every request in progress with it and keeps `used'.
Drop ==
  /\ status' = [r \in Request |->
                  IF status[r] \in {"pending", "won"} THEN "dropped" ELSE status[r]]
  /\ UNCHANGED <<claim, used>>

Next ==
  \/ \E r \in Request : \/ \E k \in Payment : Submit(r, k)
                        \/ Consume(r)
                        \/ Grant(r)
                        \/ Reject(r)
  \/ Drop

Spec == Init /\ [][Next]_vars

\* Requests that hold, or were given, the one use of their payment.
Winner(r) == status[r] \in {"won", "granted"}

TypeOK ==
  /\ status \in [Request -> Status]
  /\ claim \in [Request -> Payment \cup {NoPayment}]
  /\ used \subseteq Payment
  /\ \A r \in Request : status[r] # "idle" => claim[r] \in Payment

\* A payment has at most one winner, and a winner's payment is used up.
UsedOnce ==
  /\ \A r \in Request : Winner(r) => claim[r] \in used
  /\ \A r, s \in Request : Winner(r) /\ Winner(s) /\ claim[r] = claim[s] => r = s
=============================================================================
