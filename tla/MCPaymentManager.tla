-------------------------- MODULE MCPaymentManager --------------------------
(***************************************************************************)
(* The model-checking instance of PaymentManager: three requests and two   *)
(* payments, so that one payment is sent two or three times, next to       *)
(* another or alone, before, during and after a crash.                     *)
(***************************************************************************)
EXTENDS PaymentManager

CONSTANTS r1, r2, r3, k1, k2

Requests == {r1, r2, r3}
Payments == {k1, k2}
=============================================================================
