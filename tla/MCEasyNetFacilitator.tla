---------------------- MODULE MCEasyNetFacilitator ----------------------
(***************************************************************************)
(* The model-checking instance of EasyNetFacilitator: two wallets that pay *)
(* each other, with amounts scaled down so that a second payment exceeds   *)
(* what is left of the initial funding, or what a wallet has received      *)
(* before it was ever funded.                                              *)
(***************************************************************************)
EXTENDS EasyNetFacilitator

Authorize(from, to, value, nonce) == [from |-> from, to |-> to, value |-> value, nonce |-> nonce]

Payments == {Authorize("p", "q", 2, 1), Authorize("q", "p", 3, 1)}

\* A wallet that pays itself.
SelfPayments == {Authorize("p", "p", 1, 1), Authorize("p", "q", 2, 2)}
=============================================================================
