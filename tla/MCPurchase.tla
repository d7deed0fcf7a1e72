----------------------------- MODULE MCPurchase -----------------------------
(***************************************************************************)
(* The model-checking instance of Purchase: two buyers with clocks before, *)
(* with and after the gateway's, two threads, so that all of them can wait *)
(* for each other, and one restart that may change the price.              *)
(***************************************************************************)
EXTENDS Purchase

Skews == {-1, 0, 1}
=============================================================================
