---------------------------- MODULE MCX402Server ----------------------------
(***************************************************************************)
(* The model-checking instance of X402Server: two exchanges, each any of   *)
(* the kinds of request that take a way of their own.                      *)
(***************************************************************************)
EXTENDS X402Server

CONSTANTS k1, k2

Ask(route, wellFormed, method, payment) ==
  [route |-> route, wellFormed |-> wellFormed, method |-> method, payment |-> payment]

\* Every way through the processors: the facilitator, a free resource, a request
\* at fault in its start line or in its method, a priced resource without and
\* with a payment.
Requests ==
  { Ask("facilitator", TRUE, TRUE, NoPayment), Ask("passThrough", TRUE, TRUE, NoPayment),
    Ask("resource", FALSE, TRUE, k1), Ask("resource", TRUE, FALSE, k1),
    Ask("resource", TRUE, TRUE, NoPayment), Ask("resource", TRUE, TRUE, k1) }

\* The paid ones.
PaidRequests == { Ask("resource", TRUE, TRUE, k1), Ask("resource", TRUE, TRUE, k2) }
=============================================================================
