-------------------------- MODULE MCEasyNetGateway --------------------------
(***************************************************************************)
(* The model-checking instance of EasyNetGateway: two requests, two        *)
(* payments of one payer that can afford one of each.                      *)
(***************************************************************************)
EXTENDS EasyNetGateway

CONSTANTS k1, k2

Payments == {k1, k2}
Authorizations == {[payment |-> k1, from |-> "p", to |-> "m", value |-> 1],
                   [payment |-> k2, from |-> "p", to |-> "m", value |-> 2]}
=============================================================================
