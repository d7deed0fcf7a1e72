--------------------------- MODULE MCMachinePalApp ---------------------------
(***************************************************************************)
(* The model-checking instance of MachinePalApp: the self test comes at    *)
(* the second tick, which leaves room for signals before, during and after.*)
(***************************************************************************)
EXTENDS MachinePalApp
=============================================================================
