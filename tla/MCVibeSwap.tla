----------------------------- MODULE MCVibeSwap -----------------------------
(***************************************************************************)
(* The model-checking instance of VibeSwap: three tokens, so that a path   *)
(* can go round and come back to its first pool, and words of 10 bits,     *)
(* which the product of the largest deposit reaches, and the denominator   *)
(* of a price in a pool with 100 tokens.                                   *)
(***************************************************************************)
EXTENDS VibeSwap, TLC

MCDesired == {<<3, 12>>, <<12, 3>>, <<100, 2>>, <<32, 40>>, <<0, 3>>}

MCPath == {<<1, 2>>, <<3, 2, 1>>, <<1, 2, 3, 1, 2>>, <<2>>, <<1, 1>>}

\* The users are interchangeable.
MCSymmetry == Permutations(User)
=============================================================================
