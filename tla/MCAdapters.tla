----------------------------- MODULE MCAdapters -----------------------------
(* An instance of Adapters: two calls, of either kind. *)
EXTENDS Adapters, TLC

CONSTANTS a, b

(* The calls do the same things. *)
Twins == Permutations({a, b})
=============================================================================
