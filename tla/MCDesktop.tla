----------------------------- MODULE MCDesktop ------------------------------
(* An instance of Desktop: two servers, one saved connection. *)
EXTENDS Desktop

CONSTANTS S, T, C1
=============================================================================
