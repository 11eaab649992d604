------------------------------- MODULE MCChat -------------------------------
(* An instance of Chat: a read, two writes with the same arguments, and a  *)
(* batch.                                                                  *)
EXTENDS Chat, TLC

CONSTANTS look, post, again, batch, payment, rows, l1, l2

MCKey == [c \in Calls |-> IF c \in {post, again} THEN payment ELSE rows]

Twins == {f @@ g : f \in Permutations(Lanes), g \in Permutations({post, again})}
=============================================================================
