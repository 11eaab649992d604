------------------------------- MODULE MCBatch -------------------------------
(* Small instances of BatchRunner for TLC. *)
EXTENDS BatchRunner

CONSTANTS w1, w2, A, B   \* runs of the loop, renderer windows

(* Shapes of a batch. *)
One == {0}
Two == {0, 1}
Three == {0, 1, 2}

NoEdges == [i \in Items |-> NoItem]
(* 1 waits for 0. *)
Pair == [i \in Items |-> IF i = 1 THEN 0 ELSE NoItem]
(* 0 <- 1 <- 2 *)
Chain == [i \in Items |-> IF i = 0 THEN NoItem ELSE i - 1]

NoRefs == [i \in Items |-> {}]
(* The last row's arguments name an output of row 0. *)
LastNamesFirst == [i \in Items |-> IF i # 0 /\ i + 1 = Cardinality(Items) THEN {0} ELSE {}]

(* Where the runs live. *)
OneWindow == [w \in Workers |-> A]
TwoWindows == [w \in Workers |-> IF w = w1 THEN A ELSE B]
=============================================================================
