------------------------------ MODULE Approvals ------------------------------
(***************************************************************************)
(* What the job queue promises the books, in terms of approvals and writes *)
(* alone: the user approves a row, and may approve it again; a write of    *)
(* the row is sent only against an approval that no earlier write used.  A *)
(* write takes effect at once, or is abandoned by its sender and commits   *)
(* later or never; only a write known to have left no trace gives its      *)
(* approval back.  Nothing is said of tables, runs, windows or retries.    *)
(***************************************************************************)
EXTENDS Naturals

CONSTANT Rows

VARIABLES
  approvals,  \* approvals[i]: how often the user approved row i
  effects,    \* effects[i]: how often a write of i has taken effect
  late        \* late[i]: abandoned writes of i that may still take effect

bag == <<approvals, effects, late>>

Init ==
  /\ approvals = [i \in Rows |-> 1]
  /\ effects = [i \in Rows |-> 0]
  /\ late = [i \in Rows |-> 0]

Unused(i) == effects[i] + late[i] < approvals[i]

OneMoreOf(f, S) == [i \in Rows |-> IF i \in S THEN f[i] + 1 ELSE f[i]]

Approve(S) ==
  /\ approvals' = OneMoreOf(approvals, S)
  /\ UNCHANGED <<effects, late>>

Write(i) ==
  /\ Unused(i)
  /\ effects' = OneMoreOf(effects, {i})
  /\ UNCHANGED <<approvals, late>>

Abandon(S) ==
  /\ \A i \in S : Unused(i)
  /\ late' = OneMoreOf(late, S)
  /\ UNCHANGED <<approvals, effects>>

Settle(i) ==
  /\ late[i] > 0
  /\ late' = [late EXCEPT ![i] = @ - 1]
  /\ \/ effects' = OneMoreOf(effects, {i})
     \/ UNCHANGED effects
  /\ UNCHANGED approvals

Next ==
  \/ \E S \in SUBSET Rows : Approve(S) \/ Abandon(S)
  \/ \E i \in Rows : Write(i) \/ Settle(i)

Spec == Init /\ [][Next]_bag
=============================================================================
