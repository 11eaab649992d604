------------------------------ MODULE Inventory ------------------------------
(***************************************************************************)
(* Stock transfers and stock adjustments (inventory/api.ts), as a session  *)
(* that talks to the database itself runs them.  Transfers go from Main to *)
(* Branch; counts are of Main.                                             *)
(***************************************************************************)
EXTENDS Books

(* Header and lines are two statements; the lines may never arrive. *)
CreateTransfer(u, d) ==
  /\ hand[u] = Idle /\ ops < MaxOps
  /\ row[d].kind = "transfer" /\ row[d].status = "none"
  /\ row' = [row EXCEPT ![d].status = "draft"]
  /\ \E q \in 1..MaxQty :
       hand' = [hand EXCEPT ![u] = [Idle EXCEPT !.op = "write", !.doc = d,
                                                !.seen = row'[d], !.want = [qty |-> q]]]
  /\ ops' = ops + 1
  /\ UNCHANGED <<entries, booked, reversed, money, goods, disturbed>>

(* The lines go first, then the header, in any status. *)
DeleteTransfer(u, d) ==
  /\ hand[u] = Idle /\ ops < MaxOps
  /\ row[d].kind = "transfer" /\ Exists(d)
  /\ row' = [row EXCEPT ![d].qty = 0]
  /\ hand' = [hand EXCEPT ![u] = [Idle EXCEPT !.op = "write", !.doc = d,
                                              !.seen = row'[d], !.want = [status |-> "gone"]]]
  /\ ops' = ops + 1
  /\ UNCHANGED <<entries, booked, reversed, money, goods, disturbed>>

CompleteTransfer(u, d) ==
  /\ row[d].kind = "transfer" /\ row[d].status = "draft"
  /\ Keeps(u, "floor", d)

(* The first statement of the transaction: it aborts when the source holds *)
(* too little.  It locks nothing.                                          *)
CheckFloor(u) ==
  /\ At(u, "floor", {"transfer"})
  /\ "issue" \in Allow \/ stock["raw"][Main] >= Lines(hand[u].doc)
  /\ hand' = [hand EXCEPT ![u].op = "post"]
  /\ UNCHANGED <<papers, money, goods, ops, disturbed>>

(* Faulty: what left the one warehouse never arrives in the other. *)
FaultyCommitTransfer(u) ==
  LET d == hand[u].doc IN
  /\ At(u, "post", {"transfer"})
  /\ Moves("raw", Main, -Lines(d))
  /\ row' = IF Exists(d) THEN [row EXCEPT ![d].status = "completed"] ELSE row
  /\ Ends(u)
  /\ UNCHANGED <<entries, booked, reversed, money, layers>>

CommitTransfer(u) ==
  LET d == hand[u].doc IN
  /\ At(u, "post", {"transfer"})
  /\ stock' = [stock EXCEPT !["raw"][Main] = @ - Lines(d), !["raw"][Branch] = @ + Lines(d)]
  /\ row' = IF Exists(d) THEN [row EXCEPT ![d].status = "completed"] ELSE row
  /\ Ends(u)
  /\ UNCHANGED <<entries, booked, reversed, money, layers>>

-----------------------------------------------------------------------------
(* The form shows the stock; somebody counts. *)
CreateAdjustment(d) ==
  \E n \in 0..(MaxQty + 1) :
    Creates(d, {"adjustment"}, [status |-> "draft", mark |-> stock["raw"][Main], actual |-> n])

UpdateAdjustment(u, d) ==
  /\ row[d].kind = "adjustment" /\ Exists(d)
  /\ \E n \in 0..(MaxQty + 1) \ {row[d].actual} : Edits(u, d, [actual |-> n])

(* One statement, whatever the status is. *)
ApproveAdjustment(d) ==
  /\ row[d].kind = "adjustment" /\ Exists(d)
  /\ row' = [row EXCEPT ![d].status = "approved"]
  /\ disturbed' = IF row[d].status = "posted" THEN disturbed \cup {d} ELSE disturbed
  /\ UNCHANGED <<entries, booked, reversed, money, goods, hand, ops>>

DeleteAdjustment(u, d) ==
  /\ row[d].kind = "adjustment" /\ Exists(d)
  /\ Deletes(u, d)

PostAdjustment(u, d) ==
  /\ row[d].kind = "adjustment" /\ row[d].status \in {"draft", "approved"}
  /\ Posts(u, d, Fifo(row[d].mark - row[d].actual))

(* The stock is set to the count; the entry and the layers follow the      *)
(* difference that was noted when the form was filled in.                  *)
CommitAdjustment(u) ==
  LET d == hand[u].doc
      r == hand[u].seen
      difference == r.actual - r.mark IN
  /\ At(u, "post", {"adjustment"})
  /\ stock' = [stock EXCEPT !["raw"][Main] = r.actual]
  /\ IF difference > 0 THEN Opens("raw", difference) ELSE Consumes(hand[u].take)
  /\ IF difference # 0 THEN Journal(d, [inventory |-> difference])
     ELSE UNCHANGED <<gl, entries, booked, reversed>>
  /\ row' = IF Exists(d) THEN [row EXCEPT ![d].status = "posted"] ELSE row
  /\ EndsWith(u, {x \in {d} : stock["raw"][Main] # r.mark})
  /\ UNCHANGED <<owed, due>>

InventoryStep ==
  \/ \E d \in Docs : CreateAdjustment(d) \/ ApproveAdjustment(d)
  \/ \E u \in Users, d \in Docs :
       \/ CreateTransfer(u, d) \/ DeleteTransfer(u, d) \/ CompleteTransfer(u, d)
       \/ UpdateAdjustment(u, d) \/ DeleteAdjustment(u, d) \/ PostAdjustment(u, d)
  \/ \E u \in Users : CheckFloor(u) \/ CommitTransfer(u) \/ CommitAdjustment(u)
=============================================================================
