---------------------------- MODULE Manufacturing -----------------------------
(***************************************************************************)
(* Work orders (manufacturing/api.ts): materials leave the stock when the  *)
(* order starts, the product enters it when the order is completed, and    *)
(* what is being worked on waits in the WIP account.  One "raw" makes one  *)
(* "made"; there are no production costs besides the material.             *)
(***************************************************************************)
EXTENDS Books

CreateWorkOrder(d) ==
  \E q \in 1..MaxQty : Creates(d, {"workOrder"}, [status |-> "planned", qty |-> q])

(* The material plan is frozen once the order has left "planned". *)
UpdateWorkOrder(u, d) ==
  /\ row[d].kind = "workOrder" /\ row[d].status = "planned"
  /\ \E q \in 1..MaxQty \ {row[d].qty} : Edits(u, d, [qty |-> q])

(* In any status. *)
DeleteWorkOrder(u, d) ==
  /\ row[d].kind = "workOrder" /\ Exists(d)
  /\ Deletes(u, d)

(* The actual consumption is recorded, in any status; 0 is "not recorded". *)
UpdateConsumption(u, d) ==
  /\ row[d].kind = "workOrder" /\ Exists(d)
  /\ \E n \in 0..MaxQty \ {row[d].actual} : Edits(u, d, [actual |-> n])

(* The shop needs the material in all warehouses together, and takes it    *)
(* from the one the reads name.                                            *)
StartWorkOrder(u, d) ==
  LET n == row[d].qty IN
  /\ row[d].kind = "workOrder" /\ row[d].status = "planned"
  /\ FiscalOpen
  /\ Total(stock["raw"]) >= n /\ Allocated(n)
  /\ \E w \in Sources("raw", n) : Reads(u, "post", d, Idle.want, Fifo(n), w)

CommitStart(u) ==
  LET d == hand[u].doc
      n == hand[u].seen.qty IN
  /\ At(u, "post", {"workOrder"})
  /\ Journal(d, [wip |-> n, inventory |-> -n])
  /\ Moves("raw", hand[u].at, -n)
  /\ Consumes(hand[u].take)
  /\ row' = IF Exists(d) THEN [row EXCEPT ![d].status = "in_progress", ![d].mark = n] ELSE row
  /\ Ends(u) /\ UNCHANGED <<owed, due>>

(* An unrecorded consumption counts as planned. *)
Used(r) == IF r.actual > 0 THEN r.actual ELSE r.qty

(* More than planned is not checked against the stock, and leaves the      *)
(* layers alone when they do not hold it.                                  *)
CompleteWorkOrder(u, d) ==
  LET extra == Used(row[d]) - row[d].qty
      take == IF extra > 0 /\ Allocated(extra) THEN Fifo(extra) ELSE <<>> IN
  /\ row[d].kind = "workOrder" /\ row[d].status = "in_progress"
  /\ FiscalOpen
  /\ \E w \in Sources("raw", IF extra < 0 THEN -extra ELSE extra) :
       Reads(u, "complete", d, Idle.want, take, w)

(* The difference to the plan leaves or re-enters the stock, the product   *)
(* enters it, and WIP is cleared.                                          *)
CommitComplete(u) ==
  LET d == hand[u].doc
      r == hand[u].seen
      extra == Used(r) - r.qty IN
  /\ At(u, "complete", {"workOrder"})
  /\ Journal(d, [finished |-> Used(r), wip |-> -r.mark, inventory |-> r.mark - Used(r)])
  /\ stock' = [stock EXCEPT !["raw"][hand[u].at] = @ - extra, !["made"][Main] = @ + r.qty]
  /\ layers' = [raw |-> Opened(Consume(layers["raw"], hand[u].take), -extra),
                made |-> Opened(layers["made"], r.qty)]
  /\ row' = IF Exists(d)
            THEN [row EXCEPT ![d].status = "completed", ![d].mark = 0, ![d].actual = Used(r)]
            ELSE row
  /\ Ends(u) /\ UNCHANGED <<owed, due>>

(* Materials on the floor go back to the richest warehouse, or are lost.   *)
CancelWorkOrder(u, d) ==
  /\ row[d].kind = "workOrder" /\ row[d].status \in {"planned", "in_progress"}
  /\ FiscalOpen
  /\ \E back \in IF row[d].status = "in_progress" THEN BOOLEAN ELSE {FALSE}, w \in Richest("raw") :
       Reads(u, "cancel", d, [actual |-> IF back THEN row[d].qty ELSE 0], <<>>, w)

(* No layer is opened for what comes back. *)
CommitCancel(u) ==
  LET d == hand[u].doc
      back == hand[u].want.actual
      wip == hand[u].seen.mark IN
  /\ At(u, "cancel", {"workOrder"})
  /\ IF wip > 0
     THEN Journal(d, IF back > 0 THEN [wip |-> -wip, inventory |-> wip] ELSE [wip |-> -wip, difference |-> wip])
     ELSE UNCHANGED <<gl, entries, booked, reversed>>
  /\ Moves("raw", hand[u].at, back)
  /\ row' = IF Exists(d) THEN [row EXCEPT ![d].status = "cancelled", ![d].mark = 0] ELSE row
  /\ Ends(u) /\ UNCHANGED <<owed, due, layers>>

(* updateWorkOrderStatus(planned): one transaction, whatever the status.   *)
ReopenWorkOrder(d) ==
  /\ row[d].kind = "workOrder" /\ Exists(d) /\ row[d].status # "planned"
  /\ row' = [row EXCEPT ![d].status = "planned", ![d].mark = 0, ![d].actual = 0]
  /\ disturbed' = disturbed \cup {x \in {d} : row[x].status # "cancelled"}
  /\ UNCHANGED <<entries, booked, reversed, money, goods, hand, ops>>

ManufacturingStep ==
  \/ \E d \in Docs : CreateWorkOrder(d) \/ ReopenWorkOrder(d)
  \/ \E u \in Users, d \in Docs :
       \/ UpdateWorkOrder(u, d) \/ DeleteWorkOrder(u, d) \/ UpdateConsumption(u, d)
       \/ StartWorkOrder(u, d) \/ CompleteWorkOrder(u, d) \/ CancelWorkOrder(u, d)
  \/ \E u \in Users : CommitStart(u) \/ CommitComplete(u) \/ CommitCancel(u)
=============================================================================
