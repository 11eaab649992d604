------------------------------ MODULE Purchases ------------------------------
(***************************************************************************)
(* Purchase invoices and returns (purchases/api.ts), and the reversal of   *)
(* an invoice by a return of what is left of it (reversal.ts).             *)
(***************************************************************************)
EXTENDS Books

Bills == {"purchase", "cashPurchase"}
Entered == {"posted", "partially_paid", "paid"}

CreateBill(d) ==
  \E q \in 1..MaxQty : Creates(d, Bills, [status |-> "draft", qty |-> q])

UpdateBill(u, d) ==
  /\ row[d].kind \in Bills /\ row[d].status = "draft"
  /\ \E q \in 1..MaxQty \ {row[d].qty} : Edits(u, d, [qty |-> q])

DeleteBill(u, d) ==
  /\ row[d].kind \in Bills /\ row[d].status = "draft" /\ row[d].paid <= 0
  /\ Deletes(u, d)

PostBill(u, d) ==
  /\ row[d].kind \in Bills /\ row[d].status = "draft"
  /\ row[d].kind = "cashPurchase" => Affordable(row[d].qty)
  /\ Posts(u, d, <<>>)

(* Goods enter the first warehouse and open a layer. *)
CommitBill(u) ==
  LET d == hand[u].doc
      r == hand[u].seen
      cash == r.kind = "cashPurchase"
      posted == Flipped(d, {"draft"}, "posted") IN
  /\ At(u, "post", Bills)
  /\ Journal(d, IF cash THEN [cash |-> -r.qty, inventory |-> r.qty]
                ELSE [creditors |-> r.qty, inventory |-> r.qty])
  /\ Moves("raw", Main, Lines(d))
  /\ Opens("raw", r.qty)
  /\ row' = IF cash /\ Exists(d)
            THEN [posted EXCEPT ![d].paid = @ + Outstanding(row[d]), ![d].status = "paid"]
            ELSE posted
  /\ due' = IF cash THEN due ELSE due + Outstanding(r)
  /\ Ends(u) /\ UNCHANGED owed

-----------------------------------------------------------------------------
CreateBillReturn(d) ==
  \E q \in 1..MaxQty, i \in {NoDoc} \cup {x \in Docs : row[x].kind \in Bills /\ row[x].status \in Entered} :
    Creates(d, {"purchaseReturn"}, [status |-> "draft", qty |-> q, link |-> i])

UpdateBillReturn(u, d) ==
  /\ row[d].kind = "purchaseReturn" /\ row[d].status = "draft"
  /\ \E q \in 1..MaxQty \ {row[d].qty} : Edits(u, d, [qty |-> q])

DeleteBillReturn(u, d) ==
  /\ row[d].kind = "purchaseReturn" /\ row[d].status = "draft"
  /\ Deletes(u, d)

PostBillReturn(u, d) ==
  LET r == row[d] IN
  /\ r.kind = "purchaseReturn" /\ r.status = "draft"
  /\ Sufficient("purchaseReturn", r.qty)
  /\ Allocated(r.qty)
  /\ Posts(u, d, Fifo(r.qty))

(* The stock leaves the richest warehouse; the default one is not asked. *)
CommitBillReturn(u) ==
  LET d == hand[u].doc
      n == hand[u].seen.qty IN
  /\ At(u, "post", {"purchaseReturn"})
  /\ Journal(d, [creditors |-> -n, inventory |-> -n])
  /\ \E w \in Richest("raw") : Moves("raw", w, -Lines(d))
  /\ Consumes(hand[u].take)
  /\ row' = Flipped(d, {"draft"}, "posted")
  /\ due' = due - n
  /\ Ends(u) /\ UNCHANGED owed

-----------------------------------------------------------------------------
BillReturned(i) ==
  Total([r \in {x \in Docs : row[x].kind = "purchaseReturn" /\ row[x].link = i /\ row[x].status = "posted"}
           |-> row[r].qty])

ReverseBill(u, d) ==
  /\ row[d].kind \in Bills /\ row[d].status \in Entered
  /\ row[d].qty > BillReturned(d)
  /\ Reads(u, "return", d, [qty |-> row[d].qty - BillReturned(d)], <<>>, Main)

CreateBillReversal(u) ==
  \E d \in Docs :
    /\ At(u, "return", Bills)
    /\ row[d].kind = "purchaseReturn" /\ row[d].status = "none"
    /\ row' = [row EXCEPT ![d].status = "draft", ![d].link = hand[u].doc, ![d].qty = hand[u].want.qty]
    /\ hand' = [hand EXCEPT ![u] = [Idle EXCEPT !.op = "next", !.doc = d]]
    /\ UNCHANGED <<entries, booked, reversed, money, goods, ops, disturbed>>

PurchasesStep ==
  \/ \E d \in Docs : CreateBill(d) \/ CreateBillReturn(d)
  \/ \E u \in Users, d \in Docs :
       \/ UpdateBill(u, d) \/ DeleteBill(u, d) \/ PostBill(u, d)
       \/ UpdateBillReturn(u, d) \/ DeleteBillReturn(u, d) \/ PostBillReturn(u, d)
       \/ ReverseBill(u, d)
  \/ \E u \in Users : CommitBill(u) \/ CommitBillReturn(u) \/ CreateBillReversal(u)
=============================================================================
