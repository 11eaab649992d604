-------------------------------- MODULE Sales --------------------------------
(***************************************************************************)
(* Sales invoices and returns (sales/api.ts) and the reversal of an        *)
(* invoice by a return of what is left of it (reversal.ts).  An invoice    *)
(* pays in cash or on credit, fixed when it is created.                    *)
(***************************************************************************)
EXTENDS Books

Invoices == {"sale", "cashSale"}
Billed == {"posted", "partially_paid", "paid"}

CreateInvoice(d) ==
  \E q \in 1..MaxQty : Creates(d, Invoices, [status |-> "draft", qty |-> q])

(* Faulty: an invoice in any status is edited. *)
FaultyUpdateInvoice(u, d) ==
  /\ row[d].kind \in Invoices /\ Exists(d)
  /\ \E q \in 1..MaxQty \ {row[d].qty} : Edits(u, d, [qty |-> q])

UpdateInvoice(u, d) ==
  /\ row[d].kind \in Invoices /\ row[d].status = "draft"
  /\ \E q \in 1..MaxQty \ {row[d].qty} : Edits(u, d, [qty |-> q])

(* Faulty: what is unpaid may be deleted, whatever its status. *)
FaultyDeleteInvoice(u, d) ==
  /\ row[d].kind \in Invoices /\ Exists(d) /\ row[d].paid <= 0
  /\ Deletes(u, d)

DeleteInvoice(u, d) ==
  /\ row[d].kind \in Invoices /\ row[d].status = "draft" /\ row[d].paid <= 0
  /\ Deletes(u, d)

(* customers.credit_limit covers the balance and what is still unpaid. *)
WithinLimit(n) == CreditLimit = 0 \/ n = 0 \/ owed + n <= CreditLimit \/ "overlimit" \in Allow

PostInvoice(u, d) ==
  LET r == row[d] IN
  /\ r.kind \in Invoices /\ r.status = "draft"
  /\ Sufficient("sale", r.qty)
  /\ r.kind = "sale" => WithinLimit(Outstanding(r))
  /\ Allocated(r.qty)
  /\ Posts(u, d, Fifo(r.qty))

(* Revenue and cost follow the reads; the stock follows the lines as they  *)
(* are now.  A cash invoice is set to paid whatever its status became.     *)
CommitInvoice(u) ==
  LET d == hand[u].doc
      r == hand[u].seen
      cash == r.kind = "cashSale"
      posted == Flipped(d, {"draft"}, "posted") IN
  /\ At(u, "post", Invoices)
  /\ Journal(d, IF cash THEN [cash |-> r.qty, inventory |-> -r.qty]
                ELSE [debtors |-> r.qty, inventory |-> -r.qty])
  /\ \E w \in Sources("raw", Lines(d)) : Moves("raw", w, -Lines(d))
  /\ Consumes(hand[u].take)
  /\ row' = IF cash /\ Exists(d)
            THEN [posted EXCEPT ![d].paid = @ + Outstanding(row[d]), ![d].status = "paid"]
            ELSE posted
  /\ owed' = IF cash THEN owed ELSE owed + Outstanding(r)
  /\ Ends(u) /\ UNCHANGED due

-----------------------------------------------------------------------------
CreateReturn(d) ==
  \E q \in 1..MaxQty, i \in {NoDoc} \cup {x \in Docs : row[x].kind \in Invoices /\ row[x].status \in Billed} :
    Creates(d, {"saleReturn"}, [status |-> "draft", qty |-> q, link |-> i])

UpdateReturn(u, d) ==
  /\ row[d].kind = "saleReturn" /\ row[d].status = "draft"
  /\ \E q \in 1..MaxQty \ {row[d].qty} : Edits(u, d, [qty |-> q])

DeleteReturn(u, d) ==
  /\ row[d].kind = "saleReturn" /\ row[d].status = "draft"
  /\ Deletes(u, d)

PostReturn(u, d) ==
  /\ row[d].kind = "saleReturn" /\ row[d].status = "draft"
  /\ Posts(u, d, <<>>)

CommitReturn(u) ==
  LET d == hand[u].doc
      n == hand[u].seen.qty IN
  /\ At(u, "post", {"saleReturn"})
  /\ Journal(d, [debtors |-> -n, inventory |-> n])
  /\ \E w \in Sources("raw", Lines(d)) : Moves("raw", w, Lines(d))
  /\ Opens("raw", n)
  /\ row' = Flipped(d, {"draft"}, "posted")
  /\ owed' = owed - n
  /\ Ends(u) /\ UNCHANGED due

-----------------------------------------------------------------------------
(* reverseSalesInvoice: what posted returns have left of the invoice goes  *)
(* into a new return, which is posted at once.                             *)
Returned(i) ==
  Total([r \in {x \in Docs : row[x].kind = "saleReturn" /\ row[x].link = i /\ row[x].status = "posted"}
           |-> row[r].qty])

ReverseInvoice(u, d) ==
  /\ row[d].kind \in Invoices \cup {"ticket"} /\ row[d].status \in Billed
  /\ row[d].qty > Returned(d)
  /\ Reads(u, "return", d, [qty |-> row[d].qty - Returned(d)], <<>>, Main)

CreateReversal(u) ==
  \E d \in Docs :
    /\ At(u, "return", Invoices \cup {"ticket"})
    /\ row[d].kind = "saleReturn" /\ row[d].status = "none"
    /\ row' = [row EXCEPT ![d].status = "draft", ![d].link = hand[u].doc, ![d].qty = hand[u].want.qty]
    /\ hand' = [hand EXCEPT ![u] = [Idle EXCEPT !.op = "next", !.doc = d]]
    /\ UNCHANGED <<entries, booked, reversed, money, goods, ops, disturbed>>

SalesStep ==
  \/ \E d \in Docs : CreateInvoice(d) \/ CreateReturn(d)
  \/ \E u \in Users, d \in Docs :
       \/ UpdateInvoice(u, d) \/ DeleteInvoice(u, d) \/ PostInvoice(u, d)
       \/ UpdateReturn(u, d) \/ DeleteReturn(u, d) \/ PostReturn(u, d)
       \/ ReverseInvoice(u, d)
  \/ \E u \in Users : \/ CommitInvoice(u) \/ CommitReturn(u) \/ CreateReversal(u)
=============================================================================
