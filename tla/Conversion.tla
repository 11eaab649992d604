------------------------------ MODULE Conversion ------------------------------
(***************************************************************************)
(* Quotations become sales invoices (sales/api.ts), purchase orders become *)
(* purchase invoices (purchases/api.ts).  The status is claimed first, the *)
(* invoice created next, and a claim whose invoice failed is released.     *)
(***************************************************************************)
EXTENDS Books

Offers == {"quotation", "order"}
Convertible == {"draft", "sent", "received"}
Becomes(k) == IF k = "order" THEN {"purchase", "cashPurchase"} ELSE {"sale", "cashSale"}

CreateOffer(d) ==
  \E q \in 1..MaxQty : Creates(d, Offers, [status |-> "draft", qty |-> q])

(* updateOrder, updateQuotation: the status is one of the form's fields,   *)
(* written by id alone.  An order is received when the form says so.       *)
UpdateOffer(u, d) ==
  /\ row[d].kind \in Offers /\ Exists(d)
  /\ \E s \in {"sent", "received", "cancelled"} \ {row[d].status} :
       /\ s = "received" => row[d].kind = "order"
       /\ Edits(u, d, [status |-> s])

(* An order in any status. *)
DeleteOffer(u, d) ==
  /\ row[d].kind \in Offers /\ Exists(d)
  /\ row[d].kind = "quotation" => row[d].status # "converted"
  /\ Deletes(u, d)

(* An order is read and refused before the claim, a quotation is not. *)
ConvertOffer(u, d) ==
  /\ row[d].kind \in Offers /\ row[d].status \in Convertible
  /\ Keeps(u, "claim", d)

(* Faulty: the claim is by id alone. *)
FaultyClaimable(u) == Exists(hand[u].doc)

(* UPDATE ... WHERE status = ANY(convertible) RETURNING id: the mutual     *)
(* exclusion.  Whoever finds no row ends (Fails).                          *)
Claimable(u) == row[hand[u].doc].status \in Convertible
ClaimOffer(u) ==
  LET d == hand[u].doc IN
  /\ At(u, "claim", Offers)
  /\ Claimable(u)
  /\ row' = [row EXCEPT ![d].status = "converted"]
  /\ hand' = [hand EXCEPT ![u].op = "claimed"]
  /\ UNCHANGED <<entries, booked, reversed, money, goods, ops, disturbed>>

(* No document number: the order's conversion returns with the claim held. *)
NumberFails(u) ==
  /\ At(u, "claimed", {"order"})
  /\ hand' = [hand EXCEPT ![u] = Idle]
  /\ UNCHANGED <<papers, money, goods, ops, disturbed>>

(* The invoice is created from what was read, and the reply may be lost;   *)
(* or the insert fails.  A failure, real or not, is followed by a release. *)
CreateConverted(u) ==
  LET d == hand[u].doc IN
  \E i \in Docs, lost \in BOOLEAN :
    /\ At(u, "claimed", Offers)
    /\ row[i].kind \in Becomes(row[d].kind) /\ row[i].status = "none"
    /\ row' = [row EXCEPT ![i].status = "draft", ![i].qty = hand[u].seen.qty, ![i].link = d]
    /\ hand' = [hand EXCEPT ![u] = IF lost THEN [@ EXCEPT !.op = "release"] ELSE Idle]
    /\ UNCHANGED <<entries, booked, reversed, money, goods, ops, disturbed>>

CreateFails(u) ==
  /\ At(u, "claimed", Offers)
  /\ hand' = [hand EXCEPT ![u].op = "release"]
  /\ UNCHANGED <<papers, money, goods, ops, disturbed>>

(* The order gets its own status back unless an invoice names it.  The     *)
(* statement for quotations asks sales_invoices for a column it does not   *)
(* have, and always fails.                                                 *)
Unclaimed(d) ==
  /\ row[d].kind = "order" /\ row[d].status = "converted"
  /\ \A i \in Docs : row[i].link = d => ~Exists(i)
ReleaseOffer(u) ==
  LET d == hand[u].doc IN
  /\ At(u, "release", Offers)
  /\ row' = IF Unclaimed(d) THEN [row EXCEPT ![d].status = hand[u].seen.status] ELSE row
  /\ hand' = [hand EXCEPT ![u] = Idle]
  /\ UNCHANGED <<entries, booked, reversed, money, goods, ops, disturbed>>

(* The connection fails: the claim stays. *)
ReleaseFails(u) ==
  /\ At(u, "release", Offers)
  /\ hand' = [hand EXCEPT ![u] = Idle]
  /\ UNCHANGED <<papers, money, goods, ops, disturbed>>

ConversionStep ==
  \/ \E d \in Docs : CreateOffer(d)
  \/ \E u \in Users, d \in Docs : UpdateOffer(u, d) \/ DeleteOffer(u, d) \/ ConvertOffer(u, d)
  \/ \E u \in Users :
       \/ ClaimOffer(u) \/ NumberFails(u) \/ CreateConverted(u) \/ CreateFails(u)
       \/ ReleaseOffer(u) \/ ReleaseFails(u)
=============================================================================
