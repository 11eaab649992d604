------------------------------ MODULE Vouchers -------------------------------
(***************************************************************************)
(* Receipt and payment vouchers (accounting/api.ts) and their reversal     *)
(* (reversal.ts).  A voucher may apply a part of its amount to an invoice. *)
(***************************************************************************)
EXTENDS Books

Slips == {"receipt", "payment"}
Settles(k) == IF k = "receipt" THEN {"sale", "cashSale", "ticket"} ELSE {"purchase", "cashPurchase"}

(* Amount, and the part applied to an invoice that is not cancelled. *)
Terms(k) ==
  {[qty |-> q, link |-> NoDoc, applied |-> 0] : q \in 1..MaxQty} \cup
  {[qty |-> q, link |-> i, applied |-> a] :
     q \in 1..MaxQty, a \in 1..MaxQty,
     i \in {x \in Docs : row[x].kind \in Settles(k) /\ Exists(x) /\ row[x].status # "cancelled"}}
Proper(t) == t.applied <= t.qty
Voucher(t, s) == [status |-> s, qty |-> t.qty, link |-> t.link, applied |-> t.applied]

(* Faulty: the application is not held against what is outstanding. *)
FaultyAcceptable(k, t) ==
  t.link # NoDoc => Exists(t.link) /\ row[t.link].status # "cancelled"

(* What posting asks of the terms. *)
Acceptable(k, t) ==
  t.link # NoDoc => /\ Exists(t.link) /\ row[t.link].status # "cancelled"
                    /\ t.applied <= Outstanding(row[t.link])

(* UPDATE ... SET paid_amount = paid_amount + n, status = CASE ...: also   *)
(* on an invoice that is still a draft.                                    *)
Settled(rows, i, n) ==
  IF i = NoDoc \/ ~Exists(i) THEN rows
  ELSE [rows EXCEPT ![i].paid = @ + n,
                    ![i].status = IF @ \in {"cancelled", "paid"} THEN @
                                  ELSE IF rows[i].paid + n >= rows[i].qty THEN "paid"
                                  ELSE "partially_paid"]

CreateVoucher(d) ==
  \E t \in Terms(row[d].kind) :
    Proper(t) /\ Creates(d, Slips, Voucher(t, "draft"))

(* Created as posted, with the fiscal gate alone.                          *)
CreatePosted(u, d) ==
  LET k == row[d].kind IN
  /\ k \in Slips /\ row[d].status = "none"
  /\ FiscalOpen
  /\ \E t \in Terms(k) :
       /\ Proper(t) /\ Acceptable(k, t)
       /\ k = "payment" => Affordable(t.qty)
       /\ Reads(u, "new", d, Voucher(t, "posted"), <<>>, Main)

PostVoucher(u, d) ==
  LET k == row[d].kind
      t == [qty |-> row[d].qty, link |-> row[d].link, applied |-> row[d].applied] IN
  /\ k \in Slips /\ row[d].status = "draft"
  /\ PeriodOpen /\ Acceptable(k, t)
  /\ k = "payment" => Affordable(t.qty)
  /\ Reads(u, "post", d, t, <<>>, Main)

(* The party owes, or is owed, less. *)
SettlesBalance(k, n) ==
  IF k = "receipt" THEN owed' = owed - n /\ UNCHANGED due
  ELSE due' = due - n /\ UNCHANGED owed

(* Entry, party balance, application to the invoice and the row itself. *)
Booking(u) ==
  LET d == hand[u].doc
      k == hand[u].seen.kind
      t == hand[u].want IN
  /\ IF k = "receipt" THEN Journal(d, [cash |-> t.qty, debtors |-> -t.qty])
     ELSE Journal(d, [cash |-> -t.qty, creditors |-> -t.qty])
  /\ SettlesBalance(k, t.qty)
  /\ EndsWith(u, {i \in {t.link} \cap Docs : row[i].status = "draft"})
  /\ UNCHANGED goods

CommitVoucher(u) ==
  LET d == hand[u].doc
      t == hand[u].want IN
  /\ At(u, "post", Slips)
  /\ row' = Settled(Flipped(d, {"draft"}, "posted"), t.link, t.applied)
  /\ Booking(u)

CommitCreated(u) ==
  LET d == hand[u].doc
      t == hand[u].want IN
  /\ At(u, "new", Slips) /\ row[d].status = "none"
  /\ row' = Settled([row EXCEPT ![d] = Updated(@, t)], t.link, t.applied)
  /\ Booking(u)

(* Amounts only while it is not posted; the status of a posted one too. *)
UpdateVoucher(u, d) ==
  /\ row[d].kind \in Slips /\ Exists(d) /\ row[d].status # "reversed"
  /\ \/ \E s \in {"draft", "cancelled"} \ {row[d].status} : Edits(u, d, [status |-> s])
     \/ /\ row[d].status # "posted"
        /\ \E t \in Terms(row[d].kind) : Proper(t) /\ Edits(u, d, t)

DeleteVoucher(u, d) ==
  /\ row[d].kind \in Slips /\ Exists(d)
  /\ row[d].status \notin {"posted", "reversed"} /\ row[d].applied <= 0
  /\ Deletes(u, d)

-----------------------------------------------------------------------------
(* The REV- reference is looked up with the legs before the transaction. *)
ReverseVoucher(u, d) ==
  /\ row[d].kind \in Slips /\ row[d].status = "posted" /\ row[d].applied = 0
  /\ FiscalOpen
  /\ reversed[d] = 0 /\ entries[d] > 0
  /\ Reads(u, "reverse", d, [mark |-> booked[d]], <<>>, Main)

(* Faulty: the sign of the posting instead of its opposite. *)
FaultyRestoresBalance(k, n) ==
  IF k = "receipt" THEN owed' = owed - n /\ UNCHANGED due
  ELSE due' = due - n /\ UNCHANGED owed

(* The counter-entry: up for a receipt, and DOWN for a payment. *)
RestoresBalance(k, n) ==
  IF k = "receipt" THEN owed' = owed + n /\ UNCHANGED due
  ELSE due' = due - n /\ UNCHANGED owed

(* The legs found, swapped; the flip may find no row. *)
CommitReverse(u) ==
  LET d == hand[u].doc
      k == hand[u].seen.kind
      cash == hand[u].want.mark IN
  /\ At(u, "reverse", Slips)
  /\ Ledger(IF k = "receipt" THEN [cash |-> -cash, debtors |-> cash] ELSE [cash |-> -cash, creditors |-> -cash])
  /\ RestoresBalance(k, hand[u].seen.qty)
  /\ reversed' = [reversed EXCEPT ![d] = @ + 1]
  /\ row' = Flipped(d, {"posted"}, "reversed")
  /\ Ends(u) /\ UNCHANGED <<entries, booked, goods>>

VouchersStep ==
  \/ \E d \in Docs : CreateVoucher(d)
  \/ \E u \in Users, d \in Docs :
       \/ CreatePosted(u, d) \/ PostVoucher(u, d) \/ UpdateVoucher(u, d)
       \/ DeleteVoucher(u, d) \/ ReverseVoucher(u, d)
  \/ \E u \in Users : CommitVoucher(u) \/ CommitCreated(u) \/ CommitReverse(u)
=============================================================================
