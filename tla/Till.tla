--------------------------------- MODULE Till ---------------------------------
(***************************************************************************)
(* The point of sale (pos/api.ts): the shifts of one cashier, who may have *)
(* several tabs open, the sales of a shift, and the entry that books what  *)
(* the count of the drawer finds too much or too little.                   *)
(***************************************************************************)
EXTENDS Books

(* One statement; a unique index admits one open shift of the cashier.     *)
OpenShift(d) ==
  /\ \A x \in Docs : row[x].kind = "shift" => row[x].status # "open"
  /\ \E n \in {0, 1} : Creates(d, {"shift"}, [status |-> "open", qty |-> n])

(* The cart: quantity, the part paid in cash (mark is what the drawer got, *)
(* paid what the invoice is credited with) and the open shift.             *)
Carts(d) ==
  {[qty |-> q, paid |-> c, mark |-> c, link |-> s] :
     q \in 1..MaxQty, c \in 0..MaxQty,
     s \in {x \in Docs : row[x].kind = "shift" /\ row[x].status = "open"}}

Checkout(u, d) ==
  /\ row[d].kind = "ticket" /\ row[d].status = "none"
  /\ PeriodOpen
  /\ \E t \in Carts(d) :
       /\ t.paid <= t.qty
       /\ Allocated(t.qty) /\ Sufficient("sale", t.qty)
       /\ CreditLimit = 0 \/ t.paid = t.qty \/ owed + t.qty - t.paid <= CreditLimit
          \/ "overlimit" \in Allow
       /\ Reads(u, "new", d, t, Fifo(t.qty), Main)

(* Faulty: the shift was open when the cart was read. *)
FaultyDrawer(u) == Exists(hand[u].want.link)

(* The first statement counts the shift if it is open, FOR UPDATE.        *)
Drawer(u) == row[hand[u].want.link].status = "open"

(* The transaction aborts when the shift is closed by now (Fails).  The    *)
(* invoice, payments, entry, layers, stock and balance follow.             *)
CommitCheckout(u) ==
  LET d == hand[u].doc
      t == hand[u].want IN
  /\ At(u, "new", {"ticket"}) /\ row[d].status = "none"
  /\ Drawer(u)
  /\ row' = [row EXCEPT ![d] = [Updated(@, t) EXCEPT !.status = IF t.paid = t.qty THEN "paid" ELSE "posted"]]
  /\ Journal(d, [cash |-> t.paid, debtors |-> t.qty - t.paid, inventory |-> -t.qty])
  /\ \E w \in Sources("raw", t.qty) : Moves("raw", w, -t.qty)
  /\ Consumes(hand[u].take)
  /\ owed' = owed + t.qty - t.paid
  /\ Ends(u) /\ UNCHANGED due

-----------------------------------------------------------------------------
(* getShiftSummary: the opening amount and the cash of the shift's sales.  *)
Expected(s) ==
  row[s].qty + Total([t \in {x \in Docs : row[x].kind = "ticket" /\ row[x].link = s} |-> row[t].mark])

(* The summary is read, the drawer counted; the cashier may find one less. *)
CloseShift(u, d) ==
  /\ row[d].kind = "shift" /\ row[d].status = "open"
  /\ FiscalOpen
  /\ \E n \in {Expected(d), Expected(d) - 1} :
       /\ n >= 0
       /\ Reads(u, "close", d, [mark |-> Expected(d), actual |-> n], <<>>, Main)

(* A shift that is closed already: its difference is booked if it is not.  *)
HealShift(u, d) ==
  /\ row[d].kind = "shift" /\ row[d].status = "closed"
  /\ FiscalOpen
  /\ Reads(u, "lookup", d, [mark |-> row[d].mark, actual |-> row[d].actual], <<>>, Main)

(* One UPDATE, WHERE status = 'open'; the loser reports and ends (Fails).  *)
CommitClose(u) ==
  LET d == hand[u].doc IN
  /\ At(u, "close", {"shift"})
  /\ row[d].status = "open"
  /\ row' = [row EXCEPT ![d] = [Updated(@, hand[u].want) EXCEPT !.status = "closed"]]
  /\ hand' = [hand EXCEPT ![u].op = "lookup"]
  /\ UNCHANGED <<entries, booked, reversed, money, goods, ops, disturbed>>

(* Faulty: the lookup of an earlier entry is dropped. *)
FaultyUnbooked(u) == hand[u].want.actual # hand[u].want.mark

(* postShiftDifferenceJe: nothing to do, already done, or the entry next.  *)
Unbooked(u) == hand[u].want.actual # hand[u].want.mark /\ entries[hand[u].doc] = 0
LookUpDifference(u) ==
  /\ At(u, "lookup", {"shift"})
  /\ hand' = [hand EXCEPT ![u] = IF Unbooked(u) THEN [@ EXCEPT !.op = "entry"] ELSE Idle]
  /\ UNCHANGED <<papers, money, goods, ops, disturbed>>

BookDifference(u) ==
  LET difference == hand[u].want.actual - hand[u].want.mark IN
  /\ At(u, "entry", {"shift"})
  /\ Journal(hand[u].doc, [cash |-> difference, difference |-> -difference])
  /\ hand' = [hand EXCEPT ![u] = Idle]
  /\ UNCHANGED <<row, owed, due, goods, ops, disturbed>>

TillStep ==
  \/ \E d \in Docs : OpenShift(d)
  \/ \E u \in Users, d \in Docs : Checkout(u, d) \/ CloseShift(u, d) \/ HealShift(u, d)
  \/ \E u \in Users :
       \/ CommitCheckout(u) \/ CommitClose(u)
       \/ LookUpDifference(u) \/ BookDifference(u)
=============================================================================
