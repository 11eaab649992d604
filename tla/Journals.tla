------------------------------- MODULE Journals -------------------------------
(***************************************************************************)
(* Manual journal entries (accounting/api.ts) and their reversal by a      *)
(* mirror entry (reversal.ts).  An entry moves its quantity from the cash  *)
(* box to another account; a balance is the sum of the lines of the posted *)
(* entries, so the ledger follows a line wherever it is written.           *)
(***************************************************************************)
EXTENDS Books

(* n more on the lines of d, which count once the entry is posted. *)
Lays(d, n) ==
  /\ row' = [row EXCEPT ![d].qty = @ + n]
  /\ IF row[d].status = "posted" THEN Ledger([other |-> n, cash |-> -n]) ELSE UNCHANGED gl
  /\ UNCHANGED <<entries, booked, reversed, owed, due, goods, ops>>

CreateTransaction(d) ==
  \E q \in 1..MaxQty : Creates(d, {"journal"}, [status |-> "draft", qty |-> q])

(* Faulty: a posted entry is edited like a draft. *)
FaultyEditable(d) == row[d].status \in {"draft", "posted"}

(* updateTransaction refuses what is not a draft. *)
Editable(d) == row[d].status = "draft"

(* New lines, or another status. *)
UpdateTransaction(u, d) ==
  /\ row[d].kind = "journal" /\ Editable(d)
  /\ \E want \in {[qty |-> q] : q \in 1..MaxQty} \cup {[status |-> "cancelled"]} :
       Reads(u, "header", d, want, <<>>, Main)

(* Three statements follow.  The header WHERE status = 'draft', and the    *)
(* lines go on although it found no row.                                   *)
UpdateHeader(u) ==
  LET d == hand[u].doc
      lines == "qty" \in DOMAIN hand[u].want IN
  /\ At(u, "header", {"journal"})
  /\ row' = IF lines THEN row ELSE Flipped(d, {"draft"}, hand[u].want.status)
  /\ hand' = [hand EXCEPT ![u] = IF lines THEN [@ EXCEPT !.op = "lines"] ELSE Idle]
  /\ UNCHANGED <<entries, booked, reversed, money, goods, ops, disturbed>>

DeleteLines(u) ==
  LET d == hand[u].doc IN
  /\ At(u, "lines", {"journal"})
  /\ Lays(d, -row[d].qty)
  /\ hand' = [hand EXCEPT ![u].op = "insert"]
  /\ disturbed' = disturbed \cup {x \in {d} : row[x].status = "posted"}

(* The lines need their header; without it the insert is refused (Fails).  *)
InsertLines(u) ==
  LET d == hand[u].doc IN
  /\ At(u, "insert", {"journal"}) /\ Exists(d)
  /\ Lays(d, hand[u].want.qty)
  /\ hand' = [hand EXCEPT ![u] = Idle]
  /\ disturbed' = disturbed \cup {x \in {d} : row[x].status = "posted"}

PostTransaction(u, d) ==
  /\ row[d].kind = "journal" /\ row[d].status = "draft" /\ row[d].qty > 0
  /\ Posts(u, d, <<>>)

(* One guarded UPDATE; whoever finds no draft reports it.  The lines count *)
(* as they are now.                                                        *)
CommitTransaction(u) ==
  LET d == hand[u].doc IN
  /\ At(u, "post", {"journal"})
  /\ IF row[d].status = "draft" THEN Journal(d, [other |-> row[d].qty, cash |-> -row[d].qty])
     ELSE UNCHANGED <<gl, entries, booked, reversed>>
  /\ row' = Flipped(d, {"draft"}, "posted")
  /\ Ends(u) /\ UNCHANGED <<owed, due, goods>>

DeleteTransaction(u, d) ==
  /\ row[d].kind = "journal" /\ row[d].status = "draft"
  /\ Keeps(u, "cancel", d)

(* By id alone, and the lines go with the header. *)
CommitDelete(u) ==
  LET d == hand[u].doc
      n == IF row[d].status = "posted" THEN row[d].qty ELSE 0 IN
  /\ At(u, "cancel", {"journal"})
  /\ row' = [row EXCEPT ![d].status = "gone", ![d].qty = 0]
  /\ Ledger([other |-> -n, cash |-> n])
  /\ Ends(u) /\ UNCHANGED <<entries, booked, reversed, owed, due, goods>>

-----------------------------------------------------------------------------
(* reverseTransaction mirrors any posted entry, the ones of documents too; *)
(* here those with one leg of interest.  The REV- reference is looked up   *)
(* before the transaction, and the document keeps its status.              *)
Mirror(k, n) ==
  CASE k = "payroll" -> [wages |-> -n]
    [] k = "provision" -> [leaves |-> -n]
    [] OTHER -> [other |-> -n, cash |-> n]

ReverseTransaction(u, d) ==
  /\ row[d].kind \in {"journal", "payroll", "provision"} /\ row[d].status = "posted"
  /\ FiscalOpen
  /\ reversed[d] = 0 /\ entries[d] > 0 /\ row[d].qty # 0
  /\ Keeps(u, "reverse", d)

CommitMirror(u) ==
  LET d == hand[u].doc
      k == hand[u].seen.kind
      n == hand[u].seen.qty IN
  /\ At(u, "reverse", {"journal", "payroll", "provision"})
  /\ Ledger(Mirror(k, n))
  /\ reversed' = [reversed EXCEPT ![d] = @ + 1]
  /\ Ends(u) /\ UNCHANGED <<row, entries, booked, owed, due, goods>>

JournalsStep ==
  \/ \E d \in Docs : CreateTransaction(d)
  \/ \E u \in Users, d \in Docs :
       \/ UpdateTransaction(u, d) \/ PostTransaction(u, d) \/ DeleteTransaction(u, d)
       \/ ReverseTransaction(u, d)
  \/ \E u \in Users :
       \/ UpdateHeader(u) \/ DeleteLines(u) \/ InsertLines(u)
       \/ CommitTransaction(u) \/ CommitDelete(u) \/ CommitMirror(u)
=============================================================================
