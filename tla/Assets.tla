-------------------------------- MODULE Assets --------------------------------
(***************************************************************************)
(* Fixed assets (accounting/assets.ts): capitalized when they are          *)
(* registered, depreciated month by month in a straight line to nothing,   *)
(* disposed of once.  The register holds one asset, and two months pass.   *)
(***************************************************************************)
EXTENDS Books

Months == {1, 2}

(* Paid from the cash box, owed to the supplier, or an opening balance. *)
Funding(q) == {[applied |-> q, mark |-> 0], [applied |-> 0, mark |-> q], [applied |-> 0, mark |-> 0]}

CreateFixedAsset(u, d) ==
  /\ row[d].kind = "asset" /\ row[d].status = "none"
  /\ FiscalOpen
  /\ \E q \in 1..MaxQty, life \in 1..2 : \E f \in Funding(q) :
       Reads(u, "new", d, [status |-> "active", qty |-> q, actual |-> life,
                            applied |-> f.applied, mark |-> f.mark], <<>>, Main)

CommitAsset(u) ==
  LET d == hand[u].doc
      t == hand[u].want IN
  /\ At(u, "new", {"asset"}) /\ row[d].status = "none"
  /\ Ledger([assets |-> t.qty, cash |-> -t.applied, creditors |-> t.mark])
  /\ entries' = [entries EXCEPT ![d] = @ + 1]
  /\ row' = [row EXCEPT ![d] = Updated(@, t)]
  /\ Ends(u) /\ UNCHANGED <<booked, reversed, owed, due, goods>>

(* The useful life is estimated anew. *)
UpdateFixedAsset(u, d) ==
  /\ row[d].kind = "asset" /\ row[d].status = "active"
  /\ \E life \in 1..2 \ {row[d].actual} : Edits(u, d, [actual |-> life])

(* The entry that capitalized it stays. *)
DeleteFixedAsset(u, d) ==
  /\ row[d].kind = "asset" /\ row[d].status = "active" /\ row[d].paid <= 0
  /\ Deletes(u, d)

-----------------------------------------------------------------------------
(* computeTargetAccumulated: what should be depreciated after m months. *)
Target(r, m) == IF m > r.actual THEN r.qty ELSE (m * r.qty) \div r.actual

(* periodDepreciation: what is missing, never negative. *)
Charge(r, m) == IF Target(r, m) > r.paid THEN Target(r, m) - r.paid ELSE 0

(* The DEP- reference of the month, looked up before the transaction. *)
Charged(d, m) == IF m = 1 THEN booked[d] % 2 = 1 ELSE booked[d] >= 2

RunDepreciation(u, d) ==
  \E m \in Months :
    /\ row[d].kind = "asset" /\ row[d].status = "active"
    /\ FiscalOpen
    /\ Charge(row[d], m) > 0 /\ ~Charged(d, m)
    /\ Reads(u, "charge", d, [paid |-> Charge(row[d], m), mark |-> m], <<>>, Main)

(* The entry of the month, and accumulated_depreciation + the charge WHERE *)
(* status = 'active'.                                                      *)
CommitDepreciation(u) ==
  LET d == hand[u].doc
      n == hand[u].want.paid
      m == hand[u].want.mark IN
  /\ At(u, "charge", {"asset"})
  /\ Ledger([accumulated |-> n])
  /\ entries' = [entries EXCEPT ![d] = @ + 1]
  /\ booked' = [booked EXCEPT ![d] = IF Charged(d, m) THEN @ ELSE @ + m]
  /\ row' = IF row[d].status = "active" THEN [row EXCEPT ![d].paid = @ + n] ELSE row
  /\ Ends(u) /\ UNCHANGED <<reversed, owed, due, goods>>

DisposeFixedAsset(u, d) ==
  /\ row[d].kind = "asset" /\ row[d].status = "active"
  /\ FiscalOpen /\ reversed[d] = 0
  /\ \E proceeds \in 0..MaxQty :
       Reads(u, "dispose", d, [status |-> "disposed", applied |-> row[d].applied - proceeds], <<>>, Main)

(* Cost and accumulated depreciation leave the books as they were read. *)
CommitDisposal(u) ==
  LET d == hand[u].doc
      r == hand[u].seen
      t == hand[u].want IN
  /\ At(u, "dispose", {"asset"})
  /\ Ledger([assets |-> -r.qty, accumulated |-> -r.paid, cash |-> r.applied - t.applied])
  /\ reversed' = [reversed EXCEPT ![d] = @ + 1]
  /\ row' = IF row[d].status = "active" THEN [row EXCEPT ![d] = Updated(@, t)] ELSE row
  /\ Ends(u) /\ UNCHANGED <<entries, booked, owed, due, goods>>

AssetsStep ==
  \E u \in Users :
    \/ \E d \in Docs :
         \/ CreateFixedAsset(u, d) \/ UpdateFixedAsset(u, d) \/ DeleteFixedAsset(u, d)
         \/ RunDepreciation(u, d) \/ DisposeFixedAsset(u, d)
    \/ CommitAsset(u) \/ CommitDepreciation(u) \/ CommitDisposal(u)
=============================================================================
