-------------------------------- MODULE Leaves --------------------------------
(***************************************************************************)
(* The annual leaves of one employee in one year, and the provision for    *)
(* what is left of them (hr/api.ts).  A day costs 1.                       *)
(***************************************************************************)
EXTENDS Books

Claiming == {"pending", "approved"}
Days(of) == Total([d \in {x \in Rows("leave") : row[x].status \in of} |-> row[d].qty])

(* daterange(start, end) without the last day: empty for a single day. *)
Nights(first, days) == first..(first + days - 2)

(* The overlap guard, then the insert as a statement of its own. *)
CreateLeave(u, d) ==
  /\ row[d].kind = "leave" /\ row[d].status = "none"
  /\ \E first, days \in 1..MaxQty :
       /\ \A x \in Rows("leave") :
            row[x].status \in Claiming
            => Nights(first, days) \cap Nights(row[x].mark, row[x].qty) = {}
       /\ Reads(u, "new", d, [status |-> "pending", qty |-> days, mark |-> first], <<>>, Main)

InsertLeave(u) ==
  LET d == hand[u].doc IN
  /\ At(u, "new", {"leave"}) /\ row[d].status = "none"
  /\ row' = [row EXCEPT ![d] = Updated(@, hand[u].want)]
  /\ Ends(u) /\ UNCHANGED <<entries, booked, reversed, money, goods>>

(* Faulty: the approved leaves are forgotten. *)
FaultyEntitled(d) == row[d].qty <= LeaveDays - (Days({"pending"}) - row[d].qty)

(* The days of the others, pending or approved, leave enough for this one. *)
Entitled(d) == row[d].qty <= LeaveDays - (Days(Claiming) - row[d].qty)

LeaveMoves == {<<"pending", "approved">>, <<"pending", "rejected">>, <<"pending", "cancelled">>,
               <<"approved", "cancelled">>}

(* The status is written by id alone. *)
UpdateLeaveStatus(u, d) ==
  /\ row[d].kind = "leave"
  /\ \E s \in {"approved", "rejected", "cancelled"} :
       /\ <<row[d].status, s>> \in LeaveMoves
       /\ s = "approved" => Entitled(d)
       /\ Edits(u, d, [status |-> s])

DeleteLeave(u, d) ==
  /\ row[d].kind = "leave" /\ Exists(d) /\ row[d].status # "approved"
  /\ Deletes(u, d)

-----------------------------------------------------------------------------
(* The liability is trued up to the days that are left, once a year: the   *)
(* LEAVE- reference is looked up before the transaction.                   *)
Remaining == IF Days(Claiming) > LeaveDays THEN 0 ELSE LeaveDays - Days(Claiming)

PostLeaveProvision(u, d) ==
  /\ row[d].kind = "provision" /\ entries[d] = 0
  /\ FiscalOpen
  /\ Remaining # gl["leaves"]
  /\ Reads(u, "new", d, [qty |-> Remaining - gl["leaves"]], <<>>, Main)

CommitProvision(u) ==
  LET d == hand[u].doc
      n == hand[u].want.qty IN
  /\ At(u, "new", {"provision"})
  /\ Journal(d, [leaves |-> n])
  /\ row' = [row EXCEPT ![d].status = "posted", ![d].qty = @ + n]
  /\ Ends(u) /\ UNCHANGED <<owed, due, goods>>

LeavesStep ==
  \E u \in Users :
    \/ \E d \in Docs :
         \/ CreateLeave(u, d) \/ UpdateLeaveStatus(u, d) \/ DeleteLeave(u, d)
         \/ PostLeaveProvision(u, d)
    \/ InsertLeave(u) \/ CommitProvision(u)
=============================================================================
