------------------------------- MODULE Payroll -------------------------------
(***************************************************************************)
(* Payroll runs of one month, and the dues of employees who leave          *)
(* (hr/api.ts).  Deductions are part of what the run owes ("wages").       *)
(***************************************************************************)
EXTENDS Books

(* A unique index admits one run of the month that is draft or posted. *)
CreatePayrollRun(d) ==
  /\ \A x \in Docs : row[x].kind = "payroll" => row[x].status \notin {"draft", "posted"}
  /\ \E q \in 1..MaxQty : Creates(d, {"payroll"}, [status |-> "draft", qty |-> q])

DeletePayrollRun(u, d) ==
  /\ row[d].kind = "payroll" /\ row[d].status = "draft"
  /\ Deletes(u, d)

PostPayrollRun(u, d) ==
  /\ row[d].kind = "payroll" /\ row[d].status = "draft"
  /\ Posts(u, d, <<>>)

CommitPayrollRun(u) ==
  LET d == hand[u].doc IN
  /\ At(u, "post", {"payroll"})
  /\ Journal(d, [wages |-> hand[u].seen.qty])
  /\ row' = Flipped(d, {"draft"}, "posted")
  /\ Ends(u) /\ UNCHANGED <<owed, due, goods>>

-----------------------------------------------------------------------------
CreateEndOfService(d) ==
  \E q \in 1..MaxQty : Creates(d, {"endOfService"}, [status |-> "draft", qty |-> q])

(* Approving books what is owed; no period is asked. *)
ApproveEndOfService(u, d) ==
  /\ row[d].kind = "endOfService" /\ row[d].status = "draft"
  /\ Keeps(u, "post", d)

CommitApproval(u) ==
  LET d == hand[u].doc IN
  /\ At(u, "post", {"endOfService"})
  /\ Journal(d, [severance |-> hand[u].seen.qty])
  /\ row' = Flipped(d, {"draft"}, "approved")
  /\ Ends(u) /\ UNCHANGED <<owed, due, goods>>

(* The entry of an approved one stays, for the accountant to reverse. *)
CancelEndOfService(u, d) ==
  /\ row[d].kind = "endOfService" /\ row[d].status \in {"draft", "approved"}
  /\ Edits(u, d, [status |-> "cancelled"])

(* The cash box is not asked whether it holds as much. *)
PayEndOfService(u, d) ==
  /\ row[d].kind = "endOfService" /\ row[d].status = "approved"
  /\ FiscalOpen
  /\ Keeps(u, "complete", d)

CommitSettlement(u) ==
  LET d == hand[u].doc
      n == hand[u].seen.qty IN
  /\ At(u, "complete", {"endOfService"})
  /\ Journal(d, [severance |-> -n, cash |-> -n])
  /\ row' = Flipped(d, {"approved"}, "paid")
  /\ Ends(u) /\ UNCHANGED <<owed, due, goods>>

DeleteEndOfService(u, d) ==
  /\ row[d].kind = "endOfService" /\ row[d].status \in {"draft", "cancelled"}
  /\ Deletes(u, d)

PayrollStep ==
  \/ \E d \in Docs : CreatePayrollRun(d) \/ CreateEndOfService(d)
  \/ \E u \in Users, d \in Docs :
       \/ DeletePayrollRun(u, d) \/ PostPayrollRun(u, d)
       \/ ApproveEndOfService(u, d) \/ CancelEndOfService(u, d)
       \/ PayEndOfService(u, d) \/ DeleteEndOfService(u, d)
  \/ \E u \in Users : CommitPayrollRun(u) \/ CommitApproval(u) \/ CommitSettlement(u)
=============================================================================
