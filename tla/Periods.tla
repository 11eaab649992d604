------------------------------- MODULE Periods -------------------------------
(***************************************************************************)
(* Accounting periods (yearEnd.ts): the fiscal year, the first half of it  *)
(* that the dates of all documents lie in, and the tax period of the same  *)
(* dates (tax/engine.ts).  The second half is never closed.                *)
(***************************************************************************)
EXTENDS Books

(* A range has one row: opening a period again only touches it.  The half  *)
(* is generated open whatever the status of its year.                      *)
OpenAccountingPeriod(d) == Creates(d, {"year"}, [status |-> "open"])
GenerateSubPeriods(d) == Creates(d, {"half"}, [status |-> "open"])
OpenTaxPeriod(d) == Creates(d, {"taxPeriod"}, [status |-> "open"])

(* Soft or final, oldest first: the year waits for its half.  The final    *)
(* close of a year is closeFiscalYear.                                     *)
CloseAccountingPeriod(u, d) ==
  \E s \in {"soft_closed", "closed"} :
    /\ row[d].kind \in {"half", "year"} /\ Exists(d)
    /\ row[d].status \notin {s, "closed"}
    /\ row[d].kind = "year" => s # "closed" /\ \A h \in Rows("half") : row[h].status # "open"
    /\ Reads(u, "close", d, [status |-> s], <<>>, Main)

(* UPDATE ... WHERE status = 'open': a half that was closed softly stays   *)
(* as it is when it is closed for good, and the caller hears of success.   *)
CommitPeriod(u) ==
  /\ At(u, "close", {"half", "year"})
  /\ row' = Flipped(hand[u].doc, {"open"}, hand[u].want.status)
  /\ Ends(u) /\ UNCHANGED <<entries, booked, reversed, money, goods>>

(* closeFiscalYear, from the list of periods or from its own page: no      *)
(* other year is in the way and there is no CLS- entry.                    *)
CloseFiscalYear(u, d) ==
  /\ row[d].kind = "year" /\ Exists(d)
  /\ Reads(u, "year", d, [status |-> "closed"], <<>>, Main)

(* The columns of accounting_periods an ON CONFLICT may name: migration    *)
(* 0001 dropped the uniqueness of (company_id, year).                      *)
Uniques == {"range"}

(* The first statement of the transaction names the constraint that is     *)
(* gone, and nothing of it remains.                                        *)
CommitFiscalYear(u) ==
  /\ At(u, "year", {"year"})
  /\ row' = IF "year" \in Uniques THEN [row EXCEPT ![hand[u].doc].status = "closed"] ELSE row
  /\ Ends(u) /\ UNCHANGED <<entries, booked, reversed, money, goods>>

(* Newest first: a half stays closed under a closed year. *)
ReopenAccountingPeriodById(u, d) ==
  /\ row[d].kind \in {"half", "year"} /\ Exists(d) /\ row[d].status # "open"
  /\ row[d].kind = "half" => \A y \in Rows("year") : row[y].status # "closed"
  /\ Keeps(u, "reopen", d)

CommitReopen(u) ==
  /\ At(u, "reopen", {"half", "year"})
  /\ row' = [row EXCEPT ![hand[u].doc].status = "open"]
  /\ Ends(u) /\ UNCHANGED <<entries, booked, reversed, money, goods>>

(* isValidTaxTransition; the UPDATE is by id alone. *)
TaxMoves == {<<"open", "closed">>, <<"closed", "open">>, <<"closed", "filed">>}
SetTaxPeriodStatus(u, d) ==
  /\ row[d].kind = "taxPeriod"
  /\ \E s \in {"open", "closed", "filed"} : <<row[d].status, s>> \in TaxMoves /\ Edits(u, d, [status |-> s])

PeriodsStep ==
  \/ \E d \in Docs : OpenAccountingPeriod(d) \/ GenerateSubPeriods(d) \/ OpenTaxPeriod(d)
  \/ \E u \in Users, d \in Docs :
       \/ CloseAccountingPeriod(u, d) \/ CloseFiscalYear(u, d)
       \/ ReopenAccountingPeriodById(u, d) \/ SetTaxPeriodStatus(u, d)
  \/ \E u \in Users : CommitPeriod(u) \/ CommitFiscalYear(u) \/ CommitReopen(u)
=============================================================================
