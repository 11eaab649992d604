-------------------------- MODULE BatchClosingProofs --------------------------
(***************************************************************************)
(* The counters of a batch, the verdict that is drawn from them, the rows  *)
(* that wait for others, and the order the waves keep, for every batch,    *)
(* every number of windows and runs, and every bound, as long as no lease  *)
(* runs out under a live run; that a closed batch stays closed also then.  *)
(***************************************************************************)
EXTENDS BatchRunnerProofs, WellFoundedInduction

USE ItemsAssumption, LimitsAssumption, RunnerAssumption

-----------------------------------------------------------------------------
(* A retry takes off the counters, in its last statement, what its first   *)
(* two have put back into the queue.  Until then it owes that much.        *)
OwesFailed(c) == IF c.at \in {"revive", "reopen"} THEN c.n ELSE 0
OwesSkipped(c) == IF c.at = "reopen" THEN c.m ELSE 0

(* A debt of several windows, as a set with one member for each row.       *)
Debt(f) == {p \in Windows \X Nat : 1 <= p[2] /\ p[2] <= f[p[1]]}

FailedDebt == Debt([x \in Windows |-> OwesFailed(cmd[x])])
SkippedDebt == Debt([x \in Windows |-> OwesSkipped(cmd[x])])

Covered ==
  status # "cancelled" =>
    /\ cnt.failed >= Cardinality(InStatus("failed")) + Cardinality(FailedDebt)
    /\ cnt.skipped >= Cardinality(InStatus("skipped")) + Cardinality(SkippedDebt)

CInv ==
  /\ cnt.done = Cardinality(InStatus("done"))
  /\ IsFiniteSet(FailedDebt) /\ IsFiniteSet(SkippedDebt)
  /\ Covered
  /\ \A x \in Windows : cmd[x].at \in {"park", "bump"} => status = "cancelled"
  /\ ClosedIsTrue

LEMMA DebtLess ==
  ASSUME NEW f \in [Windows -> Nat], NEW g \in [Windows -> Nat], IsFiniteSet(Debt(f)),
         \A x \in Windows : g[x] = f[x] \/ g[x] = 0
  PROVE  IsFiniteSet(Debt(g)) /\ Cardinality(Debt(g)) <= Cardinality(Debt(f))
<1>1. Debt(g) \subseteq Debt(f)
  BY DEF Debt
<1> QED
  BY <1>1, FS_Subset

LEMMA OneToN ==
  ASSUME NEW n \in Nat
  PROVE  IsFiniteSet(1..n) /\ Cardinality(1..n) = n
<1>1. IsFiniteSet(1..n) /\ Cardinality(1..n) = IF 1 > n THEN 0 ELSE n - 1 + 1
  BY FS_Interval
<1>2. (IF 1 > n THEN 0 ELSE n - 1 + 1) = n
  OBVIOUS
<1> QED
  BY <1>1, <1>2

LEMMA RowOfN ==
  ASSUME NEW n \in Nat, NEW x
  PROVE  IsFiniteSet({x} \X (1..n)) /\ Cardinality({x} \X (1..n)) = n
<1>1. IsFiniteSet({x}) /\ Cardinality({x}) = 1
  BY FS_Singleton
<1>2. IsFiniteSet({x} \X (1..n)) /\ Cardinality({x} \X (1..n)) = Cardinality({x}) * Cardinality(1..n)
  BY <1>1, OneToN, FS_Product
<1>3. Cardinality({x}) * Cardinality(1..n) = n
  BY <1>1, OneToN
<1> QED
  BY <1>2, <1>3

(* One window comes to owe more.                                           *)
LEMMA DebtMore ==
  ASSUME NEW f \in [Windows -> Nat], NEW g \in [Windows -> Nat], NEW x \in Windows,
         \A y \in Windows \ {x} : g[y] = f[y], f[x] = 0,
         IsFiniteSet(Debt(f)) \/ IsFiniteSet(Debt(g))
  PROVE  /\ IsFiniteSet(Debt(f)) /\ IsFiniteSet(Debt(g))
         /\ Cardinality(Debt(f)) \in Nat
         /\ Cardinality(Debt(g)) = Cardinality(Debt(f)) + g[x]
<1> DEFINE own == {x} \X (1..g[x])
<1>2. g[x] \in Nat /\ IsFiniteSet(own) /\ Cardinality(own) = g[x]
  BY RowOfN
<1>3. Debt(g) = Debt(f) \cup own /\ Debt(f) \cap own = {} /\ Debt(f) \subseteq Debt(g)
  BY DEF Debt
<1> HIDE DEF own
<1>4. IsFiniteSet(Debt(f))
  BY <1>3, FS_Subset
<1>5. /\ IsFiniteSet(Debt(f) \cup own)
      /\ Cardinality(Debt(f) \cup own) = Cardinality(Debt(f)) + Cardinality(own) - Cardinality(Debt(f) \cap own)
  BY <1>2, <1>4, FS_Union
<1>6. Cardinality(Debt(f)) \in Nat /\ Cardinality(Debt(f) \cap own) = 0
  BY <1>3, <1>4, FS_EmptySet, FS_CardinalityType
<1>7. Cardinality(Debt(g)) = Cardinality(Debt(f)) + g[x]
  BY <1>2, <1>3, <1>5, <1>6
<1> QED
  BY <1>3, <1>4, <1>5, <1>6, <1>7

LEMMA DebtsAreCounts ==
  ASSUME TypeOK
  PROVE  /\ [x \in Windows |-> OwesFailed(cmd[x])] \in [Windows -> Nat]
         /\ [x \in Windows |-> OwesSkipped(cmd[x])] \in [Windows -> Nat]
<1>1. \A x \in Windows : cmd[x].n \in Nat /\ cmd[x].m \in Nat
  BY DEF TypeOK, Commands
<1> QED
  BY <1>1 DEF OwesFailed, OwesSkipped

(* Counting the rows of a status.                                          *)
LEMMA StatusCounts ==
  ASSUME NEW s
  PROVE  IsFiniteSet(InStatus(s)) /\ Cardinality(InStatus(s)) \in Nat
BY RowCounts DEF InStatus

LEMMA FewerInStatus ==
  ASSUME NEW s, \A i \in Items : stat'[i] = s => stat[i] = s
  PROVE  Cardinality(InStatus(s)') <= Cardinality(InStatus(s)) /\ Cardinality(InStatus(s)') \in Nat
<1>1. InStatus(s)' \subseteq InStatus(s)
  BY DEF InStatus
<1> QED
  BY <1>1, StatusCounts, FS_Subset, FS_CardinalityType

LEMMA MoreInStatus ==
  ASSUME NEW s, NEW R \in SUBSET Items, \A i \in Items : stat'[i] = s => stat[i] = s \/ i \in R
  PROVE  /\ Cardinality(InStatus(s)') <= Cardinality(InStatus(s)) + Cardinality(R)
         /\ Cardinality(InStatus(s)') \in Nat
<1>1. InStatus(s)' \subseteq InStatus(s) \cup R
  BY DEF InStatus
<1>2. IsFiniteSet(InStatus(s)) /\ IsFiniteSet(R)
  BY RowCounts, StatusCounts
<1>3. /\ IsFiniteSet(InStatus(s) \cup R)
      /\ Cardinality(InStatus(s) \cup R) =
           Cardinality(InStatus(s)) + Cardinality(R) - Cardinality(InStatus(s) \cap R)
  BY <1>2, FS_Union
<1>4. Cardinality(InStatus(s) \cap R) \in Nat
  BY <1>2, FS_Intersection, FS_CardinalityType
<1>5. Cardinality(InStatus(s)') <= Cardinality(InStatus(s) \cup R)
  BY <1>1, <1>3, FS_Subset
<1>6. Cardinality(InStatus(s)') \in Nat
  <2>1. InStatus(s)' \in SUBSET Items
    BY DEF InStatus
  <2> QED
    BY <2>1, RowCounts
<1>7. Cardinality(R) \in Nat /\ Cardinality(InStatus(s)) \in Nat
  BY <1>2, FS_CardinalityType
<1> QED
  BY <1>3, <1>4, <1>5, <1>6, <1>7

(* No command comes to owe anything, and none parks rows of a batch that   *)
(* is not cancelled.                                                       *)
CommandsQuiet ==
  \A x \in Windows :
    \/ cmd'[x] = cmd[x]
    \/ /\ cmd'[x].at \notin {"revive", "reopen"}
       /\ cmd'[x].at \in {"park", "bump"} => status' = "cancelled"

LEMMA DebtsStay ==
  ASSUME TypeOK, TypeOK', CInv, CommandsQuiet
  PROVE  /\ IsFiniteSet(FailedDebt') /\ Cardinality(FailedDebt') <= Cardinality(FailedDebt)
         /\ IsFiniteSet(SkippedDebt') /\ Cardinality(SkippedDebt') <= Cardinality(SkippedDebt)
<1> DEFINE f == [x \in Windows |-> OwesFailed(cmd[x])]
           s == [x \in Windows |-> OwesSkipped(cmd[x])]
           g == [x \in Windows |-> OwesFailed(cmd'[x])]
           t == [x \in Windows |-> OwesSkipped(cmd'[x])]
<1>1. f \in [Windows -> Nat] /\ s \in [Windows -> Nat] /\ g \in [Windows -> Nat] /\ t \in [Windows -> Nat]
  <2>1. \A x \in Windows : cmd[x].n \in Nat /\ cmd[x].m \in Nat /\ cmd'[x].n \in Nat /\ cmd'[x].m \in Nat
    BY DEF TypeOK, Commands
  <2> QED
    BY <2>1 DEF OwesFailed, OwesSkipped
<1>2. \A x \in Windows : g[x] = f[x] \/ g[x] = 0
  BY DEF CommandsQuiet, OwesFailed
<1>3. \A x \in Windows : t[x] = s[x] \/ t[x] = 0
  BY DEF CommandsQuiet, OwesSkipped
<1>4. /\ FailedDebt = Debt(f) /\ SkippedDebt = Debt(s) /\ FailedDebt' = Debt(g) /\ SkippedDebt' = Debt(t)
      /\ IsFiniteSet(FailedDebt) /\ IsFiniteSet(SkippedDebt)
  BY DEF FailedDebt, SkippedDebt, Debt, CInv
<1> HIDE DEF f, s, g, t
<1> QED
  BY <1>1, <1>2, <1>3, <1>4, DebtLess

(* Counters that grow by as much as what they count.                       *)
LEMMA CoveredStays ==
  ASSUME TypeOK, TypeOK', CInv, CommandsQuiet, status # "cancelled", NEW n \in Nat, NEW m \in Nat,
         cnt'.failed = cnt.failed + n, cnt'.skipped = cnt.skipped + m,
         Cardinality(InStatus("failed")') <= Cardinality(InStatus("failed")) + n,
         Cardinality(InStatus("skipped")') <= Cardinality(InStatus("skipped")) + m,
         Cardinality(InStatus("failed")') \in Nat, Cardinality(InStatus("skipped")') \in Nat
  PROVE  Covered'
<1>1. /\ cnt.failed >= Cardinality(InStatus("failed")) + Cardinality(FailedDebt)
      /\ cnt.skipped >= Cardinality(InStatus("skipped")) + Cardinality(SkippedDebt)
      /\ cnt.failed \in Int /\ cnt.skipped \in Int
  BY DEF CInv, Covered, TypeOK, TablesTypeOK
<1>2. /\ Cardinality(FailedDebt') <= Cardinality(FailedDebt)
      /\ Cardinality(SkippedDebt') <= Cardinality(SkippedDebt)
      /\ Cardinality(FailedDebt) \in Nat /\ Cardinality(SkippedDebt) \in Nat
      /\ Cardinality(FailedDebt') \in Nat /\ Cardinality(SkippedDebt') \in Nat
  BY DebtsStay, FS_CardinalityType DEF CInv
<1>3. Cardinality(InStatus("failed")) \in Nat /\ Cardinality(InStatus("skipped")) \in Nat
  BY StatusCounts
<1>4. /\ cnt'.failed >= Cardinality(InStatus("failed")') + Cardinality(FailedDebt')
      /\ cnt'.skipped >= Cardinality(InStatus("skipped")') + Cardinality(SkippedDebt')
  BY <1>1, <1>2, <1>3
<1> QED
  BY <1>4 DEF Covered

(* The counters stay, and so does what they count; or the batch closes.    *)
Calm ==
  /\ cnt' = cnt
  /\ \A i \in Items : stat'[i] = "done" <=> stat[i] = "done"
  /\ status' # "cancelled" => \A i \in Items : stat'[i] \in {"failed", "skipped"} => stat'[i] = stat[i]
  /\ status = "cancelled" => status' = "cancelled"
  /\ status' \in {"done", "partial"} => status' = status
  /\ status' = "partial" => \A i \in Items : stat'[i] = "running" => stat[i] = "running"

LEMMA CalmKeeps ==
  ASSUME TypeOK, TypeOK', CInv, CommandsQuiet, Calm
  PROVE  CInv'
<1>1. InStatus("done")' = InStatus("done")
  BY DEF Calm, InStatus
<1>2. \A x \in Windows : cmd'[x].at \in {"park", "bump"} => status' = "cancelled"
  BY DEF CommandsQuiet, CInv, Calm
<1>3. ClosedIsTrue'
  BY DEF ClosedIsTrue, CInv, Calm, InStatus
<1>4. Covered'
  <2> SUFFICES ASSUME status' # "cancelled" PROVE Covered'
    BY DEF Covered
  <2>1. /\ Cardinality(InStatus("failed")') <= Cardinality(InStatus("failed"))
        /\ Cardinality(InStatus("skipped")') <= Cardinality(InStatus("skipped"))
        /\ Cardinality(InStatus("failed")') \in Nat /\ Cardinality(InStatus("skipped")') \in Nat
    BY FewerInStatus DEF Calm
  <2>2. Cardinality(InStatus("failed")) \in Nat /\ Cardinality(InStatus("skipped")) \in Nat
    BY StatusCounts
  <2>3. cnt'.failed = cnt.failed + 0 /\ cnt'.skipped = cnt.skipped + 0 /\ status # "cancelled"
    BY DEF Calm, TypeOK, TablesTypeOK
  <2> QED
    BY <2>1, <2>2, <2>3, CoveredStays
<1> QED
  BY <1>1, <1>2, <1>3, <1>4, DebtsStay DEF CInv, Calm

(* Statements that stop at the rows, or at the header's status.            *)
LEMMA CalmRows ==
  ASSUME TypeOK, CInv,
         \/ UNCHANGED tables
         \/ \E w, S : ReleaseStmt(w, S)
         \/ \E w \in Workers : ClaimStmt(w)
         \/ \E i \in Items : \E c : stat[i] # "done" /\ RequeueStmt(i, c)
         \/ ParkStmt /\ status = "cancelled"
         \/ ClearStmt \/ CloseStuckStmt
         \/ \E from, to : to \in {"paused", "running", "cancelled"} /\ from \subseteq Live /\ SetStatusStmt(from, to)
  PROVE  Calm
<1>1. CASE UNCHANGED tables
  BY <1>1 DEF tables, header, rows, Calm
<1>2. ASSUME NEW w, NEW S, ReleaseStmt(w, S) PROVE Calm
  BY <1>2 DEF ReleaseStmt, SetTo, header, Calm, TypeOK, TablesTypeOK
<1>3. ASSUME NEW w \in Workers, ClaimStmt(w) PROVE Calm
  <2>1. /\ cnt' = cnt /\ stat' = SetTo(Claimable, "running")
        /\ status' = IF status = "pending" THEN "running" ELSE status
    BY <1>3 DEF ClaimStmt
  <2>2. status = "partial" => Claimable = {}
    BY DEF Claimable
  <2>3. \A i \in Items : stat'[i] = IF i \in Claimable THEN "running" ELSE stat[i]
    BY <2>1 DEF SetTo
  <2>4. \A i \in Claimable : stat[i] = "queued"
    BY ClaimableRows
  <2> QED
    BY <2>1, <2>2, <2>3, <2>4 DEF Calm
<1>4. ASSUME NEW i \in Items, NEW c, stat[i] # "done", RequeueStmt(i, c) PROVE Calm
  BY <1>4 DEF RequeueStmt, SetTo, header, Calm, TypeOK, TablesTypeOK
<1>5. CASE ParkStmt /\ status = "cancelled"
  BY <1>5 DEF ParkStmt, SetTo, InStatus, header, Calm, TypeOK, TablesTypeOK
<1>6. CASE ClearStmt
  <2>1. CASE status \in Live
    BY <1>6, <2>1 DEF ClearStmt, SetTo, InStatus, Calm
  <2>2. CASE status \notin Live
    BY <1>6, <2>2 DEF ClearStmt, Calm
  <2> QED
    BY <2>1, <2>2
<1>7. CASE CloseStuckStmt
  BY <1>7 DEF CloseStuckStmt, rows, Calm
<1>8. ASSUME NEW from, NEW to, to \in {"paused", "running", "cancelled"}, from \subseteq Live, SetStatusStmt(from, to)
      PROVE  Calm
  BY <1>8 DEF SetStatusStmt, Live, rows, Calm
<1> QED
  BY <1>1, <1>2, <1>3, <1>4, <1>5, <1>6, <1>7, <1>8

(* A row is recorded as done: there is one while the batch is not closed.  *)
LEMMA DoneCounts ==
  ASSUME TypeOK, TypeOK', CInv, CommandsQuiet, NEW i \in Items, DoneStmt(i)
  PROVE  CInv'
<1>1. /\ stat[i] = "running" /\ status' = status /\ cnt' = [cnt EXCEPT !.done = @ + 1]
      /\ \A j \in Items : stat'[j] = IF j = i THEN "done" ELSE stat[j]
  BY DEF DoneStmt, SetTo
<1>2. status \notin {"done", "partial"}
  BY <1>1 DEF CInv, ClosedIsTrue, InStatus
<1>3. cnt'.done = cnt.done + 1 /\ cnt'.failed = cnt.failed /\ cnt'.skipped = cnt.skipped
  BY <1>1 DEF TypeOK, TablesTypeOK
<1>4. InStatus("done")' = InStatus("done") \cup {i} /\ i \notin InStatus("done")
  BY <1>1 DEF InStatus
<1>5. cnt'.done = Cardinality(InStatus("done")')
  BY <1>3, <1>4, StatusCounts, FS_AddElement DEF CInv
<1>6. /\ Cardinality(InStatus("failed")') <= Cardinality(InStatus("failed"))
      /\ Cardinality(InStatus("skipped")') <= Cardinality(InStatus("skipped"))
      /\ Cardinality(InStatus("failed")') \in Nat /\ Cardinality(InStatus("skipped")') \in Nat
      /\ Cardinality(InStatus("failed")) \in Nat /\ Cardinality(InStatus("skipped")) \in Nat
  BY <1>1, FewerInStatus, StatusCounts
<1>7. Covered'
  <2>1. CASE status = "cancelled"
    BY <1>1, <2>1 DEF Covered
  <2>2. CASE status # "cancelled"
    <3>1. cnt.failed \in Int /\ cnt.skipped \in Int
      BY DEF TypeOK, TablesTypeOK
    <3>2. cnt'.failed = cnt.failed + 0 /\ cnt'.skipped = cnt.skipped + 0
      BY <1>3, <3>1
    <3>3. /\ Cardinality(InStatus("failed")') <= Cardinality(InStatus("failed")) + 0
          /\ Cardinality(InStatus("skipped")') <= Cardinality(InStatus("skipped")) + 0
      BY <1>6
    <3> QED
      BY <1>6, <2>2, <3>2, <3>3, CoveredStays
  <2> QED
    BY <2>1, <2>2
<1>8. ClosedIsTrue'
  BY <1>1, <1>2 DEF ClosedIsTrue
<1> QED
  BY <1>1, <1>5, <1>7, <1>8, DebtsStay DEF CInv, CommandsQuiet

LEMMA NobodyDoomed == Doomed({}) = {}
<1>1. {} \in SUBSET Items /\ \A j \in Items : After[j] \in {} \cup {} => j \in {}
  OBVIOUS
<1> QED
  BY <1>1 DEF Doomed

(* Rows fail, and those below them are skipped.                            *)
LEMMA FailCounts ==
  ASSUME TypeOK, TypeOK', CInv, CommandsQuiet, NEW F \in SUBSET Items,
         \A i \in F : stat[i] = "running", NEW c, NEW counted \in BOOLEAN, FailRows(F, c, counted),
         counted \/ status \notin Live
  PROVE  CInv'
<1> DEFINE S == {i \in Doomed(F) : stat[i] = "queued"}
<1>1. /\ status' = status
      /\ \A i \in Items : stat'[i] = IF i \in F THEN "failed" ELSE IF i \in S THEN "skipped" ELSE stat[i]
      /\ cnt' = IF counted THEN Counted(Cardinality(F), Cardinality(S)) ELSE cnt
  BY DEF FailRows
<1>2. S \in SUBSET Items /\ (\A i \in S : stat[i] = "queued") /\ S \cap F = {}
  BY DEF Doomed
<1>3. Cardinality(F) \in Nat /\ Cardinality(S) \in Nat
  BY <1>2, RowCounts
<1> HIDE DEF S
<1>4. InStatus("done")' = InStatus("done")
  BY <1>1, <1>2 DEF InStatus
<1>5. cnt \in [done : Int, failed : Int, skipped : Int]
  BY DEF TypeOK, TablesTypeOK
<1>6. ClosedIsTrue'
  BY <1>1, <1>4 DEF ClosedIsTrue, CInv, InStatus
<1>7. ASSUME counted
      PROVE  /\ cnt'.done = cnt.done /\ cnt'.failed = cnt.failed + Cardinality(F)
             /\ cnt'.skipped = cnt.skipped + Cardinality(S)
  BY <1>1, <1>3, <1>5, <1>7 DEF Counted
<1>8. cnt'.done = cnt.done
  BY <1>1, <1>7
<1>9. Covered'
  <2>1. CASE counted /\ status # "cancelled"
    <3>1. /\ Cardinality(InStatus("failed")') <= Cardinality(InStatus("failed")) + Cardinality(F)
          /\ Cardinality(InStatus("failed")') \in Nat
      BY <1>1, MoreInStatus
    <3>2. /\ Cardinality(InStatus("skipped")') <= Cardinality(InStatus("skipped")) + Cardinality(S)
          /\ Cardinality(InStatus("skipped")') \in Nat
      BY <1>1, <1>2, MoreInStatus
    <3> QED
      BY <1>3, <1>7, <2>1, <3>1, <3>2, CoveredStays
  <2>2. CASE ~counted /\ status \in {"done", "partial"}
    <3>1. F = {}
      BY <2>2 DEF CInv, ClosedIsTrue, InStatus
    <3>2. S = {}
      BY <3>1, NobodyDoomed DEF S
    <3>3. /\ Cardinality(InStatus("failed")') <= Cardinality(InStatus("failed"))
          /\ Cardinality(InStatus("skipped")') <= Cardinality(InStatus("skipped"))
          /\ Cardinality(InStatus("failed")') \in Nat /\ Cardinality(InStatus("skipped")') \in Nat
          /\ Cardinality(InStatus("failed")) \in Nat /\ Cardinality(InStatus("skipped")) \in Nat
      BY <1>1, <3>1, <3>2, FewerInStatus, StatusCounts
    <3>4. cnt'.failed = cnt.failed + 0 /\ cnt'.skipped = cnt.skipped + 0
      BY <1>1, <1>5, <2>2
    <3>5. /\ Cardinality(InStatus("failed")') <= Cardinality(InStatus("failed")) + 0
          /\ Cardinality(InStatus("skipped")') <= Cardinality(InStatus("skipped")) + 0
      BY <3>3
    <3> QED
      BY <2>2, <3>3, <3>4, <3>5, CoveredStays
  <2>3. CASE status = "cancelled"
    BY <1>1, <2>3 DEF Covered
  <2> QED
    BY <2>1, <2>2, <2>3 DEF TypeOK, TablesTypeOK, BatchStatus, Live
<1> QED
  BY <1>1, <1>4, <1>6, <1>8, <1>9, DebtsStay DEF CInv, CommandsQuiet

(* The verdict.                                                            *)
LEMMA FinalizeCounts ==
  ASSUME TypeOK, TypeOK', CInv, CommandsQuiet, FinalizeStmt
  PROVE  CInv'
<1>1. cnt' = cnt /\ stat' = stat
  BY DEF FinalizeStmt, rows
<1>2. CASE ~Finalizes
  <2>1. Calm
    BY <1>1, <1>2 DEF FinalizeStmt, Calm
  <2> QED
    BY <2>1, CalmKeeps
<1>3. CASE Finalizes
  <2>1. /\ status = "running" /\ \A i \in Items : stat[i] \notin {"queued", "running"}
        /\ status' = IF cnt.failed + cnt.skipped > 0 THEN "partial" ELSE "done"
    BY <1>3 DEF FinalizeStmt, Finalizes
  <2>2. /\ InStatus("done")' = InStatus("done") /\ InStatus("failed")' = InStatus("failed")
        /\ InStatus("skipped")' = InStatus("skipped") /\ InStatus("running")' = {}
    BY <1>1, <2>1 DEF InStatus
  <2>3. /\ Cardinality(InStatus("failed")) \in Nat /\ Cardinality(InStatus("skipped")) \in Nat
        /\ Cardinality(FailedDebt) \in Nat /\ Cardinality(SkippedDebt) \in Nat
        /\ cnt.failed \in Int /\ cnt.skipped \in Int
    BY StatusCounts, FS_CardinalityType DEF CInv, TypeOK, TablesTypeOK
  <2>4. /\ cnt.failed >= Cardinality(InStatus("failed")) + Cardinality(FailedDebt)
        /\ cnt.skipped >= Cardinality(InStatus("skipped")) + Cardinality(SkippedDebt)
    BY <2>1 DEF CInv, Covered
  <2>5. ASSUME status' = "done" PROVE InStatus("done") = Items
    <3>1. Cardinality(InStatus("failed")) = 0 /\ Cardinality(InStatus("skipped")) = 0
      BY <2>1, <2>3, <2>4, <2>5
    <3>2. InStatus("failed") = {} /\ InStatus("skipped") = {}
      BY <3>1, StatusCounts, FS_EmptySet
    <3>3. ASSUME NEW i \in Items PROVE stat[i] = "done"
      <4>1. stat[i] # "failed" /\ stat[i] # "skipped"
        BY <3>2 DEF InStatus
      <4> QED
        BY <2>1, <4>1 DEF TypeOK, TablesTypeOK, ItemStatus
    <3> QED
      BY <3>3 DEF InStatus
  <2>6. ClosedIsTrue'
    BY <2>2, <2>5 DEF ClosedIsTrue
  <2>7. Covered'
    <3>1. cnt'.failed = cnt.failed + 0 /\ cnt'.skipped = cnt.skipped + 0 /\ status # "cancelled"
      BY <1>1, <2>1, <2>3
    <3>2. /\ Cardinality(InStatus("failed")') <= Cardinality(InStatus("failed")) + 0
          /\ Cardinality(InStatus("skipped")') <= Cardinality(InStatus("skipped")) + 0
          /\ Cardinality(InStatus("failed")') \in Nat /\ Cardinality(InStatus("skipped")') \in Nat
      BY <2>2, <2>3
    <3> QED
      BY <3>1, <3>2, CoveredStays
  <2>8. \A x \in Windows : cmd'[x].at \notin {"park", "bump"}
    BY <2>1 DEF CommandsQuiet, CInv
  <2> QED
    BY <1>1, <2>2, <2>6, <2>7, <2>8, DebtsStay DEF CInv
<1> QED
  BY <1>2, <1>3

(* One window comes to owe more, or less, or something again.              *)
LEMMA DebtMoves ==
  ASSUME NEW f \in [Windows -> Nat], NEW g \in [Windows -> Nat], NEW x \in Windows,
         \A y \in Windows \ {x} : g[y] = f[y], IsFiniteSet(Debt(f)),
         f[x] = 0 \/ g[x] = 0 \/ f[x] = g[x]
  PROVE  /\ IsFiniteSet(Debt(g)) /\ Cardinality(Debt(f)) \in Nat /\ Cardinality(Debt(g)) \in Nat
         /\ f[x] \in Nat /\ g[x] \in Nat
         /\ Cardinality(Debt(g)) = Cardinality(Debt(f)) + g[x] - f[x]
<1>0. f[x] \in Nat /\ g[x] \in Nat
  OBVIOUS
<1>1. CASE f[x] = 0
  <2>1. /\ IsFiniteSet(Debt(g)) /\ Cardinality(Debt(f)) \in Nat
        /\ Cardinality(Debt(g)) = Cardinality(Debt(f)) + g[x]
    BY <1>1, DebtMore
  <2> QED
    BY <1>0, <1>1, <2>1, FS_CardinalityType
<1>2. CASE g[x] = 0
  <2>1. \A y \in Windows \ {x} : f[y] = g[y]
    OBVIOUS
  <2>2. /\ IsFiniteSet(Debt(g)) /\ Cardinality(Debt(g)) \in Nat
        /\ Cardinality(Debt(f)) = Cardinality(Debt(g)) + f[x]
    BY <1>2, <2>1, DebtMore
  <2> QED
    BY <1>0, <1>2, <2>2, FS_CardinalityType
<1>3. CASE f[x] = g[x]
  <2>1. g = f
    BY <1>3
  <2> QED
    BY <1>0, <1>3, <2>1, FS_CardinalityType
<1> QED
  BY <1>1, <1>2, <1>3

LEMMA OneCommand ==
  ASSUME TypeOK, TypeOK', CInv, NEW x \in Windows, \A y \in Windows \ {x} : cmd'[y] = cmd[y],
         NEW n, n = OwesFailed(cmd[x]), NEW p, p = OwesFailed(cmd'[x]), n = 0 \/ p = 0 \/ n = p,
         NEW m, m = OwesSkipped(cmd[x]), NEW q, q = OwesSkipped(cmd'[x]), m = 0 \/ q = 0 \/ m = q
  PROVE  /\ IsFiniteSet(FailedDebt') /\ IsFiniteSet(SkippedDebt')
         /\ n \in Nat /\ p \in Nat /\ m \in Nat /\ q \in Nat
         /\ Cardinality(FailedDebt) \in Nat /\ Cardinality(FailedDebt') \in Nat
         /\ Cardinality(SkippedDebt) \in Nat /\ Cardinality(SkippedDebt') \in Nat
         /\ Cardinality(FailedDebt') = Cardinality(FailedDebt) + p - n
         /\ Cardinality(SkippedDebt') = Cardinality(SkippedDebt) + q - m
<1> DEFINE f == [y \in Windows |-> OwesFailed(cmd[y])]
           s == [y \in Windows |-> OwesSkipped(cmd[y])]
           g == [y \in Windows |-> OwesFailed(cmd'[y])]
           t == [y \in Windows |-> OwesSkipped(cmd'[y])]
<1>1. f \in [Windows -> Nat] /\ s \in [Windows -> Nat] /\ g \in [Windows -> Nat] /\ t \in [Windows -> Nat]
  <2>1. \A y \in Windows : cmd[y].n \in Nat /\ cmd[y].m \in Nat /\ cmd'[y].n \in Nat /\ cmd'[y].m \in Nat
    BY DEF TypeOK, Commands
  <2> QED
    BY <2>1 DEF OwesFailed, OwesSkipped
<1>2. /\ f[x] = n /\ g[x] = p /\ s[x] = m /\ t[x] = q
      /\ \A y \in Windows \ {x} : g[y] = f[y] /\ t[y] = s[y]
  OBVIOUS
<1>3. /\ FailedDebt = Debt(f) /\ SkippedDebt = Debt(s) /\ FailedDebt' = Debt(g) /\ SkippedDebt' = Debt(t)
      /\ IsFiniteSet(FailedDebt) /\ IsFiniteSet(SkippedDebt)
  BY DEF FailedDebt, SkippedDebt, Debt, CInv
<1> HIDE DEF f, s, g, t
<1>4. /\ IsFiniteSet(Debt(g)) /\ Cardinality(Debt(f)) \in Nat /\ Cardinality(Debt(g)) \in Nat
      /\ f[x] \in Nat /\ g[x] \in Nat
      /\ Cardinality(Debt(g)) = Cardinality(Debt(f)) + g[x] - f[x]
  BY <1>1, <1>2, <1>3, DebtMoves
<1>5. /\ IsFiniteSet(Debt(t)) /\ Cardinality(Debt(s)) \in Nat /\ Cardinality(Debt(t)) \in Nat
      /\ s[x] \in Nat /\ t[x] \in Nat
      /\ Cardinality(Debt(t)) = Cardinality(Debt(s)) + t[x] - s[x]
  BY <1>1, <1>2, <1>3, DebtMoves
<1> QED
  BY <1>2, <1>3, <1>4, <1>5

(* Rows R of status s are put back into the queue, and owed.               *)
LEMMA PutBack ==
  ASSUME NEW s, NEW R \in SUBSET InStatus(s), RequeueRows(R), s # "queued"
  PROVE  /\ Cardinality(InStatus(s)') = Cardinality(InStatus(s)) - Cardinality(R)
         /\ Cardinality(InStatus(s)') \in Nat /\ Cardinality(InStatus(s)) \in Nat
         /\ Cardinality(R) \in Nat
         /\ \A r : r \notin {s, "queued"} => InStatus(r)' = InStatus(r)
<1>1. R \in SUBSET Items
  BY DEF InStatus
<1>2. \A i \in Items : stat'[i] = IF i \in R THEN "queued" ELSE stat[i]
  BY DEF RequeueRows, SetTo
<1>3. Cardinality(InStatus(s)') = Cardinality(InStatus(s)) - Cardinality(R)
  <2>1. InStatus(s)' = InStatus(s) \ R /\ InStatus(s) \cap R = R
    <3>1. ASSUME NEW i \in InStatus(s) PROVE i \in InStatus(s)' <=> i \notin R
      BY <1>2 DEF InStatus
    <3>2. ASSUME NEW i \in InStatus(s)' PROVE i \in InStatus(s)
      BY <1>2 DEF InStatus
    <3> QED
      BY <3>1, <3>2
  <2>2. IsFiniteSet(InStatus(s))
    BY StatusCounts
  <2> QED
    BY <2>1, <2>2, FS_Difference
<1>4. InStatus(s)' \in SUBSET Items
  BY DEF InStatus
<1>5. ASSUME NEW r, r \notin {s, "queued"} PROVE InStatus(r)' = InStatus(r)
  <2>1. \A i \in Items : stat'[i] = r <=> stat[i] = r
    BY <1>2, <1>5 DEF InStatus
  <2> QED
    BY <2>1 DEF InStatus
<1> QED
  BY <1>1, <1>3, <1>4, <1>5, StatusCounts, RowCounts

LEMMA RequeueFailedCounts ==
  ASSUME TypeOK, TypeOK', CInv, NEW x \in Windows, RequeueFailed(x)
  PROVE  CInv'
<1> DEFINE R == InStatus("failed")
           c == IF R = {} THEN Idle ELSE [cmd[x] EXCEPT !.at = "revive", !.n = Cardinality(R)]
<1>1. cmd[x].at = "requeue" /\ RequeueRows(R) /\ UNCHANGED header /\ cmd' = [cmd EXCEPT ![x] = c]
  BY DEF RequeueFailed, RetryRequeueStmt, RequeueRows, Proceed
<1>2. /\ Cardinality(InStatus("failed")') = Cardinality(InStatus("failed")) - Cardinality(R)
      /\ Cardinality(InStatus("failed")') \in Nat /\ Cardinality(InStatus("failed")) \in Nat
      /\ InStatus("done")' = InStatus("done") /\ InStatus("skipped")' = InStatus("skipped")
      /\ InStatus("running")' = InStatus("running")
  <2>1. R \in SUBSET InStatus("failed")
    OBVIOUS
  <2>2. /\ Cardinality(InStatus("failed")') = Cardinality(InStatus("failed")) - Cardinality(R)
        /\ Cardinality(InStatus("failed")') \in Nat /\ Cardinality(InStatus("failed")) \in Nat
        /\ \A r : r \notin {"failed", "queued"} => InStatus(r)' = InStatus(r)
    BY <1>1, <2>1, PutBack
  <2> QED
    BY <2>2
<1>3. /\ \A y \in Windows \ {x} : cmd'[y] = cmd[y]
      /\ cmd'[x] = c /\ cmd[x] \in Commands
  BY <1>1 DEF TypeOK
<1>4. c.at \in {"idle", "revive"} /\ OwesFailed(c) = Cardinality(R)
  <2>1. CASE R = {}
    BY <2>1, FS_EmptySet DEF Idle, OwesFailed
  <2>2. CASE R # {}
    BY <1>3, <2>2 DEF Commands, OwesFailed
  <2> QED
    BY <2>1, <2>2
<1> HIDE DEF c
<1>5. /\ OwesFailed(cmd[x]) = 0 /\ OwesSkipped(cmd[x]) = 0 /\ OwesSkipped(cmd'[x]) = 0
      /\ OwesFailed(cmd'[x]) = Cardinality(R)
  BY <1>1, <1>3, <1>4 DEF OwesFailed, OwesSkipped
<1>6. /\ IsFiniteSet(FailedDebt') /\ IsFiniteSet(SkippedDebt')
      /\ Cardinality(FailedDebt) \in Nat /\ Cardinality(FailedDebt') \in Nat
      /\ Cardinality(SkippedDebt) \in Nat /\ Cardinality(SkippedDebt') \in Nat
      /\ Cardinality(FailedDebt') = Cardinality(FailedDebt) + Cardinality(R) - 0
      /\ Cardinality(SkippedDebt') = Cardinality(SkippedDebt) + 0 - 0
  BY <1>3, <1>5, OneCommand
<1>7. cnt' = cnt /\ status' = status
  BY <1>1 DEF header
<1>8. cnt.failed \in Int /\ cnt.skipped \in Int /\ Cardinality(InStatus("skipped")) \in Nat
  BY StatusCounts DEF TypeOK, TablesTypeOK
<1>9. Covered'
  BY <1>2, <1>6, <1>7, <1>8 DEF CInv, Covered
<1>10. ClosedIsTrue'
  BY <1>2, <1>7 DEF ClosedIsTrue, CInv
<1>11. \A y \in Windows : cmd'[y].at \in {"park", "bump"} => status' = "cancelled"
  BY <1>3, <1>4, <1>7 DEF CInv
<1> QED
  BY <1>2, <1>6, <1>7, <1>9, <1>10, <1>11 DEF CInv

LEMMA ReviveCounts ==
  ASSUME TypeOK, TypeOK', CInv, NEW x \in Windows, Revive(x)
  PROVE  CInv'
<1> DEFINE R == Revived
           c == [cmd[x] EXCEPT !.at = "reopen", !.m = Cardinality(R)]
<1>1. cmd[x].at = "revive" /\ RequeueRows(R) /\ UNCHANGED header /\ cmd' = [cmd EXCEPT ![x] = c]
  BY DEF Revive, ReviveStmt, RequeueRows, Proceed
<1>2. /\ Cardinality(InStatus("skipped")') = Cardinality(InStatus("skipped")) - Cardinality(R)
      /\ Cardinality(InStatus("skipped")') \in Nat /\ Cardinality(InStatus("skipped")) \in Nat
      /\ InStatus("done")' = InStatus("done") /\ InStatus("failed")' = InStatus("failed")
      /\ InStatus("running")' = InStatus("running")
  <2>1. R \in SUBSET InStatus("skipped")
    BY RevivedRows
  <2>2. /\ Cardinality(InStatus("skipped")') = Cardinality(InStatus("skipped")) - Cardinality(R)
        /\ Cardinality(InStatus("skipped")') \in Nat /\ Cardinality(InStatus("skipped")) \in Nat
        /\ \A r : r \notin {"skipped", "queued"} => InStatus(r)' = InStatus(r)
    BY <1>1, <2>1, PutBack
  <2> QED
    BY <2>2
<1>3. /\ \A y \in Windows \ {x} : cmd'[y] = cmd[y]
      /\ cmd'[x] = c /\ cmd[x] \in Commands
  BY <1>1 DEF TypeOK
<1> HIDE DEF R
<1>4. c.at = "reopen" /\ c.n = cmd[x].n /\ c.m = Cardinality(R)
  BY <1>3 DEF Commands
<1> HIDE DEF c
<1>5. /\ OwesFailed(cmd'[x]) = OwesFailed(cmd[x]) /\ OwesSkipped(cmd[x]) = 0
      /\ OwesSkipped(cmd'[x]) = Cardinality(R)
  BY <1>1, <1>3, <1>4 DEF OwesFailed, OwesSkipped
<1>6. /\ IsFiniteSet(FailedDebt') /\ IsFiniteSet(SkippedDebt') /\ OwesFailed(cmd[x]) \in Nat
      /\ Cardinality(FailedDebt) \in Nat /\ Cardinality(FailedDebt') \in Nat
      /\ Cardinality(SkippedDebt) \in Nat /\ Cardinality(SkippedDebt') \in Nat
      /\ Cardinality(FailedDebt') = Cardinality(FailedDebt) + OwesFailed(cmd[x]) - OwesFailed(cmd[x])
      /\ Cardinality(SkippedDebt') = Cardinality(SkippedDebt) + Cardinality(R) - 0
  BY <1>3, <1>5, OneCommand
<1>7. cnt' = cnt /\ status' = status
  BY <1>1 DEF header
<1>8. cnt.failed \in Int /\ cnt.skipped \in Int /\ Cardinality(InStatus("failed")) \in Nat
  BY StatusCounts DEF TypeOK, TablesTypeOK
<1>9. Covered'
  <2>1. SUFFICES ASSUME status # "cancelled" PROVE Covered'
    BY <1>7 DEF Covered
  <2>2. /\ cnt.failed >= Cardinality(InStatus("failed")) + Cardinality(FailedDebt)
        /\ cnt.skipped >= Cardinality(InStatus("skipped")) + Cardinality(SkippedDebt)
    BY <2>1 DEF CInv, Covered
  <2>3. Cardinality(R) \in Nat
    BY RevivedRows, RowCounts DEF R, InStatus
  <2>4. /\ cnt.failed >= Cardinality(InStatus("failed")) + Cardinality(FailedDebt')
        /\ cnt.skipped >= Cardinality(InStatus("skipped")') + Cardinality(SkippedDebt')
    BY <1>2, <1>6, <1>8, <2>2, <2>3
  <2> QED
    BY <1>2, <1>7, <2>4 DEF Covered
<1>10. ClosedIsTrue'
  BY <1>2, <1>7 DEF ClosedIsTrue, CInv
<1>11. \A y \in Windows : cmd'[y].at \in {"park", "bump"} => status' = "cancelled"
  BY <1>3, <1>4, <1>7 DEF CInv
<1> QED
  BY <1>2, <1>6, <1>7, <1>9, <1>10, <1>11 DEF CInv

LEMMA ReopenCounts ==
  ASSUME TypeOK, TypeOK', CInv, NEW x \in Windows, Reopen(x)
  PROVE  CInv'
<1> DEFINE c == IF cmd[x].resume THEN [Idle EXCEPT !.at = "run", !.resume = TRUE] ELSE Idle
<1>1. /\ cmd[x].at = "reopen" /\ ReopenStmt(cmd[x].n, cmd[x].m) /\ stat' = stat
      /\ cmd' = [cmd EXCEPT ![x] = c]
  BY DEF Reopen, ReopenStmt, Proceed, rows
<1>2. \A r : InStatus(r)' = InStatus(r)
  BY <1>1 DEF InStatus
<1>3. /\ \A y \in Windows \ {x} : cmd'[y] = cmd[y]
      /\ cmd'[x] = c /\ cmd[x] \in Commands
  BY <1>1 DEF TypeOK
<1>4. c.at \in {"run", "idle"}
  BY DEF Idle
<1> HIDE DEF c
<1>5. CASE status \notin {"partial", "paused"}
  <2>1. UNCHANGED <<cnt, status>>
    BY <1>1, <1>5 DEF ReopenStmt, header
  <2>2. Calm
    BY <1>1, <2>1 DEF Calm
  <2>3. CommandsQuiet
    BY <1>3, <1>4 DEF CommandsQuiet
  <2> QED
    BY <2>2, <2>3, CalmKeeps
<1>6. CASE status \in {"partial", "paused"}
  <2> DEFINE n == cmd[x].n
             m == cmd[x].m
  <2>1. /\ status' = "running" /\ cnt' = Counted(-n, -m)
        /\ cnt \in [done : Int, failed : Int, skipped : Int] /\ n \in Nat /\ m \in Nat
    BY <1>1, <1>3, <1>6 DEF ReopenStmt, TypeOK, TablesTypeOK, Commands
  <2>2. OwesFailed(cmd[x]) = n /\ OwesSkipped(cmd[x]) = m /\ OwesFailed(cmd'[x]) = 0 /\ OwesSkipped(cmd'[x]) = 0
    BY <1>1, <1>3, <1>4 DEF OwesFailed, OwesSkipped
  <2> HIDE DEF n, m
  <2>3. cnt'.done = cnt.done /\ cnt'.failed = cnt.failed - n /\ cnt'.skipped = cnt.skipped - m
    BY <2>1 DEF Counted
  <2>4. /\ IsFiniteSet(FailedDebt') /\ IsFiniteSet(SkippedDebt')
        /\ Cardinality(FailedDebt) \in Nat /\ Cardinality(FailedDebt') \in Nat
        /\ Cardinality(SkippedDebt) \in Nat /\ Cardinality(SkippedDebt') \in Nat
        /\ Cardinality(FailedDebt') = Cardinality(FailedDebt) + 0 - n
        /\ Cardinality(SkippedDebt') = Cardinality(SkippedDebt) + 0 - m
    BY <1>3, <2>2, OneCommand
  <2>5. /\ cnt.failed >= Cardinality(InStatus("failed")) + Cardinality(FailedDebt)
        /\ cnt.skipped >= Cardinality(InStatus("skipped")) + Cardinality(SkippedDebt)
        /\ cnt.failed \in Int /\ cnt.skipped \in Int
    BY <1>6, <2>1 DEF CInv, Covered
  <2>6. Cardinality(InStatus("failed")) \in Nat /\ Cardinality(InStatus("skipped")) \in Nat
    BY StatusCounts
  <2>7. Covered'
    <3>1. /\ cnt'.failed >= Cardinality(InStatus("failed")) + Cardinality(FailedDebt')
          /\ cnt'.skipped >= Cardinality(InStatus("skipped")) + Cardinality(SkippedDebt')
      BY <2>1, <2>3, <2>4, <2>5, <2>6
    <3> QED
      BY <1>2, <3>1 DEF Covered
  <2>8. ClosedIsTrue'
    BY <2>1 DEF ClosedIsTrue
  <2>9. \A y \in Windows : cmd'[y].at \notin {"park", "bump"}
    BY <1>3, <1>4, <1>6 DEF CInv
  <2> QED
    BY <1>2, <2>3, <2>4, <2>7, <2>8, <2>9 DEF CInv
<1> QED
  BY <1>5, <1>6

(* The commands of the user, and their statements.                         *)
LEMMA CommandCounts ==
  ASSUME TypeOK, TypeOK', CInv, NEW x \in Windows,
         Command(x) \/ CommandStep(x) \/ CommandHiccup(x)
  PROVE  CInv'
<1>1. ASSUME NEW c, cmd' = [cmd EXCEPT ![x] = c], c.at \notin {"revive", "reopen"},
             c.at \in {"park", "bump"} => status' = "cancelled"
      PROVE  CommandsQuiet
  BY <1>1 DEF CommandsQuiet, TypeOK
<1>2. \A s \in {"park", "stuck", "requeue", "run"} : [cmd[x] EXCEPT !.at = s].at = s
  BY DEF TypeOK, Commands
<1>3. ASSUME NEW s \in {"park", "stuck", "requeue", "run"}, At(x, s), s = "park" => status' = "cancelled"
      PROVE  CommandsQuiet
  <2> DEFINE c == [cmd[x] EXCEPT !.at = s]
  <2>1. cmd' = [cmd EXCEPT ![x] = c] /\ c.at = s
    BY <1>2, <1>3 DEF At, Proceed
  <2> HIDE DEF c
  <2> QED
    BY <1>1, <1>3, <2>1
<1>4. Proceed(x, Idle) => CommandsQuiet
  BY <1>1 DEF Proceed, Idle
<1>5. UNCHANGED cmd => CommandsQuiet
  BY DEF CommandsQuiet
<1>6. CASE Command(x)
  <2>1. CASE Pause(x)
    BY <1>5, <2>1, CalmRows, CalmKeeps DEF Pause, Live
  <2>2. CASE Unpause(x)
    BY <1>5, <2>2, CalmRows, CalmKeeps DEF Unpause, Live
  <2>3. CASE Cancel(x)
    <3>1. SetStatusStmt(Live, "cancelled") /\ At(x, "park") /\ status' = "cancelled"
      BY <2>3 DEF Cancel, SetStatusStmt
    <3>2. CommandsQuiet
      BY <1>3, <3>1
    <3> QED
      BY <3>1, <3>2, CalmRows, CalmKeeps
  <2>4. CASE Clear(x)
    <3>1. ClearStmt /\ CommandsQuiet
      BY <1>3, <2>4 DEF Clear
    <3> QED
      BY <3>1, CalmRows, CalmKeeps
  <2>5. CASE PressRetry(x)
    <3>1. UNCHANGED tables /\ CommandsQuiet
      BY <1>3, <2>5 DEF PressRetry
    <3> QED
      BY <3>1, CalmRows, CalmKeeps
  <2>6. ASSUME NEW via \in {"chat", "tool"}, Resume(x, via) PROVE CInv'
    <3> DEFINE a == IF cnt.failed > 0 THEN "requeue" ELSE IF status = "paused" THEN "unpause" ELSE "run"
               c == [Idle EXCEPT !.resume = TRUE, !.at = a]
    <3>1. UNCHANGED tables /\ cmd' = [cmd EXCEPT ![x] = c] /\ c.at \in {"requeue", "unpause", "run"}
      BY <2>6 DEF Resume, Proceed, Idle
    <3> HIDE DEF c
    <3>2. CommandsQuiet
      BY <1>1, <3>1
    <3> QED
      BY <3>1, <3>2, CalmRows, CalmKeeps
  <2> QED
    BY <1>6, <2>1, <2>2, <2>3, <2>4, <2>5, <2>6 DEF Command
<1>7. CASE CommandHiccup(x)
  BY <1>4, <1>7, CalmRows, CalmKeeps DEF CommandHiccup
<1>8. CASE CommandStep(x)
  <2>1. CASE Park(x)
    <3> DEFINE c == [cmd[x] EXCEPT !.at = "bump", !.n = Cardinality(InStatus("queued"))]
    <3>1. ParkStmt /\ status = "cancelled" /\ status' = status /\ cmd' = [cmd EXCEPT ![x] = c]
      BY <2>1 DEF Park, Proceed, CInv, ParkStmt, header
    <3>2. c.at = "bump"
      BY DEF TypeOK, Commands
    <3> HIDE DEF c
    <3>3. CommandsQuiet
      BY <1>1, <3>1, <3>2
    <3> QED
      BY <3>1, <3>3, CalmRows, CalmKeeps
  <2>2. CASE Bump(x)
    <3>1. /\ status = "cancelled" /\ status' = status /\ stat' = stat /\ CommandsQuiet
          /\ cnt' = [cnt EXCEPT !.skipped = @ + cmd[x].n]
      BY <1>4, <2>2 DEF Bump, CInv, BumpSkippedStmt, rows
    <3>2. cnt'.done = cnt.done /\ InStatus("done")' = InStatus("done")
      BY <3>1 DEF TypeOK, TablesTypeOK, InStatus
    <3>3. Covered' /\ ClosedIsTrue'
      BY <3>1 DEF Covered, ClosedIsTrue
    <3> QED
      BY <3>1, <3>2, <3>3, DebtsStay DEF CInv, CommandsQuiet
  <2>3. CASE CloseStuck(x)
    <3>1. CloseStuckStmt /\ CommandsQuiet
      BY <1>4, <2>3 DEF CloseStuck
    <3> QED
      BY <3>1, CalmRows, CalmKeeps
  <2>4. CASE ResumePaused(x)
    <3>1. CASE status = "paused"
      <4>1. SetStatusStmt({"paused"}, "running") /\ {"paused"} \subseteq Live /\ CommandsQuiet
        BY <1>3, <2>4, <3>1 DEF ResumePaused, Live
      <4> QED
        BY <4>1, CalmRows, CalmKeeps
    <3>2. CASE status # "paused"
      <4>1. UNCHANGED tables /\ CommandsQuiet
        BY <1>4, <2>4, <3>2 DEF ResumePaused
      <4> QED
        BY <4>1, CalmRows, CalmKeeps
    <3> QED
      BY <3>1, <3>2
  <2>5. CASE StartRun(x)
    <3>1. UNCHANGED tables /\ CommandsQuiet
      BY <1>4, <2>5 DEF StartRun
    <3> QED
      BY <3>1, CalmRows, CalmKeeps
  <2> QED
    BY <1>8, <2>1, <2>2, <2>3, <2>4, <2>5, RequeueFailedCounts, ReviveCounts, ReopenCounts
    DEF CommandStep
<1> QED
  BY <1>6, <1>7, <1>8

(* The statements of the runs.                                             *)
LEMMA RunCounts ==
  ASSUME IInv, TypeOK', CInv, NEW w \in Workers, RunStep(w)
  PROVE  CInv'
<1>0. TypeOK
  BY DEF IInv
<1>1. ASSUME UNCHANGED tables, UNCHANGED cmd PROVE CInv'
  BY <1>0, <1>1, CalmRows, CalmKeeps DEF CommandsQuiet
<1>2. ASSUME FinalizeStmt, UNCHANGED cmd PROVE CInv'
  BY <1>0, <1>2, FinalizeCounts DEF CommandsQuiet
<1>3. CASE Recover(w)
  <2>1. /\ Stale \in SUBSET Items /\ (\A i \in Stale : stat[i] = "running")
        /\ (status \in Live) \in BOOLEAN /\ FailRows(Stale, "INTERRUPTED", status \in Live) /\ CommandsQuiet
    BY <1>3 DEF Stale, Recover, RecoverStmt, CommandsQuiet
  <2>2. CASE status \in Live
    <3>1. FailRows(Stale, "INTERRUPTED", TRUE)
      BY <2>1, <2>2 DEF FailRows
    <3> QED
      BY <1>0, <2>1, <3>1, FailCounts
  <2>3. CASE status \notin Live
    <3>1. FailRows(Stale, "INTERRUPTED", FALSE)
      BY <2>1, <2>3 DEF FailRows
    <3> QED
      BY <1>0, <2>1, <2>3, <3>1, FailCounts
  <2> QED
    BY <2>2, <2>3
<1>4. CASE Claim(w)
  <2>1. ClaimStmt(w) /\ CommandsQuiet
    BY <1>4 DEF Claim, CommandsQuiet
  <2> QED
    BY <1>0, <2>1, CalmRows, CalmKeeps
<1>5. ASSUME NEW S, ReleaseStmt(w, S), UNCHANGED cmd PROVE CInv'
  BY <1>0, <1>5, CalmRows, CalmKeeps DEF CommandsQuiet
<1>6. CASE Land(w)
  BY <1>1, <1>5, <1>6 DEF Land
<1>7. ASSUME NEW i \in Items, ItemStep(w, i) PROVE CInv'
  <2>1. CASE Executes(w, i) \/ CoolDown(w, i) \/ FailSelect(w, i)
    BY <1>1, <2>1 DEF Executes, ExecOk, ExecFail, CoolDown, FailSelect
  <2>2. CASE CoolStop(w, i)
    BY <1>5, <2>2 DEF CoolStop
  <2>3. CASE Done(w, i)
    BY <1>0, <1>1, <2>3, DoneCounts DEF Done, CommandsQuiet
  <2>4. CASE Requeue(w, i)
    <3>1. step[w][i] = "requeue" /\ RequeueStmt(i, job[w].why[i]) /\ UNCHANGED cmd
      BY <2>4 DEF Requeue
    <3>2. stat[i] # "done"
      BY <3>1 DEF IInv, PendingOwned, Pending, Owned
    <3> QED
      BY <1>0, <3>1, <3>2, CalmRows, CalmKeeps DEF CommandsQuiet
  <2>5. CASE Bury(w, i)
    <3>1. CASE stat[i] = "running"
      <4>1. FailRows({i}, job[w].why[i], TRUE) /\ CommandsQuiet
        BY <2>5, <3>1 DEF Bury, FailStmt, CommandsQuiet
      <4> QED
        BY <1>0, <3>1, <4>1, FailCounts
    <3>2. CASE stat[i] # "running"
      BY <1>1, <2>5, <3>2 DEF Bury
    <3> QED
      BY <3>1, <3>2
  <2>6. CASE Finish(w, i)
    BY <1>2, <2>6 DEF Finish
  <2> QED
    BY <1>7, <2>1, <2>2, <2>3, <2>4, <2>5, <2>6 DEF ItemStep
<1>8. CASE Settle(w)
  BY <1>2, <1>8 DEF Settle
<1>9. CASE Read(w) \/ Leave(w) \/ Launch(w) \/ BackOff(w) \/ Sync(w)
  BY <1>1, <1>9 DEF Read, Leave, Launch, BackOff, Sync
<1> QED
  BY <1>3, <1>4, <1>6, <1>7, <1>8, <1>9 DEF RunStep

LEMMA CountsInductive ==
  ASSUME IInv, TypeOK', CInv, [Next]_vars
  PROVE  CInv'
<1>0. TypeOK
  BY DEF IInv
<1>1. ASSUME UNCHANGED tables, UNCHANGED cmd PROVE CInv'
  BY <1>0, <1>1, CalmRows, CalmKeeps DEF CommandsQuiet
<1>2. ASSUME NEW w \in Workers,
             Approve(w) \/ RunStep(w) \/ RunHiccup(w) \/ ReleaseHiccup(w) \/ UserStop(w)
      PROVE  CInv'
  BY <1>1, <1>2, RunCounts DEF Approve, RunHiccup, ReleaseHiccup, UserStop
<1>3. ASSUME NEW w \in Workers, NEW i \in Items, ItemHiccup(w, i) PROVE CInv'
  BY <1>1, <1>3 DEF ItemHiccup
<1>4. ASSUME NEW x \in Windows, Command(x) \/ CommandStep(x) \/ CommandHiccup(x) \/ Crash(x)
      PROVE  CInv'
  <2>1. CASE Crash(x)
    <3>1. UNCHANGED tables /\ cmd' = [cmd EXCEPT ![x] = Idle]
      BY <2>1 DEF Crash, Proceed
    <3>2. CommandsQuiet
      BY <1>0, <3>1 DEF CommandsQuiet, TypeOK, Idle
    <3> QED
      BY <1>0, <3>1, <3>2, CalmRows, CalmKeeps
  <2> QED
    BY <1>0, <1>4, <2>1, CommandCounts
<1>5. ASSUME NEW i \in Items, LeaseExpires(i) \/ LateCommit(i) \/ LateAbort(i) PROVE CInv'
  <2>1. CASE LeaseExpires(i)
    <3>1. Calm /\ CommandsQuiet
      BY <2>1 DEF LeaseExpires, header, Calm, CommandsQuiet
    <3> QED
      BY <1>0, <3>1, CalmKeeps
  <2> QED
    BY <1>1, <1>5, <2>1 DEF LateCommit, LateAbort
<1>6. ASSUME UNCHANGED vars PROVE CInv'
  BY <1>1, <1>6 DEF vars
<1> QED
  BY <1>2, <1>3, <1>4, <1>5, <1>6 DEF Next

LEMMA InitCounts == Init => CInv
<1> SUFFICES ASSUME Init PROVE CInv
  OBVIOUS
<1>1. \A x \in Windows : cmd[x] = Idle
  BY DEF Init
<1>2. FailedDebt = {} /\ SkippedDebt = {}
  <2>1. \A x \in Windows : OwesFailed(cmd[x]) = 0 /\ OwesSkipped(cmd[x]) = 0
    BY <1>1 DEF OwesFailed, OwesSkipped, Idle
  <2> QED
    BY <2>1 DEF FailedDebt, SkippedDebt, Debt
<1>3. /\ InStatus("done") = {} /\ InStatus("failed") = {} /\ InStatus("skipped") = {}
      /\ cnt.done = 0 /\ cnt.failed = 0 /\ cnt.skipped = 0 /\ status = "pending"
  BY DEF Init, CreateBatch, InStatus
<1> QED
  BY <1>1, <1>2, <1>3, FS_EmptySet DEF CInv, Covered, ClosedIsTrue, Idle

LEMMA CountsInvariance == Spec /\ ~Suspends => [](IInv /\ CInv)
<1>1. IInv /\ CInv /\ [Next]_vars => IInv' /\ CInv'
  BY Inductive, CountsInductive DEF IInv
<1> QED
  BY <1>1, InitInductive, InitCounts, PTL DEF Spec

(* The counters of a batch that is not cancelled account for every row     *)
(* that is finished, whatever retries are half way through.                *)
THEOREM CountersAccount == Spec /\ ~Suspends => []CountersCover
<1>1. IInv /\ CInv => CountersCover
  <2> SUFFICES ASSUME IInv, CInv, status # "cancelled"
               PROVE  /\ cnt.failed >= Cardinality(InStatus("failed"))
                      /\ cnt.skipped >= Cardinality(InStatus("skipped"))
    BY DEF CountersCover, CInv
  <2>1. /\ cnt.failed >= Cardinality(InStatus("failed")) + Cardinality(FailedDebt)
        /\ cnt.skipped >= Cardinality(InStatus("skipped")) + Cardinality(SkippedDebt)
    BY DEF CInv, Covered
  <2>2. Cardinality(FailedDebt) \in Nat /\ Cardinality(SkippedDebt) \in Nat
    BY FS_CardinalityType DEF CInv
  <2>3. cnt.failed \in Int /\ cnt.skipped \in Int
    BY DEF IInv, TypeOK, TablesTypeOK
  <2>4. Cardinality(InStatus("failed")) \in Nat /\ Cardinality(InStatus("skipped")) \in Nat
    BY StatusCounts
  <2> QED
    BY <2>1, <2>2, <2>3, <2>4
<1> QED
  BY <1>1, CountsInvariance, PTL

(* A batch is closed as done only when each of its rows is, and as partial *)
(* only when no run works on it, whatever the counters have been through.  *)
THEOREM VerdictsAreTrue == Spec /\ ~Suspends => []ClosedIsTrue
<1>1. CInv => ClosedIsTrue
  BY DEF CInv
<1> QED
  BY <1>1, CountsInvariance, PTL

-----------------------------------------------------------------------------
(* Rows that wait.  No queued row waits for a row that has failed or was   *)
(* skipped, and a failed row's own parent is done, so that a retry, which  *)
(* requeues failed rows only, leaves nothing queued above a skipped row.   *)
OInv ==
  /\ NoQueuedOrphan
  /\ \A i \in Items : stat[i] = "failed" /\ After[i] \in Items => stat[After[i]] = "done"

(* The cascade reaches everything below the failed rows.                   *)
LEMMA DoomedBelow ==
  ASSUME NEW F \in SUBSET Items, NEW i \in Items, After[i] \in F \cup Doomed(F)
  PROVE  i \in Doomed(F)
<1> SUFFICES ASSUME NEW T \in SUBSET Items, \A j \in Items : After[j] \in F \cup T => j \in T
             PROVE  i \in T
  BY DEF Doomed
<1>1. Doomed(F) \subseteq T
  BY DEF Doomed
<1> QED
  BY <1>1

(* A revived row hangs below a row that is done, queued or revived too.    *)
LEMMA RevivedAbove ==
  ASSUME NEW i \in Revived
  PROVE  Revivable(i, Revived)
<1> DEFINE T == {j \in Items : Revivable(j, Revived)}
<1>1. T \subseteq Revived
  <2>1. ASSUME NEW j \in Items, Revivable(j, Revived),
               NEW S \in SUBSET Items, \A k \in Items : Revivable(k, S) => k \in S
        PROVE  j \in S
    <3>1. Revived \subseteq S
      BY <2>1 DEF Revived
    <3>2. Revivable(j, S)
      BY <2>1, <3>1 DEF Revivable
    <3> QED
      BY <2>1, <3>2
  <2> QED
    BY <2>1 DEF Revived
<1>2. ASSUME NEW k \in Items, Revivable(k, T) PROVE k \in T
  <2>1. Revivable(k, Revived)
    BY <1>1, <1>2 DEF Revivable
  <2> QED
    BY <2>1
<1>3. i \in T
  <2>1. T \in SUBSET Items /\ i \in Items
    BY DEF Revived
  <2> HIDE DEF T
  <2> QED
    BY <1>2, <2>1 DEF Revived
<1> QED
  BY <1>3

(* What any step does to the header and to the rows' statuses.             *)
Statement ==
  \/ UNCHANGED <<header, stat>>
  \/ \E w \in Workers : ClaimStmt(w)
  \/ \E i \in Items : DoneStmt(i)
  \/ \E i \in Items, c \in Codes : stat[i] = "running" /\ RequeueStmt(i, c)
  \/ \E F \in SUBSET Items, c \in Codes, counted \in BOOLEAN :
        (\A i \in F : stat[i] = "running") /\ FailRows(F, c, counted)
  \/ FinalizeStmt
  \/ \E w \in Workers, S \in SUBSET Items : ReleaseStmt(w, S)
  \/ \E from \in SUBSET Live, to \in BatchStatus : SetStatusStmt(from, to)
  \/ status = "cancelled" /\ ParkStmt
  \/ \E n \in Nat : BumpSkippedStmt(n)
  \/ ClearStmt
  \/ CloseStuckStmt
  \/ RetryRequeueStmt
  \/ ReviveStmt
  \/ \E n \in Nat, m \in Nat : ReopenStmt(n, m)

LEMMA RunStatements ==
  ASSUME IInv, NEW w \in Workers, RunStep(w)
  PROVE  Statement
<1>0. TypeOK
  BY DEF IInv
<1>1. UNCHANGED tables => Statement
  BY DEF Statement, tables, rows
<1>2. FinalizeStmt => Statement
  BY DEF Statement
<1>3. CASE Recover(w)
  <2>1. Stale \in SUBSET Items /\ (\A i \in Stale : stat[i] = "running") /\ "INTERRUPTED" \in Codes
    BY DEF Stale, Codes
  <2>2. FailRows(Stale, "INTERRUPTED", TRUE) \/ FailRows(Stale, "INTERRUPTED", FALSE)
    BY <1>3 DEF Recover, RecoverStmt, FailRows
  <2> QED
    BY <2>1, <2>2 DEF Statement
<1>4. CASE Claim(w)
  BY <1>4 DEF Claim, Statement
<1>5. ASSUME NEW S \in SUBSET Items, ReleaseStmt(w, S) PROVE Statement
  BY <1>5 DEF Statement
<1>6. CASE Land(w)
  <2>1. job[w].unstarted \in SUBSET Items
    BY <1>0, OfRun
  <2> QED
    BY <1>1, <1>5, <1>6, <2>1 DEF Land
<1>7. ASSUME NEW i \in Items, ItemStep(w, i) PROVE Statement
  <2>0. job[w].why[i] \in Codes /\ job[w].unstarted \cup {i} \in SUBSET Items
    <3>1. job[w].why \in [Items -> Codes] /\ job[w].unstarted \in SUBSET Items
      BY <1>0, OfRun
    <3> QED
      BY <3>1
  <2>1. CASE Executes(w, i) \/ CoolDown(w, i) \/ FailSelect(w, i)
    BY <1>1, <2>1 DEF Executes, ExecOk, ExecFail, CoolDown, FailSelect
  <2>2. CASE CoolStop(w, i)
    BY <1>5, <2>0, <2>2 DEF CoolStop
  <2>3. CASE Done(w, i)
    BY <1>1, <2>3 DEF Done, Statement
  <2>4. CASE Requeue(w, i)
    <3>1. step[w][i] = "requeue" /\ RequeueStmt(i, job[w].why[i])
      BY <2>4 DEF Requeue
    <3>2. stat[i] = "running"
      BY <3>1 DEF IInv, PendingOwned, Pending, Owned
    <3> QED
      BY <2>0, <3>1, <3>2 DEF Statement
  <2>5. CASE Bury(w, i)
    <3>1. CASE stat[i] = "running"
      <4>1. FailRows({i}, job[w].why[i], TRUE) /\ {i} \in SUBSET Items /\ \A j \in {i} : stat[j] = "running"
        BY <2>5, <3>1 DEF Bury, FailStmt
      <4> QED
        BY <2>0, <4>1 DEF Statement
    <3>2. CASE stat[i] # "running"
      BY <1>1, <2>5, <3>2 DEF Bury
    <3> QED
      BY <3>1, <3>2
  <2>6. CASE Finish(w, i)
    BY <1>2, <2>6 DEF Finish
  <2> QED
    BY <1>7, <2>1, <2>2, <2>3, <2>4, <2>5, <2>6 DEF ItemStep
<1>8. CASE Settle(w)
  BY <1>2, <1>8 DEF Settle
<1>9. CASE Read(w) \/ Leave(w) \/ Launch(w) \/ BackOff(w) \/ Sync(w)
  BY <1>1, <1>9 DEF Read, Leave, Launch, BackOff, Sync
<1> QED
  BY <1>3, <1>4, <1>6, <1>7, <1>8, <1>9 DEF RunStep

LEMMA CommandStatements ==
  ASSUME IInv, CInv, NEW x \in Windows, Command(x) \/ CommandStep(x) \/ CommandHiccup(x)
  PROVE  Statement
<1>1. UNCHANGED tables => Statement
  BY DEF Statement, tables, rows
<1>2. ASSUME NEW from \in SUBSET Live, NEW to \in BatchStatus, SetStatusStmt(from, to) PROVE Statement
  BY <1>2 DEF Statement
<1>3. cmd[x].n \in Nat /\ cmd[x].m \in Nat
  BY DEF IInv, TypeOK, Commands
<1>4. CASE Command(x)
  <2>1. CASE Pause(x) \/ Unpause(x) \/ Cancel(x)
    BY <1>2, <2>1 DEF Pause, Unpause, Cancel, Live, BatchStatus
  <2>2. CASE Clear(x)
    BY <2>2 DEF Clear, Statement
  <2>3. CASE PressRetry(x) \/ \E via \in {"chat", "tool"} : Resume(x, via)
    BY <1>1, <2>3 DEF PressRetry, Resume
  <2> QED
    BY <1>4, <2>1, <2>2, <2>3 DEF Command
<1>5. CASE CommandHiccup(x)
  BY <1>1, <1>5 DEF CommandHiccup
<1>6. CASE CommandStep(x)
  <2>1. CASE Park(x)
    BY <2>1 DEF Park, CInv, Statement
  <2>2. CASE Bump(x)
    BY <1>3, <2>2 DEF Bump, Statement
  <2>3. CASE Reopen(x)
    BY <1>3, <2>3 DEF Reopen, Statement
  <2>4. CASE CloseStuck(x) \/ RequeueFailed(x) \/ Revive(x)
    BY <2>4 DEF CloseStuck, RequeueFailed, Revive, Statement
  <2>5. CASE ResumePaused(x)
    BY <1>1, <1>2, <2>5 DEF ResumePaused, Live, BatchStatus
  <2>6. CASE StartRun(x)
    BY <1>1, <2>6 DEF StartRun
  <2> QED
    BY <1>6, <2>1, <2>2, <2>3, <2>4, <2>5, <2>6 DEF CommandStep
<1> QED
  BY <1>4, <1>5, <1>6

LEMMA Statements ==
  ASSUME IInv, CInv, [Next]_vars
  PROVE  Statement
<1>1. UNCHANGED tables => Statement
  BY DEF Statement, tables, rows
<1>2. ASSUME NEW w \in Workers,
             Approve(w) \/ RunStep(w) \/ RunHiccup(w) \/ ReleaseHiccup(w) \/ UserStop(w)
      PROVE  Statement
  BY <1>1, <1>2, RunStatements DEF Approve, RunHiccup, ReleaseHiccup, UserStop
<1>3. ASSUME NEW w \in Workers, NEW i \in Items, ItemHiccup(w, i) PROVE Statement
  BY <1>1, <1>3 DEF ItemHiccup
<1>4. ASSUME NEW x \in Windows, Command(x) \/ CommandStep(x) \/ CommandHiccup(x) \/ Crash(x)
      PROVE  Statement
  BY <1>1, <1>4, CommandStatements DEF Crash
<1>5. ASSUME NEW i \in Items, LeaseExpires(i) \/ LateCommit(i) \/ LateAbort(i) PROVE Statement
  BY <1>1, <1>5 DEF LeaseExpires, LateCommit, LateAbort, Statement
<1>6. UNCHANGED vars => Statement
  BY <1>1 DEF vars
<1> QED
  BY <1>2, <1>3, <1>4, <1>5, <1>6 DEF Next

(* Tidy: no row comes to fail but one that ran, a cancelled batch stays    *)
(* cancelled, and what joins the queue, or waits in it, has a parent that  *)
(* may still be done.                                                      *)
Hopeful == {"queued", "running", "done"}

Tidy ==
  /\ \A i \in Items : stat'[i] = "failed" => stat[i] \in {"failed", "running"}
  /\ status = "cancelled" => status' = "cancelled"
  /\ status' # "cancelled" =>
       \A i \in Items :
          stat'[i] = "queued" /\ After[i] \in Items =>
             \/ stat[i] \in {"running", "failed"}
             \/ stat[i] = "queued" /\ (stat[After[i]] \in Hopeful => stat'[After[i]] \in Hopeful)
             \/ stat'[After[i]] \in Hopeful

LEMMA TidyKeeps ==
  ASSUME DependencyOrder, OInv, Forward, Tidy
  PROVE  OInv'
<1>1. ASSUME NEW i \in Items, stat'[i] = "queued", After[i] \in Items, status' # "cancelled"
      PROVE  stat'[After[i]] \in Hopeful
  <2>1. CASE stat[i] = "running"
    BY <1>1, <2>1 DEF DependencyOrder, Forward, Hopeful
  <2>2. CASE stat[i] = "failed"
    BY <1>1, <2>2 DEF OInv, Forward, Hopeful
  <2>3. CASE stat[i] = "queued"
    BY <1>1, <2>3 DEF OInv, NoQueuedOrphan, Tidy, Hopeful
  <2> QED
    BY <1>1, <2>1, <2>2, <2>3 DEF Tidy
<1>2. ASSUME NEW i \in Items, stat'[i] = "failed", After[i] \in Items
      PROVE  stat'[After[i]] = "done"
  BY <1>2 DEF OInv, Tidy, DependencyOrder, Forward
<1> QED
  BY <1>1, <1>2 DEF OInv, NoQueuedOrphan, Hopeful

LEMMA StatementTidy ==
  ASSUME TypeOK, Statement
  PROVE  Tidy
<1> USE DEF Hopeful
<1>0. \A i \in Items : stat[i] \in ItemStatus
  BY DEF TypeOK, TablesTypeOK
<1>1. ASSUME stat' = stat, status = "cancelled" => status' = "cancelled" PROVE Tidy
  BY <1>1 DEF Tidy
<1>2. CASE UNCHANGED <<header, stat>> \/ FinalizeStmt \/ CloseStuckStmt
           \/ \E n \in Nat : BumpSkippedStmt(n)
  BY <1>1, <1>2 DEF header, rows, FinalizeStmt, Finalizes, CloseStuckStmt, BumpSkippedStmt
<1>3. CASE (\E from \in SUBSET Live, to \in BatchStatus : SetStatusStmt(from, to))
           \/ \E n \in Nat, m \in Nat : ReopenStmt(n, m)
  BY <1>1, <1>3 DEF header, rows, SetStatusStmt, ReopenStmt, Live
<1>4. ASSUME NEW w \in Workers, ClaimStmt(w) PROVE Tidy
  <2>1. /\ stat' = SetTo(Claimable, "running") /\ status' = IF status = "pending" THEN "running" ELSE status
    BY <1>4 DEF ClaimStmt
  <2>2. \A i \in Items : stat'[i] = IF i \in Claimable THEN "running" ELSE stat[i]
    BY <2>1 DEF SetTo
  <2> QED
    BY <2>1, <2>2 DEF Tidy
<1>5. ASSUME NEW i \in Items, DoneStmt(i) PROVE Tidy
  BY <1>5 DEF DoneStmt, SetTo, Tidy
<1>6. ASSUME NEW i \in Items, NEW c \in Codes, stat[i] = "running", RequeueStmt(i, c) PROVE Tidy
  BY <1>6 DEF RequeueStmt, SetTo, header, Tidy
<1>7. ASSUME NEW F \in SUBSET Items, NEW c \in Codes, NEW counted \in BOOLEAN,
             \A i \in F : stat[i] = "running", FailRows(F, c, counted)
      PROVE  Tidy
  <2> DEFINE S == {i \in Doomed(F) : stat[i] = "queued"}
  <2>1. /\ status' = status
        /\ \A i \in Items : stat'[i] = IF i \in F THEN "failed" ELSE IF i \in S THEN "skipped" ELSE stat[i]
    BY <1>7 DEF FailRows
  <2>2. ASSUME NEW i \in Items, stat'[i] = "queued", After[i] \in Items
        PROVE  stat[i] = "queued" /\ stat'[After[i]] = stat[After[i]]
    <3>1. stat[i] = "queued" /\ i \notin Doomed(F)
      BY <2>1, <2>2
    <3>2. After[i] \notin F \cup Doomed(F)
      BY <3>1, DoomedBelow
    <3> QED
      BY <2>1, <2>2, <3>1, <3>2
  <2> QED
    BY <1>7, <2>1, <2>2 DEF Tidy
<1>8. ASSUME NEW w \in Workers, NEW S \in SUBSET Items, ReleaseStmt(w, S) PROVE Tidy
  BY <1>8 DEF ReleaseStmt, SetTo, header, Tidy
<1>9. CASE status = "cancelled" /\ ParkStmt
  BY <1>9 DEF ParkStmt, SetTo, InStatus, header, Tidy
<1>10. CASE ClearStmt
  <2>1. CASE status \in Live
    BY <1>10, <2>1 DEF ClearStmt, SetTo, InStatus, Live, Tidy
  <2>2. CASE status \notin Live
    BY <1>1, <1>10, <2>2 DEF ClearStmt
  <2> QED
    BY <2>1, <2>2
<1>11. CASE RetryRequeueStmt
  BY <1>11 DEF RetryRequeueStmt, RequeueRows, SetTo, InStatus, header, Tidy
<1>12. CASE ReviveStmt
  <2>1. status' = status /\ \A i \in Items : stat'[i] = IF i \in Revived THEN "queued" ELSE stat[i]
    BY <1>12 DEF ReviveStmt, RequeueRows, SetTo, header
  <2>2. ASSUME NEW i \in Revived, After[i] \in Items PROVE stat'[After[i]] \in Hopeful
    <3>1. After[i] \in Revived \/ stat[After[i]] \in {"done", "queued"}
      BY <2>2, RevivedAbove, ItemsAssumption DEF Revivable
    <3> QED
      BY <2>1, <2>2, <3>1
  <2>3. ASSUME NEW i \in Items, stat'[i] = "queued", i \notin Revived, After[i] \in Items
        PROVE  stat[i] = "queued" /\ (stat[After[i]] \in Hopeful => stat'[After[i]] \in Hopeful)
    BY <2>1, <2>3
  <2>4. \A i \in Items : stat'[i] = "failed" => stat[i] = "failed"
    BY <2>1
  <2> QED
    BY <2>1, <2>2, <2>3, <2>4 DEF Tidy
<1> QED
  BY <1>2, <1>3, <1>4, <1>5, <1>6, <1>7, <1>8, <1>9, <1>10, <1>11, <1>12 DEF Statement

LEMMA InitTidy == Init => OInv
  BY DEF Init, CreateBatch, OInv, NoQueuedOrphan

(* No row is left in the queue below one that failed or was skipped, where *)
(* it could never be claimed, unless the batch is cancelled: neither the   *)
(* cascade, nor a stop, nor a retry cut off between its statements.        *)
THEOREM NobodyIsOrphaned == Spec /\ ~Suspends => []NoQueuedOrphan
<1>1. IInv /\ CInv /\ OInv /\ [Next]_vars => OInv'
  <2> SUFFICES ASSUME IInv, CInv, OInv, [Next]_vars PROVE OInv'
    OBVIOUS
  <2>1. Forward /\ TypeOK /\ DependencyOrder
    BY Inductive DEF IInv
  <2>2. Tidy
    BY <2>1, Statements, StatementTidy
  <2> QED
    BY <2>1, <2>2, TidyKeeps
<1>2. IInv /\ CInv /\ OInv => NoQueuedOrphan
  BY DEF OInv
<1> QED
  BY <1>1, <1>2, CountsInvariance, InitTidy, PTL DEF Spec

-----------------------------------------------------------------------------
(* The last word.  It needs no assumption on leases, and no invariant.     *)
LEMMA StaysClosed ==
  ASSUME [Next]_vars, status \in {"done", "cancelled"}
  PROVE  status' = status
<1>1. UNCHANGED tables => status' = status
  BY DEF tables, header
<1>2. \A F, c, b : FailRows(F, c, b) => status' = status
  BY DEF FailRows
<1>3. FinalizeStmt => status' = status
  BY DEF FinalizeStmt, Finalizes
<1>4. \A w, S : ReleaseStmt(w, S) => status' = status
  BY DEF ReleaseStmt, header
<1>5. ASSUME NEW w \in Workers, NEW i \in Items, ItemStep(w, i) PROVE status' = status
  <2>1. CASE Executes(w, i) \/ CoolDown(w, i) \/ FailSelect(w, i)
    BY <1>1, <2>1 DEF Executes, ExecOk, ExecFail, CoolDown, FailSelect
  <2>2. CASE CoolStop(w, i) \/ Finish(w, i)
    BY <1>3, <1>4, <2>2 DEF CoolStop, Finish
  <2>3. CASE Done(w, i) \/ Requeue(w, i)
    BY <1>1, <2>3 DEF Done, Requeue, DoneStmt, RequeueStmt, header
  <2>4. CASE Bury(w, i)
    BY <1>1, <1>2, <2>4 DEF Bury, FailStmt
  <2> QED
    BY <1>5, <2>1, <2>2, <2>3, <2>4 DEF ItemStep
<1>6. ASSUME NEW w \in Workers, RunStep(w) PROVE status' = status
  <2>1. CASE Recover(w) \/ Settle(w)
    BY <1>2, <1>3, <2>1 DEF Recover, RecoverStmt, Settle
  <2>2. CASE Claim(w)
    BY <2>2 DEF Claim, ClaimStmt
  <2>3. CASE Land(w)
    BY <1>1, <1>4, <2>3 DEF Land
  <2>4. CASE Read(w) \/ Leave(w) \/ Launch(w) \/ BackOff(w) \/ Sync(w)
    BY <1>1, <2>4 DEF Read, Leave, Launch, BackOff, Sync
  <2> QED
    BY <1>5, <1>6, <2>1, <2>2, <2>3, <2>4 DEF RunStep
<1>7. ASSUME NEW x \in Windows, Command(x) PROVE status' = status
  <2>1. CASE Pause(x) \/ Unpause(x) \/ Cancel(x)
    BY <2>1 DEF Pause, Unpause, Cancel, SetStatusStmt, Live
  <2>2. CASE Clear(x)
    BY <2>2 DEF Clear, ClearStmt, Live
  <2>3. CASE PressRetry(x) \/ \E via \in {"chat", "tool"} : Resume(x, via)
    BY <1>1, <2>3 DEF PressRetry, Resume
  <2> QED
    BY <1>7, <2>1, <2>2, <2>3 DEF Command
<1>8. ASSUME NEW x \in Windows, CommandStep(x) PROVE status' = status
  <2>1. CASE Park(x) \/ Bump(x) \/ CloseStuck(x)
    BY <2>1 DEF Park, ParkStmt, Bump, BumpSkippedStmt, CloseStuck, CloseStuckStmt, header
  <2>2. CASE RequeueFailed(x) \/ Revive(x)
    BY <2>2 DEF RequeueFailed, Revive, RetryRequeueStmt, ReviveStmt, RequeueRows, header
  <2>3. CASE Reopen(x)
    BY <2>3 DEF Reopen, ReopenStmt, header
  <2>4. CASE ResumePaused(x) \/ StartRun(x)
    BY <1>1, <2>4 DEF ResumePaused, StartRun, SetStatusStmt
  <2> QED
    BY <1>8, <2>1, <2>2, <2>3, <2>4 DEF CommandStep
<1>9. ASSUME NEW w \in Workers,
             \/ Approve(w) \/ RunHiccup(w) \/ ReleaseHiccup(w) \/ UserStop(w)
             \/ \E i \in Items : ItemHiccup(w, i)
      PROVE  status' = status
  BY <1>1, <1>9 DEF Approve, RunHiccup, ReleaseHiccup, UserStop, ItemHiccup
<1>10. ASSUME NEW x \in Windows, CommandHiccup(x) \/ Crash(x) PROVE status' = status
  BY <1>1, <1>10 DEF CommandHiccup, Crash
<1>11. ASSUME NEW i \in Items, LeaseExpires(i) \/ LateCommit(i) \/ LateAbort(i) PROVE status' = status
  BY <1>1, <1>11 DEF LeaseExpires, LateCommit, LateAbort, header
<1>12. UNCHANGED vars => status' = status
  BY <1>1 DEF vars
<1> QED
  BY <1>6, <1>7, <1>8, <1>9, <1>10, <1>11, <1>12 DEF Next

(* A batch that is done or cancelled is not reopened, not even by a retry  *)
(* whose last statement comes after the cancellation; leases may run out   *)
(* as they like.                                                           *)
THEOREM ClosedBatchesAreFinal == Spec => ClosedIsFinal
<1>1. [Next]_vars => [(status \in {"done", "cancelled"}) => (status' = status)]_vars
  BY StaysClosed
<1> QED
  BY <1>1, PTL DEF Spec, ClosedIsFinal

-----------------------------------------------------------------------------
(* The waves.  Waves is defined by recursion on the number of the wave; it *)
(* exists, and reaches every row of a chunk without circles, by the least  *)
(* counterexample.                                                         *)
(* A set of natural numbers has a least member.                            *)
LEMMA LeastNat ==
  ASSUME NEW S \in SUBSET Nat, S # {}
  PROVE  \E n \in S : \A m \in S : n <= m
<1>1. PICK n \in S : \A m \in S : <<m, n>> \notin OpToRel(<, Nat)
  BY NatLessThanWellFounded, WFMin
<1>2. \A m \in S : m \in Nat /\ ~(m < n)
  BY <1>1 DEF OpToRel
<1>3. \A m \in S : n <= m
  BY <1>2
<1> QED
  BY <1>3

(* No rows wait for one another in a circle, through after_seq and the     *)
(* references of their arguments.                                          *)
Acyclic == \A C \in SUBSET Items : C # {} => \E i \in C : Deps(i, C) = {}

(* f is the function of the waves of C up to n, as Waves defines it.       *)
Layers(C, n, f) ==
  f = [k \in 0..n |->
         IF k = 0 THEN {} ELSE f[k - 1] \cup {i \in C : Deps(i, C) \subseteq f[k - 1]}]

LEMMA LayersExist ==
  ASSUME NEW C, NEW n \in Nat
  PROVE  \E f : Layers(C, n, f)
<1> DEFINE S == {m \in Nat : ~ \E f : Layers(C, m, f)}
<1>1. SUFFICES ASSUME S # {} PROVE FALSE
  OBVIOUS
<1>2. PICK m \in S : \A l \in S : m <= l
  BY <1>1, LeastNat
<1>3. m \in Nat /\ ~ \E f : Layers(C, m, f)
  OBVIOUS
<1>4. CASE m = 0
  <2>1. Layers(C, 0, [k \in 0..0 |-> {}])
    BY DEF Layers
  <2> QED
    BY <1>3, <1>4, <2>1
<1>5. CASE m # 0
  <2>1. m - 1 \in Nat /\ m - 1 \notin S
    <3>1. m - 1 \in Nat /\ ~(m <= m - 1)
      BY <1>3, <1>5
    <3> QED
      BY <1>2, <3>1
  <2>2. PICK f : Layers(C, m - 1, f)
    BY <2>1
  <2> DEFINE g == [k \in 0..m |-> IF k = m THEN f[m - 1] \cup {i \in C : Deps(i, C) \subseteq f[m - 1]} ELSE f[k]]
             h == [k \in 0..m |-> IF k = 0 THEN {} ELSE g[k - 1] \cup {i \in C : Deps(i, C) \subseteq g[k - 1]}]
  <2>3. ASSUME NEW k \in 0..m PROVE g[k] = h[k]
    <3>0. k \in Int /\ 0 <= k /\ k <= m
      BY <1>3, <2>3
    <3>1. CASE k = m
      <4>1. m - 1 \in 0..m /\ m - 1 # m /\ k # 0
        BY <1>3, <1>5, <3>1
      <4>2. g[m - 1] = f[m - 1]
        BY <4>1
      <4> QED
        BY <3>1, <4>1, <4>2
    <3>2. CASE k # m
      <4>1. k \in 0..(m - 1) /\ k \in 0..m
        BY <1>3, <3>0, <3>2
      <4>2. g[k] = f[k]
        BY <3>2, <4>1
      <4>3. f[k] = IF k = 0 THEN {} ELSE f[k - 1] \cup {i \in C : Deps(i, C) \subseteq f[k - 1]}
        BY <2>2, <4>1 DEF Layers
      <4>4. k # 0 => k - 1 \in 0..m /\ k - 1 # m
        BY <3>0
      <4>5. k # 0 => g[k - 1] = f[k - 1]
        BY <4>4
      <4> QED
        BY <4>1, <4>2, <4>3, <4>5
    <3> QED
      BY <3>1, <3>2
  <2>4. g = h
    BY <2>3
  <2>5. Layers(C, m, g)
    BY <2>4 DEF Layers
  <2> QED
    BY <1>3, <2>5
<1> QED
  BY <1>4, <1>5

LEMMA WavesLayers ==
  ASSUME NEW C, IsFiniteSet(C)
  PROVE  Layers(C, Cardinality(C), Waves(C))
<1>1. Cardinality(C) \in Nat
  BY FS_CardinalityType
<1>2. \E f : Layers(C, Cardinality(C), f)
  BY <1>1, LayersExist
<1> QED
  BY <1>2 DEF Waves, Layers
LEMMA WaveFacts ==
  ASSUME NEW C \in SUBSET Items, NEW W, W = Waves(C)
  PROVE  /\ IsFiniteSet(C) /\ Cardinality(C) \in Nat
         /\ W[0] = {}
         /\ \A k \in 1..Cardinality(C) :
               /\ k - 1 \in 0..Cardinality(C)
               /\ W[k] = W[k - 1] \cup {i \in C : Deps(i, C) \subseteq W[k - 1]}
<1> DEFINE N == Cardinality(C)
<1>1. IsFiniteSet(C) /\ N \in Nat
  BY RowCounts
<1>2. W = [k \in 0..N |-> IF k = 0 THEN {} ELSE W[k - 1] \cup {i \in C : Deps(i, C) \subseteq W[k - 1]}]
  BY <1>1, WavesLayers DEF Layers
<1> HIDE DEF N
<1>3. 0 \in 0..N /\ \A k \in 1..N : k \in 0..N /\ k # 0 /\ k - 1 \in 0..N
  BY <1>1
<1>4. W[0] = {}
  BY <1>2, <1>3
<1>5. ASSUME NEW k \in 1..N
      PROVE  W[k] = W[k - 1] \cup {i \in C : Deps(i, C) \subseteq W[k - 1]}
  BY <1>2, <1>3, <1>5
<1> QED
  BY <1>1, <1>3, <1>4, <1>5 DEF N

(* As many waves as rows reach every row.                                  *)
LEMMA WavesReach ==
  ASSUME Acyclic, NEW C \in SUBSET Items
  PROVE  Waves(C)[Cardinality(C)] = C
<1> DEFINE N == Cardinality(C)
           W == Waves(C)
           T == {k \in 0..N : ~(W[k] \subseteq C /\ (W[k] = C \/ Cardinality(W[k]) >= k))}
<1>1. /\ IsFiniteSet(C) /\ N \in Nat /\ W[0] = {}
      /\ \A k \in 1..N : W[k] = W[k - 1] \cup {i \in C : Deps(i, C) \subseteq W[k - 1]}
  BY WaveFacts
<1> HIDE DEF N, W
<1>2. T = {}
  <2> SUFFICES ASSUME T # {} PROVE FALSE
    OBVIOUS
  <2>1. T \in SUBSET Nat
    BY <1>1
  <2>2. PICK k \in T : \A l \in T : k <= l
    BY <2>1, LeastNat
  <2>3. k \in Nat /\ k <= N /\ ~(W[k] \subseteq C /\ (W[k] = C \/ Cardinality(W[k]) >= k))
    BY <1>1
  <2>4. k # 0
    <3>1. Cardinality(W[0]) = 0 /\ W[0] \subseteq C
      BY <1>1, FS_EmptySet
    <3>2. Cardinality(W[0]) >= 0
      BY <3>1
    <3> QED
      BY <2>3, <3>1, <3>2
  <2>5. k \in 1..N /\ k - 1 \in Nat /\ k - 1 \in 0..N /\ ~(k <= k - 1)
    BY <1>1, <2>3, <2>4
  <2>6. W[k - 1] \subseteq C /\ (W[k - 1] = C \/ Cardinality(W[k - 1]) >= k - 1)
    BY <2>2, <2>5
  <2>7. W[k] = W[k - 1] \cup {i \in C : Deps(i, C) \subseteq W[k - 1]}
    BY <1>1, <2>5
  <2> DEFINE D == W[k - 1]
  <2>8. W[k] \subseteq C /\ D \subseteq C /\ D \subseteq W[k] /\ D # C
    BY <2>3, <2>6, <2>7
  <2>9. PICK i \in C \ D : Deps(i, C \ D) = {}
    BY <2>8 DEF Acyclic
  <2>10. Deps(i, C) \subseteq D
    BY <2>9 DEF Deps
  <2>11. D \cup {i} \subseteq W[k] /\ i \notin D
    BY <2>7, <2>9, <2>10
  <2>12. IsFiniteSet(D) /\ IsFiniteSet(W[k])
    BY <1>1, <2>8, FS_Subset
  <2>13. Cardinality(D) \in Nat /\ Cardinality(W[k]) \in Nat
    BY <2>12, FS_CardinalityType
  <2>14. IsFiniteSet(D \cup {i}) /\ Cardinality(D \cup {i}) = Cardinality(D) + 1
    BY <2>11, <2>12, FS_AddElement
  <2>15. Cardinality(D \cup {i}) <= Cardinality(W[k])
    BY <2>11, <2>12, FS_Subset
  <2>16. Cardinality(D) >= k - 1
    BY <2>6, <2>8
  <2>17. Cardinality(W[k]) >= k
    BY <2>3, <2>13, <2>14, <2>15, <2>16
  <2> QED
    BY <2>3, <2>8, <2>17
<1>3. N \in 0..N
  BY <1>1
<1>4. W[N] \subseteq C /\ (W[N] = C \/ Cardinality(W[N]) >= N)
  BY <1>2, <1>3
<1>5. ASSUME Cardinality(W[N]) >= N PROVE W[N] = C
  <2>1. Cardinality(W[N]) <= Cardinality(C) /\ (Cardinality(C) = Cardinality(W[N]) => C = W[N])
    BY <1>1, <1>4, FS_Subset
  <2>2. Cardinality(W[N]) \in Nat
    BY <1>1, <1>4, FS_Subset, FS_CardinalityType
  <2> QED
    BY <1>1, <1>5, <2>1, <2>2 DEF N
<1> QED
  BY <1>4, <1>5 DEF N, W

(* What a row of the next flight needs of its chunk has been started.      *)
LEMMA FlightIsReady ==
  ASSUME Acyclic, NEW C \in SUBSET Items, NEW U \in SUBSET C, NEW i \in NextFlight(C, U)
  PROVE  i \in U /\ Deps(i, C) \cap U = {}
<1> DEFINE N == Cardinality(C)
           W == Waves(C)
           K == {k \in 1..N : U \cap W[k] # {}}
<1>1. /\ IsFiniteSet(C) /\ N \in Nat /\ W[0] = {} /\ W[N] = C
      /\ \A k \in 1..N : W[k] = W[k - 1] \cup {j \in C : Deps(j, C) \subseteq W[k - 1]}
  <2>1. /\ IsFiniteSet(C) /\ N \in Nat /\ W[0] = {}
        /\ \A k \in 1..N : W[k] = W[k - 1] \cup {j \in C : Deps(j, C) \subseteq W[k - 1]}
    BY WaveFacts
  <2>2. W[N] = C
    BY WavesReach
  <2> QED
    BY <2>1, <2>2
<1>2. i \in CurrentWave(C, U) /\ i \in U
  BY FlightLeft DEF NextFlight
<1>3. CurrentWave(C, U) = IF K = {} THEN U ELSE U \cap W[CHOOSE k \in K : \A l \in K : k <= l]
  BY DEF CurrentWave
<1> HIDE DEF N, W
<1>4. N # 0
  BY <1>1, <1>2
<1>5. N \in 1..N
  BY <1>1, <1>4
<1>6. N \in K
  BY <1>1, <1>2, <1>5
<1>7. \E k \in K : \A l \in K : k <= l
  <2>1. K \in SUBSET Nat
    BY <1>1
  <2> HIDE DEF K
  <2> QED
    BY <1>6, <2>1, LeastNat
<1>8. PICK k \in K : k = (CHOOSE m \in K : \A l \in K : m <= l) /\ \A l \in K : k <= l
  BY <1>7
<1>9. k \in 1..N /\ i \in W[k]
  BY <1>2, <1>3, <1>6, <1>8
<1>10. U \cap W[k - 1] = {}
  <2>1. CASE k = 1
    BY <1>1, <2>1
  <2>2. CASE k # 1
    <3>1. k - 1 \in 1..N /\ ~(k <= k - 1)
      BY <1>1, <1>9, <2>2
    <3> QED
      BY <1>8, <3>1
  <2> QED
    BY <2>1, <2>2
<1>11. Deps(i, C) \subseteq W[k - 1]
  BY <1>1, <1>2, <1>9, <1>10
<1> QED
  BY <1>2, <1>10, <1>11

-----------------------------------------------------------------------------
(* A run keeps to the rows of its chunk.                                   *)
UInv ==
  /\ \A w \in Workers : job[w].unstarted \subseteq job[w].round
  /\ UnresolvedIsLate

Underway == {"exec", "cool", "again"}
Lacks(w, i) == step[w][i] = "lost" /\ job[w].why[i] = "UNRESOLVED_REF"

(* A step in which run w starts nothing and finds no reference unresolved. *)
Later(w) ==
  /\ job'[w].unstarted \subseteq job[w].unstarted
  /\ job'[w].round = job[w].round \/ job'[w].unstarted = {}
  /\ \A i \in Items : Lacks(w, i)' => Lacks(w, i)
  /\ \A i \in Items : step'[w][i] \in Underway => step[w][i] \in Underway

LEMMA LaterKeeps ==
  ASSUME UInv, \A w \in Workers : Later(w)
  PROVE  UInv'
<1>1. ASSUME NEW w \in Workers PROVE job'[w].unstarted \subseteq job'[w].round
  BY DEF UInv, Later
<1>2. ASSUME NEW w \in Workers, NEW i \in Items, Lacks(w, i)'
      PROVE  Uses[i] \cap (job'[w].unstarted \cup {j \in Items : step'[w][j] \in Underway}) = {}
  <2>1. Lacks(w, i) /\ job'[w].unstarted \subseteq job[w].unstarted
    BY <1>2 DEF Later
  <2>2. {j \in Items : step'[w][j] \in Underway} \subseteq {j \in Items : step[w][j] \in Underway}
    BY DEF Later
  <2>3. Uses[i] \cap (job[w].unstarted \cup {j \in Items : step[w][j] \in Underway}) = {}
    BY <2>1 DEF UInv, UnresolvedIsLate, Lacks, Executing, Underway
  <2> QED
    BY <2>1, <2>2, <2>3
<1> QED
  BY <1>1, <1>2 DEF UInv, UnresolvedIsLate, Lacks, Executing, Underway

(* Runs other than w are left alone.                                       *)
LEMMA OthersLater ==
  ASSUME NEW w \in Workers, Later(w), \A v \in Workers : v # w => job'[v] = job[v] /\ step'[v] = step[v]
  PROVE  \A v \in Workers : Later(v)
BY DEF Later, Lacks

LEMMA StillLater ==
  ASSUME UNCHANGED <<job, step>>
  PROVE  \A v \in Workers : Later(v)
BY DEF Later, Lacks

(* A run with nothing in flight drops its chunk.                           *)
LEMMA DropLater ==
  ASSUME NEW w \in Workers, job'[w].unstarted = {}, \A i \in Items : step'[w][i] = "idle"
  PROVE  Later(w)
BY DEF Later, Lacks, Underway

(* A row of a flight moves on to s, and the run knows j of its chunk.      *)
Moves(w, i, s, j) ==
  /\ StepTo(w, i, s) /\ job' = [job EXCEPT ![w] = j]
  /\ j.unstarted \subseteq job[w].unstarted /\ j.round = job[w].round
  /\ \A k \in Items : k = i \/ j.why[k] = job[w].why[k]
  /\ s = "lost" => j.why[i] # "UNRESOLVED_REF"
  /\ s \in Underway => step[w][i] \in Underway

LEMMA MoveLater ==
  ASSUME TypeOK, NEW w \in Workers, NEW i \in Items, NEW s, NEW j, Moves(w, i, s, j)
  PROVE  \A v \in Workers : Later(v)
<1> USE DEF Moves
<1>1. job'[w] = j /\ \A v \in Workers : v # w => job'[v] = job[v] /\ step'[v] = step[v]
  BY DEF TypeOK, StepTo
<1>2. \A k \in Items : step'[w][k] = IF k = i THEN s ELSE step[w][k]
  BY DEF TypeOK, StepTo
<1>3. \A k \in Items : Lacks(w, k)' => Lacks(w, k)
  BY <1>1, <1>2 DEF Lacks
<1>4. \A k \in Items : step'[w][k] \in Underway => step[w][k] \in Underway
  BY <1>2
<1>5. Later(w)
  BY <1>1, <1>3, <1>4 DEF Later
<1> QED
  BY <1>1, <1>5, OthersLater

LEMMA MarkedJob ==
  ASSUME TypeOK, NEW w \in Workers
  PROVE  /\ \A m : /\ [job[w] EXCEPT !.marks = m].unstarted = job[w].unstarted
                   /\ [job[w] EXCEPT !.marks = m].round = job[w].round
                   /\ [job[w] EXCEPT !.marks = m].why = job[w].why
         /\ \A d : /\ [job[w] EXCEPT !.delay = d].unstarted = job[w].unstarted
                   /\ [job[w] EXCEPT !.delay = d].round = job[w].round
                   /\ [job[w] EXCEPT !.delay = d].why = job[w].why
         /\ \A u, m : /\ [job[w] EXCEPT !.unstarted = u, !.marks = m].unstarted = u
                      /\ [job[w] EXCEPT !.unstarted = u, !.marks = m].round = job[w].round
                      /\ [job[w] EXCEPT !.unstarted = u, !.marks = m].why = job[w].why
         /\ \A y : /\ [job[w] EXCEPT !.why = y].unstarted = job[w].unstarted
                   /\ [job[w] EXCEPT !.why = y].round = job[w].round
                   /\ [job[w] EXCEPT !.why = y].why = y
         /\ job[w].why \in [Items -> Codes]
<1>1. job[w] \in Jobs
  BY OfRun
<1> QED
  BY <1>1 DEF Jobs

LEMMA GiveUpLater ==
  ASSUME TypeOK, NEW w \in Workers, NEW i \in Items, GiveUp(w, i)
  PROVE  \A v \in Workers : Later(v)
<1> DEFINE j == [job[w] EXCEPT !.unstarted = {}, !.marks = @ \cup {"terminal"}]
<1>1. job' = [job EXCEPT ![w] = j] /\ StepTo(w, i, "idle")
  BY DEF GiveUp
<1>2. j.unstarted = {} /\ j.round = job[w].round /\ j.why = job[w].why
  BY MarkedJob
<1> HIDE DEF j
<1>3. "idle" \notin Underway
  BY DEF Underway
<1>4. Moves(w, i, "idle", j)
  BY <1>1, <1>2, <1>3 DEF Moves
<1> QED
  BY <1>4, MoveLater

LEMMA ItemLater ==
  ASSUME TypeOK, NEW w \in Workers, NEW i \in Items, ItemStep(w, i)
  PROVE  \A v \in Workers : Later(v)
<1>1. ASSUME NEW s, StepTo(w, i, s), UNCHANGED job, s \notin {"lost"},
             s \in Underway => step[w][i] \in Underway
      PROVE  \A v \in Workers : Later(v)
  <2>1. PICK j : j = job[w]
    OBVIOUS
  <2>2. job' = [job EXCEPT ![w] = j]
    BY <1>1, <2>1 DEF TypeOK
  <2>3. Moves(w, i, s, j)
    BY <1>1, <2>1, <2>2 DEF Moves
  <2> QED
    BY <2>3, MoveLater
<1>2. ASSUME NEW s, StepTo(w, i, s), NEW m, Mark(w, m), s \notin Underway \cup {"lost"}
      PROVE  \A v \in Workers : Later(v)
  <2> DEFINE j == [job[w] EXCEPT !.marks = @ \cup {m}]
  <2>1. job' = [job EXCEPT ![w] = j] /\ j.unstarted = job[w].unstarted /\ j.round = job[w].round
        /\ j.why = job[w].why
    BY <1>2, MarkedJob DEF Mark
  <2> HIDE DEF j
  <2>2. Moves(w, i, s, j)
    BY <1>2, <2>1 DEF Moves
  <2> QED
    BY <2>2, MoveLater
<1>3. CASE ExecOk(w, i)
  BY <1>1, <1>3 DEF ExecOk, Underway
<1>4. ASSUME NEW c \in Outcomes, ExecFail(w, i, c) PROVE \A v \in Workers : Later(v)
  <2>1. CASE StepTo(w, i, "cool") /\ UNCHANGED job
    BY <1>1, <1>4, <2>1 DEF ExecFail, Underway
  <2> DEFINE k == IF c = "LOST_REPLY" THEN "TRANSIENT" ELSE c
             j == [job[w] EXCEPT !.why = [job[w].why EXCEPT ![i] = k]]
  <2>2. CASE StepTo(w, i, "lost") /\ job' = [job EXCEPT ![w].why[i] = k]
    <3>1. k # "UNRESOLVED_REF"
      OBVIOUS
    <3> HIDE DEF k
    <3>2. job' = [job EXCEPT ![w] = j]
      BY <2>2
    <3>3. /\ j.unstarted = job[w].unstarted /\ j.round = job[w].round
          /\ j.why = [job[w].why EXCEPT ![i] = k]
          /\ job[w].why \in [Items -> Codes]
      BY MarkedJob
    <3> HIDE DEF j
    <3>4. j.why[i] = k /\ \A l \in Items \ {i} : j.why[l] = job[w].why[l]
      BY <3>3
    <3>5. "lost" \notin Underway
      BY DEF Underway
    <3>6. Moves(w, i, "lost", j)
      BY <2>2, <3>1, <3>2, <3>3, <3>4, <3>5 DEF Moves
    <3> QED
      BY <3>6, MoveLater
  <2> QED
    BY <1>4, <2>1, <2>2 DEF ExecFail
<1>5. CASE CoolDown(w, i)
  BY <1>1, <1>5 DEF CoolDown, Underway
<1>6. CASE CoolStop(w, i)
  BY <1>6, GiveUpLater DEF CoolStop
<1>7. CASE Done(w, i)
  BY <1>1, <1>2, <1>7 DEF Done, Underway
<1>8. CASE FailSelect(w, i)
  <2>1. UNCHANGED job /\ (StepTo(w, i, "idle") \/ StepTo(w, i, "requeue") \/ StepTo(w, i, "bury"))
    BY <1>8 DEF FailSelect
  <2> QED
    BY <1>1, <2>1 DEF Underway
<1>9. CASE Requeue(w, i)
  <2> DEFINE d == RetryDelay(job[w].seen[i])
             e == IF d > job[w].delay THEN d ELSE job[w].delay
             j == [job[w] EXCEPT !.delay = e]
  <2>1. job' = [job EXCEPT ![w] = j] /\ StepTo(w, i, "idle")
    BY <1>9 DEF Requeue
  <2> HIDE DEF e
  <2>2. j.unstarted = job[w].unstarted /\ j.round = job[w].round /\ j.why = job[w].why
    BY MarkedJob
  <2> HIDE DEF j
  <2>3. "idle" \notin Underway
    BY DEF Underway
  <2>4. Moves(w, i, "idle", j)
    BY <2>1, <2>2, <2>3 DEF Moves
  <2> QED
    BY <2>4, MoveLater
<1>10. CASE Bury(w, i)
  BY <1>1, <1>10 DEF Bury, Underway
<1>11. CASE Finish(w, i)
  BY <1>1, <1>2, <1>11 DEF Finish, Underway
<1> QED
  BY <1>3, <1>4, <1>5, <1>6, <1>7, <1>8, <1>9, <1>10, <1>11 DEF ItemStep, Executes

(* One run moves, and is in order after it.                                *)
LEMMA OneRun ==
  ASSUME UInv, NEW w \in Workers, \A v \in Workers : v # w => job'[v] = job[v] /\ step'[v] = step[v],
         job'[w].unstarted \subseteq job'[w].round,
         \A i \in Items : Lacks(w, i)' =>
            Uses[i] \cap (job'[w].unstarted \cup {j \in Items : step'[w][j] \in Underway}) = {}
  PROVE  UInv'
BY DEF UInv, UnresolvedIsLate, Lacks, Executing, Underway

LEMMA LaunchLater ==
  ASSUME Acyclic, IInv, UInv, NEW w \in Workers, Launch(w)
  PROVE  UInv'
<1> DEFINE C == job[w].round
           U == job[w].unstarted
           F == NextFlight(C, U)
           resolved == {i \in F : Uses[i] \subseteq local[w].outputs}
           why == [i \in Items |-> IF i \in F \ resolved THEN "UNRESOLVED_REF" ELSE "none"]
           next == [i \in Items |-> IF i \in resolved THEN "exec" ELSE IF i \in F THEN "lost" ELSE "idle"]
           j == [job[w] EXCEPT !.unstarted = @ \ F, !.why = why]
<1>1. job' = [job EXCEPT ![w] = j] /\ step' = [step EXCEPT ![w] = next]
  BY DEF Launch
<1>2. TypeOK /\ job[w] \in Jobs
  BY OfRun DEF IInv
<1>3. C \in SUBSET Items /\ U \in SUBSET C
  <2>1. C \in SUBSET Items
    BY <1>2 DEF Jobs
  <2>2. U \subseteq C
    BY DEF UInv
  <2> QED
    BY <2>1, <2>2
<1>4. F \subseteq U /\ resolved \subseteq F /\ \A i \in F : Deps(i, C) \cap U = {}
  <2> HIDE DEF C, U
  <2>1. \A i \in NextFlight(C, U) : i \in U /\ Deps(i, C) \cap U = {}
    BY <1>3, FlightIsReady
  <2> QED
    BY <2>1
<1> HIDE DEF F
<1>5. j.unstarted = U \ F /\ j.round = C
  BY <1>2 DEF Jobs
<1> HIDE DEF j
<1>6. \A v \in Workers : IF v = w THEN job'[v] = j /\ step'[v] = next
                          ELSE job'[v] = job[v] /\ step'[v] = step[v]
  BY <1>1, <1>2 DEF TypeOK
<1>7. ASSUME NEW i \in Items, Lacks(w, i)'
      PROVE  Uses[i] \cap (job'[w].unstarted \cup {k \in Items : step'[w][k] \in Underway}) = {}
  <2>1. i \in F \ resolved
    BY <1>6, <1>7 DEF Lacks
  <2>2. {k \in Items : step'[w][k] \in Underway} \subseteq resolved
    BY <1>6 DEF Underway
  <2>3. Uses[i] \cap U \subseteq {i}
    <3>1. Deps(i, C) \cap U = {}
      BY <1>4, <2>1
    <3>2. ASSUME NEW k \in Uses[i] \cap U, k # i PROVE k \in Deps(i, C)
      BY <1>3, <3>2 DEF Deps
    <3> QED
      BY <3>1, <3>2
  <2>4. job'[w].unstarted \cup {k \in Items : step'[w][k] \in Underway} \subseteq U \ {i}
    <3>1. job'[w].unstarted = U \ F
      BY <1>5, <1>6
    <3> HIDE DEF resolved
    <3>2. U \ F \subseteq U \ {i} /\ resolved \subseteq U \ {i}
      BY <1>4, <2>1
    <3> QED
      BY <2>2, <3>1, <3>2
  <2> QED
    BY <2>3, <2>4
<1>8. job'[w].unstarted \subseteq job'[w].round
  BY <1>3, <1>5, <1>6
<1> QED
  BY <1>6, <1>7, <1>8, OneRun

LEMMA ExitLater ==
  ASSUME TypeOK, NEW w \in Workers, Exit(w), UNCHANGED step, \A i \in Items : step[w][i] = "idle"
  PROVE  \A v \in Workers : Later(v)
<1>1. /\ job'[w].unstarted = {} /\ \A i \in Items : step'[w][i] = "idle"
      /\ \A v \in Workers : v # w => job'[v] = job[v] /\ step'[v] = step[v]
  BY DEF Exit, TypeOK, NoJob
<1> QED
  BY <1>1, DropLater, OthersLater

LEMMA RunLater ==
  ASSUME Acyclic, IInv, UInv, NEW w \in Workers, Approve(w) \/ RunStep(w)
  PROVE  UInv'
<1>0. TypeOK /\ InHand
  BY DEF IInv
<1>1. UNCHANGED <<job, step>> => UInv'
  BY StillLater, LaterKeeps
<1>2. ASSUME Exit(w), UNCHANGED step, \A i \in Items : step[w][i] = "idle" PROVE UInv'
  BY <1>0, <1>2, ExitLater, LaterKeeps
<1>3. ASSUME NEW d, job' = [job EXCEPT ![w] = [NoJob EXCEPT !.delay = d]], UNCHANGED step,
             \A i \in Items : step[w][i] = "idle"
      PROVE  UInv'
  <2>1. /\ job'[w].unstarted = {} /\ \A i \in Items : step'[w][i] = "idle"
        /\ \A v \in Workers : v # w => job'[v] = job[v] /\ step'[v] = step[v]
    BY <1>0, <1>3 DEF TypeOK, NoJob
  <2> QED
    BY <2>1, DropLater, OthersLater, LaterKeeps
<1>4. pc[w] # "flight" => \A i \in Items : step[w][i] = "idle"
  BY <1>0 DEF InHand
<1>5. CASE Approve(w) \/ Recover(w) \/ Settle(w) \/ Read(w) \/ Sync(w)
  BY <1>1, <1>5 DEF Approve, Recover, Settle, Read, Sync
<1>6. CASE Leave(w)
  BY <1>2, <1>4, <1>6 DEF Leave
<1>7. CASE Claim(w)
  <2>0. UNCHANGED step /\ \A i \in Items : step[w][i] = "idle"
    BY <1>4, <1>7 DEF Claim
  <2>1. CASE Exit(w) \/ UNCHANGED job
    BY <1>1, <1>2, <2>0, <2>1
  <2>2. CASE job' = [job EXCEPT ![w] =
                     [NoJob EXCEPT !.round = Claimable, !.unstarted = Claimable,
                        !.seen = [i \in Items |-> IF i \in Claimable THEN attempts[i] ELSE 0]]]
    <3>1. /\ job'[w].round = Claimable /\ job'[w].unstarted = Claimable
          /\ \A v \in Workers : v # w => job'[v] = job[v] /\ step'[v] = step[v]
      BY <1>0, <2>0, <2>2 DEF TypeOK, NoJob
    <3>2. \A i \in Items : step'[w][i] = "idle"
      BY <2>0
    <3> QED
      BY <3>1, <3>2, OneRun DEF Lacks
  <2> QED
    BY <1>7, <2>1, <2>2 DEF Claim
<1>8. CASE Launch(w)
  BY <1>8, LaunchLater
<1>9. CASE Land(w)
  <2>1. UNCHANGED step /\ \A i \in Items : step[w][i] = "idle"
    BY <1>9 DEF Land, Flying
  <2>2. Exit(w) \/ UNCHANGED job \/ job' = [job EXCEPT ![w] = [NoJob EXCEPT !.delay = job[w].delay]]
    BY <1>9 DEF Land
  <2> QED
    BY <1>1, <1>2, <1>3, <2>1, <2>2
<1>10. CASE BackOff(w)
  <2>1. UNCHANGED step /\ \A i \in Items : step[w][i] = "idle"
    BY <1>4, <1>10 DEF BackOff
  <2>2. Exit(w) \/ job' = [job EXCEPT ![w] = [NoJob EXCEPT !.delay = 0]]
    BY <1>10 DEF BackOff, NoJob
  <2> QED
    BY <1>2, <1>3, <2>1, <2>2
<1>11. ASSUME NEW i \in Items, ItemStep(w, i) PROVE UInv'
  BY <1>0, <1>11, ItemLater, LaterKeeps
<1> QED
  BY <1>5, <1>6, <1>7, <1>8, <1>9, <1>10, <1>11 DEF RunStep

LEMMA HiccupLater ==
  ASSUME IInv, UInv, NEW w \in Workers,
         RunHiccup(w) \/ ReleaseHiccup(w) \/ \E i \in Items : ItemHiccup(w, i)
  PROVE  UInv'
<1>0. TypeOK /\ InHand
  BY DEF IInv
<1>1. UNCHANGED <<job, step>> => UInv'
  BY StillLater, LaterKeeps
<1>2. ASSUME Exit(w), UNCHANGED step, \A i \in Items : step[w][i] = "idle" PROVE UInv'
  BY <1>0, <1>2, ExitLater, LaterKeeps
<1>3. CASE RunHiccup(w)
  <2>1. CASE pc[w] = "read" /\ Exit(w)
    <3>1. UNCHANGED step /\ \A i \in Items : step[w][i] = "idle"
      BY <1>0, <1>3, <2>1 DEF RunHiccup, InHand
    <3> QED
      BY <1>2, <2>1, <3>1
  <2>2. CASE UNCHANGED job
    BY <1>1, <1>3, <2>2 DEF RunHiccup
  <2> QED
    BY <1>3, <2>1, <2>2 DEF RunHiccup
<1>4. CASE ReleaseHiccup(w)
  <2>1. CASE Flying(w) = {} /\ Exit(w) /\ UNCHANGED step
    BY <1>2, <2>1 DEF Flying
  <2>2. ASSUME NEW i \in Items, GiveUp(w, i) PROVE UInv'
    BY <1>0, <2>2, GiveUpLater, LaterKeeps
  <2> QED
    BY <1>4, <2>1, <2>2 DEF ReleaseHiccup
<1>5. ASSUME NEW i \in Items, ItemHiccup(w, i) PROVE UInv'
  <2>0. StepTo(w, i, "idle") /\ "idle" \notin Underway
    BY <1>5 DEF ItemHiccup, Underway
  <2>1. CASE UNCHANGED job
    <3>1. PICK j : j = job[w]
      OBVIOUS
    <3>2. job' = [job EXCEPT ![w] = j]
      BY <1>0, <2>1, <3>1 DEF TypeOK
    <3>3. Moves(w, i, "idle", j)
      BY <2>0, <3>1, <3>2 DEF Moves
    <3> QED
      BY <1>0, <3>3, MoveLater, LaterKeeps
  <2>2. CASE Mark(w, "break")
    <3> DEFINE j == [job[w] EXCEPT !.marks = @ \cup {"break"}]
    <3>1. job' = [job EXCEPT ![w] = j]
      BY <2>2 DEF Mark
    <3>2. j.unstarted = job[w].unstarted /\ j.round = job[w].round /\ j.why = job[w].why
      BY <1>0, MarkedJob
    <3> HIDE DEF j
    <3>3. Moves(w, i, "idle", j)
      BY <2>0, <3>1, <3>2 DEF Moves
    <3> QED
      BY <1>0, <3>3, MoveLater, LaterKeeps
  <2> QED
    BY <1>5, <2>1, <2>2 DEF ItemHiccup
<1> QED
  BY <1>3, <1>4, <1>5

LEMMA LateInductive ==
  ASSUME Acyclic, IInv, UInv, [Next]_vars
  PROVE  UInv'
<1>0. TypeOK
  BY DEF IInv
<1>1. UNCHANGED <<job, step>> => UInv'
  BY StillLater, LaterKeeps
<1>2. ASSUME NEW w \in Workers,
             Approve(w) \/ RunStep(w) \/ RunHiccup(w) \/ ReleaseHiccup(w) \/ UserStop(w)
      PROVE  UInv'
  BY <1>1, <1>2, RunLater, HiccupLater DEF UserStop
<1>3. ASSUME NEW w \in Workers, NEW i \in Items, ItemHiccup(w, i) PROVE UInv'
  BY <1>3, HiccupLater
<1>4. ASSUME NEW x \in Windows, Command(x) \/ CommandStep(x) \/ CommandHiccup(x) PROVE UInv'
  <2>1. CASE Command(x) \/ CommandHiccup(x)
    BY <1>1, <2>1 DEF Command, Pause, Unpause, Cancel, Clear, PressRetry, Resume, CommandHiccup, loop
  <2>2. CASE CommandStep(x)
    BY <1>1, <2>2 DEF CommandStep, Park, Bump, CloseStuck, RequeueFailed, Revive, Reopen,
                      ResumePaused, StartRun, loop
  <2> QED
    BY <1>4, <2>1, <2>2
<1>5. ASSUME NEW x \in Windows, Crash(x) PROVE UInv'
  <2> DEFINE dead == {w \in Workers : WindowOf[w] = x /\ Active(w)}
  <2>1. /\ job' = [w \in Workers |-> IF w \in dead THEN NoJob ELSE job[w]]
        /\ step' = [w \in Workers |-> IF w \in dead THEN Grounded ELSE step[w]]
    BY <1>5 DEF Crash
  <2> HIDE DEF dead
  <2>2. ASSUME NEW w \in dead, w \in Workers PROVE Later(w)
    <3>1. job'[w].unstarted = {} /\ \A i \in Items : step'[w][i] = "idle"
      BY <2>1, <2>2 DEF NoJob, Grounded
    <3> QED
      BY <2>2, <3>1, DropLater
  <2>3. ASSUME NEW w \in Workers, w \notin dead PROVE Later(w)
    BY <2>1, <2>3 DEF Later, Lacks
  <2> QED
    BY <2>2, <2>3, LaterKeeps
<1>6. ASSUME NEW i \in Items, LeaseExpires(i) \/ LateCommit(i) \/ LateAbort(i) PROVE UInv'
  BY <1>1, <1>6 DEF LeaseExpires, LateCommit, LateAbort, loop
<1>7. UNCHANGED vars => UInv'
  BY <1>1 DEF vars, loop
<1> QED
  BY <1>2, <1>3, <1>4, <1>5, <1>6, <1>7 DEF Next

(* As long as no rows of the batch wait for one another in a circle, a row *)
(* fails for an unresolved reference only after every row of its chunk     *)
(* that it refers to has been started and has answered.                    *)
THEOREM ReferencesAreWaitedFor == Spec /\ ~Suspends /\ Acyclic => []UnresolvedIsLate
<1>1. IInv /\ (UInv /\ Acyclic) /\ [Next]_vars => (UInv /\ Acyclic)'
  BY LateInductive DEF Acyclic, Deps
<1>2. Init /\ Acyclic => UInv /\ Acyclic
  BY DEF Init, UInv, UnresolvedIsLate, NoJob, Grounded
<1>3. UInv /\ Acyclic => UnresolvedIsLate
  BY DEF UInv
<1> QED
  BY <1>1, <1>2, <1>3, Invariance, PTL DEF Spec
===============================================================================
