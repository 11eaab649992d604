--------------------------- MODULE BatchRunnerProofs ---------------------------
(***************************************************************************)
(* Types; ownership, order and finality of the rows of a batch; and the    *)
(* one effect of an approval, for every batch, every number of windows and *)
(* runs, and every bound; all but the types as long as no lease runs out   *)
(* under a live run.                                                       *)
(***************************************************************************)
EXTENDS BatchRunner, TLAPS, FiniteSetTheorems

USE ItemsAssumption, LimitsAssumption, RunnerAssumption

-----------------------------------------------------------------------------
(* The statements of JobQueue: what each of them keeps of the types of     *)
(* the tables, and which rows it touches.                                  *)

(* Counts of rows are natural numbers. *)
LEMMA RowCounts ==
  ASSUME NEW S \in SUBSET Items
  PROVE  Cardinality(S) \in Nat /\ IsFiniteSet(S)
  BY FS_Subset, FS_CardinalityType

(* A new batch. *)
LEMMA CreateTyped == CreateBatch => TablesTypeOK
  BY DEF CreateBatch, TablesTypeOK, BatchStatus, ItemStatus, Codes

(* A claimed row was queued, had an attempt left, and waits for nothing    *)
(* but a row that is done.                                                 *)
LEMMA ClaimableRows ==
  /\ Claimable \subseteq Items
  /\ \A i \in Claimable : /\ stat[i] = "queued" /\ attempts[i] < MaxAttempts
                          /\ After[i] \in Items => stat[After[i]] = "done"
  BY DEF Claimable, Ready

(* The rows revived by a retry were skipped: the skipped rows are closed   *)
(* under the recursion of the revived CTE.                                 *)
LEMMA RevivedRows == Revived \subseteq InStatus("skipped")
<1>1. SUFFICES ASSUME NEW i \in Revived PROVE i \in InStatus("skipped")
  OBVIOUS
<1>2. DEFINE T == InStatus("skipped")
<1>3. T \in SUBSET Items
  BY DEF InStatus
<1>4. \A j \in Items : Revivable(j, T) => j \in T
  BY DEF Revivable, InStatus
<1>5. QED
  BY <1>3, <1>4 DEF Revived

(* The statements keep the tables' types. *)
LEMMA ClaimTyped ==
  ASSUME TablesTypeOK, NEW w \in Workers, ClaimStmt(w)
  PROVE  TablesTypeOK'
<1> USE DEF TablesTypeOK, ClaimStmt
<1>1. stat' \in [Items -> ItemStatus]
  BY DEF SetTo, ItemStatus
<1>2. attempts' \in [Items -> 0..MaxAttempts]
  BY ClaimableRows
<1>3. owner' \in [Items -> Workers \cup {NoWorker}] /\ lease' \in [Items -> {"none", "live", "expired"}]
  OBVIOUS
<1>4. status' \in BatchStatus /\ cnt' = cnt /\ code' = code
  BY DEF BatchStatus
<1>5. QED
  BY <1>1, <1>2, <1>3, <1>4

LEMMA DoneTyped ==
  ASSUME TablesTypeOK, NEW i \in Items, DoneStmt(i)
  PROVE  TablesTypeOK'
  BY DEF TablesTypeOK, DoneStmt, SetTo, ItemStatus

LEMMA RequeueTyped ==
  ASSUME TablesTypeOK, NEW i \in Items, NEW c \in Codes, RequeueStmt(i, c)
  PROVE  TablesTypeOK'
  BY DEF TablesTypeOK, RequeueStmt, SetTo, ItemStatus, header

LEMMA CountersMove ==
  ASSUME TablesTypeOK, NEW n \in Int, NEW m \in Int
  PROVE  Counted(n, m) \in [done : Int, failed : Int, skipped : Int]
<1>1. cnt \in [done : Int, failed : Int, skipped : Int]
  BY DEF TablesTypeOK
<1>2. cnt.failed + n \in Int /\ cnt.skipped + m \in Int
  BY <1>1
<1>3. QED
  BY <1>1, <1>2 DEF Counted

LEMMA FailRowsTyped ==
  ASSUME TablesTypeOK, NEW F \in SUBSET Items, NEW c \in Codes, NEW b \in BOOLEAN,
         FailRows(F, c, b)
  PROVE  TablesTypeOK'
<1> DEFINE S == {i \in Doomed(F) : stat[i] = "queued"}
<1> USE DEF TablesTypeOK
<1>1. S \in SUBSET Items
  BY DEF Doomed
<1>2. Cardinality(S) \in Nat /\ Cardinality(F) \in Nat
  BY <1>1, RowCounts
<1>3. stat' \in [Items -> ItemStatus] /\ code' \in [Items -> Codes]
  BY DEF FailRows, ItemStatus
<1>4. Counted(Cardinality(F), Cardinality(S)) \in [done : Int, failed : Int, skipped : Int]
  BY <1>2, CountersMove
<1>5. cnt' \in [done : Int, failed : Int, skipped : Int]
  BY <1>4 DEF FailRows
<1>6. QED
  BY <1>3, <1>5 DEF FailRows

LEMMA FailTyped ==
  ASSUME TablesTypeOK, NEW i \in Items, NEW c \in Codes, FailStmt(i, c)
  PROVE  TablesTypeOK'
  BY FailRowsTyped DEF FailStmt

LEMMA RecoverTyped ==
  ASSUME TablesTypeOK, RecoverStmt
  PROVE  TablesTypeOK'
<1>1. Stale \in SUBSET Items /\ "INTERRUPTED" \in Codes /\ (status \in Live) \in BOOLEAN
  BY DEF Stale, Codes
<1>2. CASE status \in Live
  <2>1. FailRows(Stale, "INTERRUPTED", TRUE)
    BY <1>2 DEF RecoverStmt, FailRows
  <2>2. QED
    BY <2>1, <1>1, FailRowsTyped
<1>3. CASE status \notin Live
  <2>1. FailRows(Stale, "INTERRUPTED", FALSE)
    BY <1>3 DEF RecoverStmt, FailRows
  <2>2. QED
    BY <2>1, <1>1, FailRowsTyped
<1>4. QED
  BY <1>2, <1>3

LEMMA FinalizeTyped ==
  ASSUME TablesTypeOK, FinalizeStmt
  PROVE  TablesTypeOK'
  BY DEF TablesTypeOK, FinalizeStmt, BatchStatus, rows

LEMMA ReleaseTyped ==
  ASSUME TablesTypeOK, NEW w, NEW S, ReleaseStmt(w, S)
  PROVE  TablesTypeOK'
  BY DEF TablesTypeOK, ReleaseStmt, SetTo, ItemStatus, header

LEMMA SetStatusTyped ==
  ASSUME TablesTypeOK, NEW from, NEW to \in BatchStatus, SetStatusStmt(from, to)
  PROVE  TablesTypeOK'
  BY DEF TablesTypeOK, SetStatusStmt, rows

LEMMA ParkTyped ==
  ASSUME TablesTypeOK, ParkStmt
  PROVE  TablesTypeOK'
  BY DEF TablesTypeOK, ParkStmt, SetTo, ItemStatus, header

LEMMA BumpTyped ==
  ASSUME TablesTypeOK, NEW n \in Nat, BumpSkippedStmt(n)
  PROVE  TablesTypeOK'
  BY DEF TablesTypeOK, BumpSkippedStmt, rows

LEMMA ClearTyped ==
  ASSUME TablesTypeOK, ClearStmt
  PROVE  TablesTypeOK'
  BY DEF TablesTypeOK, ClearStmt, SetTo, ItemStatus, BatchStatus

LEMMA CloseStuckTyped ==
  ASSUME TablesTypeOK, CloseStuckStmt
  PROVE  TablesTypeOK'
  BY DEF TablesTypeOK, CloseStuckStmt, BatchStatus, rows

LEMMA RequeueRowsTyped ==
  ASSUME TablesTypeOK, NEW S, RequeueRows(S)
  PROVE  TablesTypeOK'
  BY DEF TablesTypeOK, RequeueRows, SetTo, ItemStatus, Codes, header

LEMMA ReopenTyped ==
  ASSUME TablesTypeOK, NEW n \in Nat, NEW m \in Nat, ReopenStmt(n, m)
  PROVE  TablesTypeOK'
<1>0. -n \in Int /\ -m \in Int
  OBVIOUS
<1>1. Counted(-n, -m) \in [done : Int, failed : Int, skipped : Int]
  BY <1>0, CountersMove, Zenon
<1>2. QED
  BY <1>1 DEF TablesTypeOK, ReopenStmt, BatchStatus, header, rows

-----------------------------------------------------------------------------
(* What the statements do to the rows. *)

(* Row i stays as it is, and stays with its worker. *)
Keeps(i) == stat'[i] = stat[i] /\ owner'[i] = owner[i] /\ lease'[i] = lease[i]

(* Done rows stay done, and a row starts only when it is ready. *)
Forward ==
  \A i \in Items :
     /\ stat[i] = "done" => stat'[i] = "done"
     /\ stat'[i] \in {"running", "done"} => stat[i] \in {"running", "done"} \/ Ready(i)

LEMMA RowsUnchanged ==
  ASSUME TablesTypeOK, UNCHANGED rows
  PROVE  Forward /\ \A i \in Items : Keeps(i)
  BY DEF rows, Forward, Keeps

LEMMA ClaimRows ==
  ASSUME TablesTypeOK, NEW w, ClaimStmt(w)
  PROVE  /\ Forward
         /\ \A i \in Items : stat[i] = "running" /\ lease[i] = "live" => Keeps(i)
         /\ \A i \in Claimable : stat'[i] = "running" /\ owner'[i] = w /\ lease'[i] = "live"
<1>1. \A i \in Items : i \in Claimable => stat[i] = "queued" /\ Ready(i)
  BY DEF Claimable, Ready
<1>2. QED
  BY <1>1, ClaimableRows DEF ClaimStmt, SetTo, Forward, Keeps, TablesTypeOK

LEMMA DoneRows ==
  ASSUME TablesTypeOK, NEW i \in Items, DoneStmt(i)
  PROVE  Forward /\ \A j \in Items \ {i} : Keeps(j)
  BY DEF DoneStmt, SetTo, Forward, Keeps, TablesTypeOK

LEMMA RequeueOneRow ==
  ASSUME TablesTypeOK, NEW i \in Items, NEW c, RequeueStmt(i, c)
  PROVE  /\ stat[i] # "done" => Forward
         /\ \A j \in Items \ {i} : Keeps(j)
  BY DEF RequeueStmt, SetTo, Forward, Keeps, TablesTypeOK, header

LEMMA FailedRows ==
  ASSUME TablesTypeOK, NEW F \in SUBSET Items, NEW c, NEW b, FailRows(F, c, b)
  PROVE  /\ (\A i \in F : stat[i] # "done") => Forward
         /\ \A i \in Items \ F : stat[i] = "running" => Keeps(i)
  BY DEF FailRows, Forward, Keeps, TablesTypeOK

LEMMA FailRow ==
  ASSUME TablesTypeOK, NEW i \in Items, NEW c, FailStmt(i, c)
  PROVE  Forward /\ \A j \in Items \ {i} : stat[j] = "running" => Keeps(j)
<1>1. stat[i] = "running" /\ FailRows({i}, c, TRUE) /\ {i} \in SUBSET Items
  BY DEF FailStmt
<1>2. \A j \in {i} : stat[j] # "done"
  BY <1>1
<1>3. QED
  BY <1>1, <1>2, FailedRows

LEMMA RecoverRows ==
  ASSUME TablesTypeOK, RecoverStmt
  PROVE  /\ Forward
         /\ \A i \in Items : stat[i] = "running" /\ lease[i] = "live" => Keeps(i)
<1>1. Stale \in SUBSET Items /\ \A i \in Stale : stat[i] = "running" /\ lease[i] # "live"
  BY DEF Stale
<1>2. FailRows(Stale, "INTERRUPTED", TRUE) \/ FailRows(Stale, "INTERRUPTED", FALSE)
  BY DEF RecoverStmt, FailRows
<1>3. QED
  BY <1>1, <1>2, FailedRows

LEMMA FinalizeRows ==
  ASSUME TablesTypeOK, FinalizeStmt
  PROVE  Forward /\ \A i \in Items : Keeps(i)
  BY RowsUnchanged DEF FinalizeStmt

LEMMA ReleaseRows ==
  ASSUME TablesTypeOK, NEW w, NEW S, ReleaseStmt(w, S)
  PROVE  Forward /\ \A i \in Items : i \notin S \/ owner[i] # w => Keeps(i)
  BY DEF ReleaseStmt, SetTo, Forward, Keeps, TablesTypeOK

LEMMA ParkRows ==
  ASSUME TablesTypeOK, ParkStmt \/ ClearStmt
  PROVE  Forward /\ \A i \in Items : stat[i] = "running" => Keeps(i)
  BY DEF ParkStmt, ClearStmt, SetTo, InStatus, Forward, Keeps, TablesTypeOK

LEMMA RequeuedRows ==
  ASSUME TablesTypeOK, NEW S \in SUBSET Items, \A i \in S : stat[i] \in {"failed", "skipped"},
         RequeueRows(S)
  PROVE  Forward /\ \A i \in Items : stat[i] = "running" => Keeps(i)
  BY DEF RequeueRows, SetTo, Forward, Keeps, TablesTypeOK


-----------------------------------------------------------------------------
(* Types. *)

(* The initial records have their types. *)
LEMMA Records ==
  /\ Fresh \in Locals /\ NoJob \in Jobs /\ Idle \in Commands
  /\ Grounded \in [Items -> Steps]
  /\ {"recover", "settle", "read", "top", "chunk", "flight", "backoff", "sync", "exited"} \subseteq Places
  BY DEF Fresh, Locals, NoJob, Jobs, Idle, Commands, CommandSteps, Grounded, Steps, Places,
         BatchStatus, Codes

LEMMA InitTyped == Init => TypeOK
  BY CreateTyped, Records DEF Init, TypeOK, Places, Bounded

(* A step that leaves the tables alone keeps their types. *)
LEMMA SameTables ==
  ASSUME TablesTypeOK, UNCHANGED tables PROVE TablesTypeOK'
  BY DEF TablesTypeOK, tables, header, rows

(* What a run remembers has its type. *)
LEMMA OfRun ==
  ASSUME TypeOK, NEW w \in Workers
  PROVE  /\ local[w] \in Locals /\ job[w] \in Jobs /\ step[w] \in [Items -> Steps]
         /\ job[w].unstarted \in SUBSET Items /\ job[w].why \in [Items -> Codes]
  BY DEF TypeOK, Jobs

(* Moves of one run, in the tables and in what the run remembers. *)
LEMMA SpendTyped ==
  ASSUME TypeOK, NEW b \in Bounded, NEW max \in Nat, Spend(b, max)
  PROVE  used' \in [Bounded -> Nat]
  BY DEF TypeOK, Spend

LEMMA StepTyped ==
  ASSUME TypeOK, NEW w \in Workers, NEW i \in Items, NEW s \in Steps, StepTo(w, i, s)
  PROVE  step' \in [Workers -> [Items -> Steps]]
  BY DEF TypeOK, StepTo

LEMMA MarkTyped ==
  ASSUME TypeOK, NEW w \in Workers, NEW m \in {"terminal", "break"}, Mark(w, m)
  PROVE  job' \in [Workers -> Jobs]
<1>1. job[w] \in Jobs /\ job[w].marks \cup {m} \in SUBSET {"terminal", "break"}
  BY OfRun DEF Jobs
<1>2. [job[w] EXCEPT !.marks = @ \cup {m}] \in Jobs
  BY <1>1 DEF Jobs
<1>3. QED
  BY <1>2 DEF TypeOK, Mark

LEMMA ExitTyped ==
  ASSUME TypeOK, NEW w \in Workers, Exit(w)
  PROVE  /\ pc' \in [Workers -> Places] /\ local' \in [Workers -> Locals]
         /\ job' \in [Workers -> Jobs]
  BY Records DEF TypeOK, Exit, Goto

LEMMA GotoTyped ==
  ASSUME TypeOK, NEW w \in Workers, NEW p \in Places, Goto(w, p)
  PROVE  pc' \in [Workers -> Places]
  BY DEF TypeOK, Goto

LEMMA GiveUpTyped ==
  ASSUME TypeOK, NEW w \in Workers, NEW i \in Items, GiveUp(w, i)
  PROVE  step' \in [Workers -> [Items -> Steps]] /\ job' \in [Workers -> Jobs]
<1>1. job[w] \in Jobs /\ job[w].marks \cup {"terminal"} \in SUBSET {"terminal", "break"}
  BY OfRun DEF Jobs
<1>2. [job[w] EXCEPT !.unstarted = {}, !.marks = @ \cup {"terminal"}] \in Jobs
  BY <1>1 DEF Jobs
<1>3. QED
  BY <1>2, StepTyped DEF GiveUp, TypeOK, Steps

(* A flight taken out of the rows not started, and the fate of its rows. *)
LEMMA FlightTyped ==
  ASSUME NEW j \in Jobs, NEW F, NEW why \in [Items -> Codes]
  PROVE  [j EXCEPT !.unstarted = @ \ F, !.why = why] \in Jobs
<1> DEFINE half == [j EXCEPT !.unstarted = @ \ F]
<1>1. j.unstarted \ F \in SUBSET Items
  BY DEF Jobs
<1>2. half \in Jobs
  BY <1>1 DEF Jobs
<1>3. [half EXCEPT !.why = why] \in Jobs
  <2> HIDE DEF half
  <2>1. QED
    BY <1>2 DEF Jobs
<1>4. QED
  BY <1>3

(* The steps of a run that move no row of a flight. *)
LEMMA RunTyped ==
  ASSUME TypeOK, NEW w \in Workers,
         \/ Approve(w) \/ Recover(w) \/ Settle(w) \/ Read(w) \/ Leave(w) \/ Claim(w)
         \/ Launch(w) \/ Land(w) \/ BackOff(w) \/ Sync(w)
  PROVE  TypeOK'
<1> USE DEF world
<1>1. CASE Approve(w)
  BY <1>1, SameTables, GotoTyped, Records DEF Approve, TypeOK
<1>2. CASE Recover(w)
  BY <1>2, RecoverTyped, GotoTyped, Records DEF Recover, TypeOK
<1>3. CASE Settle(w)
  BY <1>3, FinalizeTyped, GotoTyped, Records DEF Settle, TypeOK
<1>4. CASE Read(w)
  <2>1. local' \in [Workers -> Locals]
    <3>1. status \in BatchStatus /\ InStatus("done") \in SUBSET Items
      BY DEF TypeOK, TablesTypeOK, InStatus
    <3> PICK l \in Locals : l = local[w]
      BY OfRun
    <3> PICK D \in SUBSET Items : D = InStatus("done")
      BY <3>1
    <3>2. [l EXCEPT !.view = status, !.outputs = D] \in Locals
      BY <3>1 DEF Locals
    <3>3. QED
      BY <1>4, <3>2 DEF Read, TypeOK
  <2>2. QED
    BY <1>4, <2>1, SameTables, GotoTyped, Records DEF Read, TypeOK
<1>5. CASE Leave(w)
  BY <1>5, SameTables, ExitTyped DEF Leave, TypeOK
<1>6. CASE Claim(w)
  <2>1. TablesTypeOK'
    BY <1>6, ClaimTyped DEF Claim, TypeOK
  <2>2. /\ pc' \in [Workers -> Places] /\ local' \in [Workers -> Locals]
        /\ job' \in [Workers -> Jobs]
    <3>1. CASE Exit(w)
      BY <3>1, ExitTyped
    <3>2. CASE /\ local' = [local EXCEPT ![w].streak = @ + 1] /\ Goto(w, "sync")
               /\ UNCHANGED job
      <4>1. [local[w] EXCEPT !.streak = @ + 1] \in Locals
        BY OfRun DEF Locals
      <4>2. QED
        BY <3>2, <4>1, GotoTyped, Records DEF TypeOK
    <3>3. CASE /\ local' = [local EXCEPT ![w].streak = 0] /\ Goto(w, "chunk")
               /\ job' = [job EXCEPT ![w] =
                     [NoJob EXCEPT !.round = Claimable, !.unstarted = Claimable,
                        !.seen = [i \in Items |-> IF i \in Claimable THEN attempts[i] ELSE 0]]]
      <4>1. [i \in Items |-> IF i \in Claimable THEN attempts[i] ELSE 0] \in [Items -> 0..MaxAttempts]
        BY DEF TypeOK, TablesTypeOK
      <4>2. [NoJob EXCEPT !.round = Claimable, !.unstarted = Claimable,
               !.seen = [i \in Items |-> IF i \in Claimable THEN attempts[i] ELSE 0]] \in Jobs
        BY <4>1, ClaimableRows, Records DEF Jobs
      <4>3. [local[w] EXCEPT !.streak = 0] \in Locals
        BY OfRun DEF Locals
      <4>4. QED
        BY <3>3, <4>2, <4>3, GotoTyped, Records DEF TypeOK
    <3>4. QED
      BY <1>6, <3>1, <3>2, <3>3 DEF Claim
  <2>3. QED
    BY <1>6, <2>1, <2>2 DEF Claim, TypeOK
<1>7. CASE Launch(w)
  <2> DEFINE flight == NextFlight(job[w].round, job[w].unstarted)
             resolved == {i \in flight : Uses[i] \subseteq local[w].outputs}
             why == [i \in Items |-> IF i \in flight \ resolved THEN "UNRESOLVED_REF" ELSE "none"]
             next == [i \in Items |-> IF i \in resolved THEN "exec"
                                      ELSE IF i \in flight THEN "lost" ELSE "idle"]
  <2>1. why \in [Items -> Codes] /\ next \in [Items -> Steps]
    BY DEF Codes, Steps
  <2> HIDE DEF flight, resolved, why, next
  <2>2. [job[w] EXCEPT !.unstarted = @ \ flight, !.why = why] \in Jobs
    BY <2>1, OfRun, FlightTyped
  <2>3. job' = [job EXCEPT ![w] = [job[w] EXCEPT !.unstarted = @ \ flight, !.why = why]]
    BY <1>7 DEF Launch, TypeOK, flight, resolved, why
  <2>4. step' = [step EXCEPT ![w] = next]
    BY <1>7 DEF Launch, next, flight, resolved
  <2>5. job' \in [Workers -> Jobs] /\ step' \in [Workers -> [Items -> Steps]]
    BY <2>1, <2>2, <2>3, <2>4 DEF TypeOK
  <2>6. TablesTypeOK' /\ pc' \in [Workers -> Places]
    BY <1>7, SameTables, GotoTyped, Records DEF Launch, TypeOK
  <2>7. QED
    BY <1>7, <2>5, <2>6 DEF Launch, TypeOK
<1>8. CASE Land(w)
  <2>1. TablesTypeOK'
    BY <1>8, ReleaseTyped, SameTables DEF Land, TypeOK
  <2>2. /\ pc' \in [Workers -> Places] /\ local' \in [Workers -> Locals]
        /\ job' \in [Workers -> Jobs]
    <3>1. CASE Exit(w)
      BY <3>1, ExitTyped
    <3>2. CASE /\ Goto(w, "backoff") /\ UNCHANGED local
               /\ job' = [job EXCEPT ![w] = [NoJob EXCEPT !.delay = job[w].delay]]
      <4>1. [NoJob EXCEPT !.delay = job[w].delay] \in Jobs
        BY Records, OfRun DEF Jobs
      <4>2. QED
        BY <3>2, <4>1, GotoTyped DEF TypeOK, Places
    <3>3. CASE Goto(w, "chunk") /\ UNCHANGED <<job, local>>
      BY <3>3, GotoTyped, Records DEF TypeOK
    <3>4. QED
      BY <1>8, <3>1, <3>2, <3>3 DEF Land
  <2>3. QED
    BY <1>8, <2>1, <2>2 DEF Land, TypeOK
<1>9. CASE BackOff(w)
  <2>1. /\ pc' \in [Workers -> Places] /\ local' \in [Workers -> Locals]
        /\ job' \in [Workers -> Jobs]
    BY <1>9, ExitTyped, GotoTyped, Records DEF BackOff, TypeOK
  <2>2. QED
    BY <1>9, <2>1, SameTables DEF BackOff, TypeOK
<1>10. CASE Sync(w)
  <2>1. local' \in [Workers -> Locals]
    <3>1. status \in BatchStatus
      BY DEF TypeOK, TablesTypeOK
    <3>2. [local[w] EXCEPT !.view = status] \in Locals
      BY <3>1, OfRun DEF Locals
    <3>3. QED
      BY <1>10, <3>2 DEF Sync, TypeOK
  <2>2. QED
    BY <1>10, <2>1, SameTables, GotoTyped, Records DEF Sync, TypeOK
<1>11. QED
  BY <1>1, <1>2, <1>3, <1>4, <1>5, <1>6, <1>7, <1>8, <1>9, <1>10

(* The steps of one row of a flight. *)
LEMMA ItemTyped ==
  ASSUME TypeOK, NEW w \in Workers, NEW i \in Items, ItemStep(w, i)
  PROVE  TypeOK'
<1> USE DEF world
<1>0. {"idle", "cool", "again", "won", "lost", "requeue", "bury", "fin"} \subseteq Steps
  BY DEF Steps
<1>1. CASE ExecOk(w, i)
  <2>1. [local[w] EXCEPT !.outputs = @ \cup {i}] \in Locals
    <3>1. local[w] \in Locals /\ local[w].outputs \cup {i} \in SUBSET Items
      BY OfRun DEF Locals
    <3>2. QED
      BY <3>1 DEF Locals
  <2>2. TablesTypeOK' /\ step' \in [Workers -> [Items -> Steps]]
    BY <1>0, <1>1, SameTables, StepTyped DEF ExecOk, TypeOK
  <2>3. local' \in [Workers -> Locals] /\ effects' \in [Items -> Nat]
    BY <1>1, <2>1 DEF ExecOk, TypeOK
  <2>4. QED
    BY <1>1, <2>2, <2>3 DEF ExecOk, TypeOK
<1>2. ASSUME NEW c \in Outcomes, ExecFail(w, i, c) PROVE TypeOK'
  <2>1. TablesTypeOK' /\ step' \in [Workers -> [Items -> Steps]]
    BY <1>0, <1>2, SameTables, StepTyped DEF ExecFail, TypeOK
  <2>2. job' \in [Workers -> Jobs]
    <3> DEFINE k == IF c = "LOST_REPLY" THEN "TRANSIENT" ELSE c
    <3>1. k \in Codes
      BY DEF Codes
    <3> HIDE DEF k
    <3>2. [job[w] EXCEPT !.why[i] = k] \in Jobs
      <4>1. job[w] \in Jobs /\ [job[w].why EXCEPT ![i] = k] \in [Items -> Codes]
        BY <3>1, OfRun
      <4>2. QED
        BY <4>1 DEF Jobs
    <3>3. job' = job \/ job' = [job EXCEPT ![w] = [job[w] EXCEPT !.why[i] = k]]
      BY <1>2 DEF ExecFail, k
    <3> PICK j \in Jobs : j = [job[w] EXCEPT !.why[i] = k]
      BY <3>2
    <3>4. job' = job \/ job' = [job EXCEPT ![w] = j]
      BY <3>3
    <3>5. job \in [Workers -> Jobs]
      BY DEF TypeOK
    <3>6. QED
      BY <3>4, <3>5
  <2>3. effects' \in [Items -> Nat] /\ late' \in [Items -> Nat]
    BY <1>2 DEF ExecFail, TypeOK
  <2>4. QED
    BY <1>2, <2>1, <2>2, <2>3 DEF ExecFail, TypeOK
<1>3. CASE CoolDown(w, i)
  BY <1>0, <1>3, SameTables, StepTyped DEF CoolDown, TypeOK
<1>4. CASE CoolStop(w, i)
  BY <1>4, GiveUpTyped, ReleaseTyped DEF CoolStop, TypeOK
<1>5. CASE Done(w, i)
  <2>1. TablesTypeOK' /\ step' \in [Workers -> [Items -> Steps]]
    BY <1>0, <1>5, DoneTyped, SameTables, StepTyped DEF Done, TypeOK
  <2>2. job' \in [Workers -> Jobs]
    BY <1>5, MarkTyped DEF Done, TypeOK
  <2>3. QED
    BY <1>5, <2>1, <2>2 DEF Done, TypeOK
<1>6. CASE FailSelect(w, i)
  BY <1>0, <1>6, SameTables, StepTyped DEF FailSelect, TypeOK
<1>7. CASE Requeue(w, i)
  <2>1. TablesTypeOK' /\ step' \in [Workers -> [Items -> Steps]]
    BY <1>0, <1>7, OfRun, RequeueTyped, StepTyped DEF Requeue, TypeOK
  <2>2. job' \in [Workers -> Jobs]
    <3> DEFINE d == RetryDelay(job[w].seen[i])
               e == IF d > job[w].delay THEN d ELSE job[w].delay
    <3>1. e \in Nat
      BY OfRun DEF Jobs, RetryDelay
    <3>2. job' = [job EXCEPT ![w] = [job[w] EXCEPT !.delay = e]]
      BY <1>7 DEF Requeue
    <3> HIDE DEF e
    <3>3. job[w] \in Jobs
      BY OfRun
    <3>4. [job[w] EXCEPT !.delay = e] \in Jobs
      BY <3>1, <3>3 DEF Jobs
    <3>5. QED
      BY <3>2, <3>4 DEF TypeOK
  <2>3. QED
    BY <1>7, <2>1, <2>2 DEF Requeue, TypeOK
<1>8. CASE Bury(w, i)
  <2>1. TablesTypeOK' /\ step' \in [Workers -> [Items -> Steps]]
    BY <1>0, <1>8, OfRun, FailTyped, SameTables, StepTyped DEF Bury, TypeOK
  <2>2. QED
    BY <1>8, <2>1 DEF Bury, TypeOK
<1>9. CASE Finish(w, i)
  <2>1. TablesTypeOK' /\ step' \in [Workers -> [Items -> Steps]]
    BY <1>0, <1>9, FinalizeTyped, StepTyped DEF Finish, TypeOK
  <2>2. job' \in [Workers -> Jobs]
    BY <1>9, MarkTyped DEF Finish, TypeOK
  <2>3. QED
    BY <1>9, <2>1, <2>2 DEF Finish, TypeOK
<1>10. QED
  BY <1>1, <1>2, <1>3, <1>4, <1>5, <1>6, <1>7, <1>8, <1>9 DEF ItemStep, Executes

(* A statement of a run fails. *)
LEMMA HiccupTyped ==
  ASSUME TypeOK, NEW w \in Workers,
         RunHiccup(w) \/ ReleaseHiccup(w) \/ \E i \in Items : ItemHiccup(w, i)
  PROVE  TypeOK'
<1> USE DEF world
<1>1. CASE RunHiccup(w)
  <2>1. TablesTypeOK' /\ used' \in [Bounded -> Nat]
    BY <1>1, SameTables, SpendTyped DEF RunHiccup, Hiccup, TypeOK, Bounded
  <2>2. /\ pc' \in [Workers -> Places] /\ local' \in [Workers -> Locals]
        /\ job' \in [Workers -> Jobs]
    BY <1>1, GotoTyped, ExitTyped, Records DEF RunHiccup, TypeOK
  <2>3. QED
    BY <1>1, <2>1, <2>2 DEF RunHiccup, TypeOK
<1>2. CASE ReleaseHiccup(w)
  <2>1. TablesTypeOK' /\ used' \in [Bounded -> Nat]
    BY <1>2, SameTables, SpendTyped DEF ReleaseHiccup, Hiccup, TypeOK, Bounded
  <2>2. /\ pc' \in [Workers -> Places] /\ local' \in [Workers -> Locals]
        /\ job' \in [Workers -> Jobs] /\ step' \in [Workers -> [Items -> Steps]]
    BY <1>2, GiveUpTyped, ExitTyped DEF ReleaseHiccup, TypeOK
  <2>3. QED
    BY <1>2, <2>1, <2>2 DEF ReleaseHiccup, TypeOK
<1>3. ASSUME NEW i \in Items, ItemHiccup(w, i) PROVE TypeOK'
  <2>1. TablesTypeOK' /\ used' \in [Bounded -> Nat]
    BY <1>3, SameTables, SpendTyped DEF ItemHiccup, Hiccup, TypeOK, Bounded
  <2>2. job' \in [Workers -> Jobs] /\ step' \in [Workers -> [Items -> Steps]]
    BY <1>3, MarkTyped, StepTyped DEF ItemHiccup, TypeOK, Steps
  <2>3. QED
    BY <1>3, <2>1, <2>2 DEF ItemHiccup, TypeOK
<1>4. QED
  BY <1>1, <1>2, <1>3

(* The user's commands. *)
LEMMA AtTyped ==
  ASSUME TypeOK, NEW x \in Windows, NEW s \in CommandSteps, At(x, s)
  PROVE  cmd' \in [Windows -> Commands]
<1>1. cmd[x] \in Commands
  BY DEF TypeOK
<1>2. [cmd[x] EXCEPT !.at = s] \in Commands
  BY <1>1 DEF Commands
<1>3. QED
  BY <1>2 DEF TypeOK, At, Proceed

LEMMA StatementTyped ==
  ASSUME TypeOK, TablesTypeOK', cmd' \in [Windows -> Commands], reruns' \in [Items -> Nat],
         used' \in [Bounded -> Nat], UNCHANGED <<loop, world>>
  PROVE  TypeOK'
  BY DEF TypeOK, loop, world

LEMMA CommandTyped ==
  ASSUME TypeOK, NEW x \in Windows, Command(x)
  PROVE  TypeOK'
<1>0. {"park", "stuck", "requeue"} \subseteq CommandSteps /\ {"cancelled", "paused", "running"} \subseteq BatchStatus
  BY DEF CommandSteps, BatchStatus
<1>1. Order(x) => used' \in [Bounded -> Nat]
  BY SpendTyped DEF Order, Bounded
<1>2. CASE Pause(x)
  BY <1>0, <1>1, <1>2, SetStatusTyped, StatementTyped DEF Pause, TypeOK
<1>3. CASE Unpause(x)
  BY <1>0, <1>1, <1>3, SetStatusTyped, StatementTyped DEF Unpause, TypeOK
<1>4. CASE Cancel(x)
  BY <1>0, <1>1, <1>4, SetStatusTyped, AtTyped, StatementTyped DEF Cancel, TypeOK
<1>5. CASE Clear(x)
  BY <1>0, <1>1, <1>5, ClearTyped, AtTyped, StatementTyped DEF Clear, TypeOK
<1>6. CASE PressRetry(x)
  BY <1>0, <1>1, <1>6, SameTables, AtTyped, StatementTyped DEF PressRetry, TypeOK
<1>7. ASSUME NEW via \in {"chat", "tool"}, Resume(x, via) PROVE TypeOK'
  <2>1. [Idle EXCEPT !.resume = TRUE,
           !.at = IF cnt.failed > 0 THEN "requeue"
                  ELSE IF status = "paused" THEN "unpause" ELSE "run"] \in Commands
    BY Records DEF Commands, CommandSteps
  <2>2. cmd' \in [Windows -> Commands]
    BY <1>7, <2>1 DEF Resume, Proceed, TypeOK
  <2>3. QED
    BY <1>1, <1>7, <2>2, SameTables, StatementTyped DEF Resume, TypeOK
<1>8. QED
  BY <1>2, <1>3, <1>4, <1>5, <1>6, <1>7 DEF Command

LEMMA CommandStepTyped ==
  ASSUME TypeOK, NEW x \in Windows, CommandStep(x)
  PROVE  TypeOK'
<1>0. /\ cmd[x] \in Commands /\ cmd[x].n \in Nat /\ cmd[x].m \in Nat
      /\ "run" \in CommandSteps /\ "running" \in BatchStatus
  BY DEF TypeOK, Commands, CommandSteps, BatchStatus
<1>1. \A S \in SUBSET Items : Cardinality(S) \in Nat
  BY RowCounts
<1>2. \A s : InStatus(s) \in SUBSET Items
  BY DEF InStatus
<1>3. CASE Park(x)
  <2>1. [cmd[x] EXCEPT !.at = "bump", !.n = Cardinality(InStatus("queued"))] \in Commands
    <3>1. Cardinality(InStatus("queued")) \in Nat
      BY <1>1, <1>2
    <3>2. QED
      BY <1>0, <3>1 DEF Commands, CommandSteps
  <2>2. cmd' \in [Windows -> Commands]
    BY <1>3, <2>1 DEF Park, Proceed, TypeOK
  <2>3. QED
    BY <1>3, <2>2, ParkTyped, StatementTyped DEF Park, TypeOK
<1>4. CASE Bump(x)
  <2>1. cmd' \in [Windows -> Commands]
    BY <1>4, Records DEF Bump, Proceed, TypeOK
  <2>2. QED
    BY <1>0, <1>4, <2>1, BumpTyped, StatementTyped DEF Bump, TypeOK
<1>5. CASE CloseStuck(x)
  <2>1. cmd' \in [Windows -> Commands]
    BY <1>5, Records DEF CloseStuck, Proceed, TypeOK
  <2>2. QED
    BY <1>5, <2>1, CloseStuckTyped, StatementTyped DEF CloseStuck, TypeOK
<1>6. CASE RequeueFailed(x)
  <2>1. [cmd[x] EXCEPT !.at = "revive", !.n = Cardinality(InStatus("failed"))] \in Commands
    <3>1. Cardinality(InStatus("failed")) \in Nat
      BY <1>1, <1>2
    <3>2. QED
      BY <1>0, <3>1 DEF Commands, CommandSteps
  <2>2. cmd' \in [Windows -> Commands]
    BY <1>6, <2>1, Records DEF RequeueFailed, Proceed, TypeOK
  <2>3. reruns' \in [Items -> Nat]
    BY <1>6 DEF RequeueFailed, TypeOK
  <2>4. TablesTypeOK'
    BY <1>6, RequeueRowsTyped DEF RequeueFailed, RetryRequeueStmt, TypeOK
  <2>5. QED
    BY <1>6, <2>2, <2>3, <2>4, StatementTyped DEF RequeueFailed, TypeOK
<1>7. CASE Revive(x)
  <2>1. [cmd[x] EXCEPT !.at = "reopen", !.m = Cardinality(Revived)] \in Commands
    <3>1. Cardinality(Revived) \in Nat
      BY <1>1 DEF Revived
    <3>2. QED
      BY <1>0, <3>1 DEF Commands, CommandSteps
  <2>2. cmd' \in [Windows -> Commands]
    BY <1>7, <2>1 DEF Revive, Proceed, TypeOK
  <2>3. TablesTypeOK'
    BY <1>7, RequeueRowsTyped DEF Revive, ReviveStmt, TypeOK
  <2>4. QED
    BY <1>7, <2>2, <2>3, StatementTyped DEF Revive, TypeOK
<1>8. CASE Reopen(x)
  <2>1. [Idle EXCEPT !.at = "run", !.resume = TRUE] \in Commands
    BY Records DEF Commands, CommandSteps
  <2>2. cmd' \in [Windows -> Commands]
    BY <1>8, <2>1, Records DEF Reopen, Proceed, TypeOK
  <2>3. TablesTypeOK'
    BY <1>0, <1>8, ReopenTyped DEF Reopen, TypeOK
  <2>4. QED
    BY <1>8, <2>2, <2>3, StatementTyped DEF Reopen, TypeOK
<1>9. CASE ResumePaused(x)
  <2>1. cmd' \in [Windows -> Commands]
    <3>1. At(x, "run") => cmd' \in [Windows -> Commands]
      BY <1>0, AtTyped
    <3>2. Proceed(x, Idle) => cmd' \in [Windows -> Commands]
      BY Records DEF Proceed, TypeOK
    <3>3. QED
      BY <1>9, <3>1, <3>2 DEF ResumePaused
  <2>2. TablesTypeOK'
    BY <1>0, <1>9, SetStatusTyped, SameTables DEF ResumePaused, TypeOK
  <2>3. QED
    BY <1>9, <2>1, <2>2, StatementTyped DEF ResumePaused, TypeOK
<1>10. CASE StartRun(x)
  <2>1. cmd' \in [Windows -> Commands]
    BY <1>10, Records DEF StartRun, Proceed, TypeOK
  <2>2. pc' \in [Workers -> Places]
    BY <1>10, GotoTyped, Records DEF StartRun, TypeOK
  <2>3. QED
    BY <1>10, <2>1, <2>2, SameTables DEF StartRun, TypeOK, world
<1>11. QED
  BY <1>3, <1>4, <1>5, <1>6, <1>7, <1>8, <1>9, <1>10 DEF CommandStep

(* What the user and the environment do to a window or a run. *)
LEMMA EnvironmentTyped ==
  ASSUME TypeOK,
         \/ \E w \in Workers : UserStop(w)
         \/ \E x \in Windows : CommandHiccup(x) \/ Crash(x)
         \/ \E i \in Items : LeaseExpires(i) \/ LateCommit(i) \/ LateAbort(i)
  PROVE  TypeOK'
<1>1. ASSUME NEW w \in Workers, UserStop(w) PROVE TypeOK'
  <2>1. used' \in [Bounded -> Nat] /\ TablesTypeOK'
    BY <1>1, SpendTyped, SameTables DEF UserStop, TypeOK, Bounded
  <2>2. [local[w] EXCEPT !.stop = TRUE] \in Locals
    <3>1. local[w] \in Locals
      BY OfRun
    <3>2. QED
      BY <3>1 DEF Locals
  <2>3. local' \in [Workers -> Locals]
    BY <1>1, <2>2 DEF UserStop, TypeOK
  <2>4. QED
    BY <1>1, <2>1, <2>3 DEF UserStop, TypeOK, world
<1>2. ASSUME NEW x \in Windows, CommandHiccup(x) PROVE TypeOK'
  <2>1. used' \in [Bounded -> Nat] /\ TablesTypeOK'
    BY <1>2, SpendTyped, SameTables DEF CommandHiccup, Hiccup, TypeOK, Bounded
  <2>2. cmd' \in [Windows -> Commands]
    BY <1>2, Records DEF CommandHiccup, Proceed, TypeOK
  <2>3. QED
    BY <1>2, <2>1, <2>2, StatementTyped DEF CommandHiccup, TypeOK
<1>3. ASSUME NEW x \in Windows, Crash(x) PROVE TypeOK'
  <2> DEFINE dead == {w \in Workers : WindowOf[w] = x /\ Active(w)}
             sent(i) == {w \in dead : step[w][i] \in {"exec", "again"}}
  <2>1. used' \in [Bounded -> Nat] /\ TablesTypeOK'
    BY <1>3, SpendTyped, SameTables DEF Crash, TypeOK, Bounded
  <2>2. cmd' \in [Windows -> Commands]
    BY <1>3, Records DEF Crash, Proceed, TypeOK
  <2>3. late' \in [Items -> Nat]
    <3>1. \A i \in Items : Cardinality(sent(i)) \in Nat
      <4>1. TAKE i \in Items
      <4>2. sent(i) \in SUBSET Workers
        OBVIOUS
      <4>3. QED
        BY <4>2, FS_Subset, FS_CardinalityType
    <3>2. late' = [i \in Items |-> late[i] + Cardinality(sent(i))]
      BY <1>3 DEF Crash
    <3> HIDE DEF sent
    <3>3. QED
      BY <3>1, <3>2 DEF TypeOK
  <2>4. /\ pc' \in [Workers -> Places] /\ local' \in [Workers -> Locals]
        /\ job' \in [Workers -> Jobs] /\ step' \in [Workers -> [Items -> Steps]]
    BY <1>3, Records DEF Crash, TypeOK, Places
  <2>5. QED
    BY <1>3, <2>1, <2>2, <2>3, <2>4 DEF Crash, TypeOK
<1>4. ASSUME NEW i \in Items, LeaseExpires(i) PROVE TypeOK'
  <2>1. TablesTypeOK'
    BY <1>4 DEF LeaseExpires, TypeOK, TablesTypeOK, header
  <2>2. QED
    BY <1>4, <2>1, StatementTyped DEF LeaseExpires, TypeOK
<1>5. ASSUME NEW i \in Items, LateCommit(i) \/ LateAbort(i) PROVE TypeOK'
  <2>1. TablesTypeOK'
    BY <1>5, SameTables DEF LateCommit, LateAbort, TypeOK
  <2>2. effects' \in [Items -> Nat] /\ late' \in [Items -> Nat]
    BY <1>5 DEF LateCommit, LateAbort, TypeOK
  <2>3. QED
    BY <1>5, <2>1, <2>2 DEF LateCommit, LateAbort, TypeOK, loop
<1>6. QED
  BY <1>1, <1>2, <1>3, <1>4, <1>5

-----------------------------------------------------------------------------
LEMMA NextTyped ==
  ASSUME TypeOK, [Next]_vars
  PROVE  TypeOK'
<1>2. CASE UNCHANGED vars
  <2>1. TablesTypeOK'
    BY <1>2, SameTables DEF TypeOK, vars
  <2>2. QED
    BY <1>2, <2>1 DEF TypeOK, vars, loop, world
<1>3. ASSUME NEW w \in Workers,
             Approve(w) \/ RunStep(w) \/ RunHiccup(w) \/ ReleaseHiccup(w) \/ UserStop(w)
      PROVE  TypeOK'
  <2>1. ASSUME NEW i \in Items, ItemStep(w, i) PROVE TypeOK'
    BY <2>1, ItemTyped
  <2>2. CASE RunHiccup(w) \/ ReleaseHiccup(w)
    BY <2>2, HiccupTyped
  <2>3. CASE UserStop(w)
    BY <2>3, EnvironmentTyped
  <2>4. QED
    BY <1>3, <2>1, <2>2, <2>3, RunTyped DEF RunStep
<1>4. ASSUME NEW w \in Workers, NEW i \in Items, ItemHiccup(w, i) PROVE TypeOK'
  BY <1>4, HiccupTyped
<1>5. ASSUME NEW x \in Windows, Command(x) \/ CommandStep(x) \/ CommandHiccup(x) \/ Crash(x)
      PROVE  TypeOK'
  <2>1. CASE Command(x)
    BY <2>1, CommandTyped
  <2>2. CASE CommandStep(x)
    BY <2>2, CommandStepTyped
  <2>3. CASE CommandHiccup(x) \/ Crash(x)
    BY <2>3, EnvironmentTyped
  <2>4. QED
    BY <1>5, <2>1, <2>2, <2>3
<1>6. ASSUME NEW i \in Items, LeaseExpires(i) \/ LateCommit(i) \/ LateAbort(i) PROVE TypeOK'
  BY <1>6, EnvironmentTyped
<1>7. QED
  BY <1>2, <1>3, <1>4, <1>5, <1>6 DEF Next

(* Type correctness: whatever the runs, the commands and the failures do   *)
(* to a batch, its tables, what the runs remember of them and the commands *)
(* in flight keep their types; in particular no row is ever claimed more   *)
(* than MaxAttempts times.                                                 *)
THEOREM TypeCorrect == Spec => []TypeOK
<1>1. Init => TypeOK
  BY InitTyped
<1>2. TypeOK /\ [Next]_vars => TypeOK'
  BY NextTyped
<1>3. QED
  BY <1>1, <1>2, PTL DEF Spec

-----------------------------------------------------------------------------
(* Ownership and order. *)

(* Row i is still to be written, or is being written or reported, by w.    *)
Pending(w, i) == i \in job[w].unstarted \/ step[w][i] \notin {"idle", "fin"}

Owned(w, i) == stat[i] = "running" /\ owner[i] = w /\ lease[i] = "live"

(* A run has rows in hand only while it works on a chunk, and each of them *)
(* once: waiting for its flight, or flying.                                *)
InHand ==
  \A w \in Workers, i \in Items :
     /\ i \in job[w].unstarted => pc[w] \in {"chunk", "flight"} /\ step[w][i] = "idle"
     /\ step[w][i] # "idle" => pc[w] = "flight"

PendingOwned == \A w \in Workers, i \in Items : Pending(w, i) => Owned(w, i)

(* The inductive invariant. *)
IInv == TypeOK /\ InHand /\ PendingOwned /\ DependencyOrder /\ ~Suspends

LEMMA OrderKept ==
  ASSUME TablesTypeOK, DependencyOrder, Forward
  PROVE  DependencyOrder'
<1>1. SUFFICES ASSUME NEW i \in Items, stat'[i] \in {"running", "done"}, After[i] \in Items
               PROVE  stat'[After[i]] = "done"
  BY DEF DependencyOrder
<1>2. stat[After[i]] = "done"
  BY <1>1 DEF DependencyOrder, Forward, Ready
<1>3. QED
  BY <1>1, <1>2 DEF Forward

(* A step in which no row becomes pending, and the pending rows are left   *)
(* alone.                                                                  *)
LEMMA OwnedKept ==
  ASSUME PendingOwned,
         \A w \in Workers, i \in Items : Pending(w, i)' => Pending(w, i) /\ Keeps(i)
  PROVE  PendingOwned'
  BY DEF PendingOwned, Keeps, Owned

(* A step in which runs at most let go of rows. *)
LEMMA HandsOff ==
  ASSUME InHand,
         \A w \in Workers, i \in Items :
            /\ i \in job'[w].unstarted => i \in job[w].unstarted
            /\ step'[w][i] # "idle" => step'[w][i] = step[w][i],
         \A w \in Workers :
            \/ pc'[w] = pc[w]
            \/ \A i \in Items : i \notin job'[w].unstarted /\ step'[w][i] = "idle"
            \/ pc'[w] = "chunk" /\ \A i \in Items : step'[w][i] = "idle"
  PROVE  InHand' /\ \A w \in Workers, i \in Items : Pending(w, i)' => Pending(w, i)
<1>1. InHand'
  BY DEF InHand
<1>2. ASSUME NEW w \in Workers, NEW i \in Items, Pending(w, i)' PROVE Pending(w, i)
  BY <1>2 DEF Pending
<1>3. QED
  BY <1>1, <1>2

(* A step of one row of a flight. *)
LEMMA ItemMove ==
  ASSUME TypeOK, InHand, NEW w \in Workers, NEW i \in Items, NEW s \in Steps,
         step[w][i] # "idle", StepTo(w, i, s), step[w][i] = "fin" => s = "idle", UNCHANGED pc,
         \A v \in Workers, j \in Items : j \in job'[v].unstarted => j \in job[v].unstarted
  PROVE  /\ InHand'
         /\ \A v \in Workers, j \in Items :
               Pending(v, j)' => Pending(v, j) /\ (v = w /\ j = i => s \notin {"idle", "fin"})
<1>1. \A v \in Workers, j \in Items :
         step'[v][j] = IF v = w /\ j = i THEN s ELSE step[v][j]
  BY DEF StepTo, TypeOK
<1>2. InHand'
  BY <1>1 DEF InHand
<1>3. ASSUME NEW v \in Workers, NEW j \in Items, Pending(v, j)'
      PROVE  Pending(v, j) /\ (v = w /\ j = i => s \notin {"idle", "fin"})
  <2>1. CASE j \in job'[v].unstarted
    <3>1. j \in job[v].unstarted /\ step[v][j] = "idle"
      BY <2>1 DEF InHand
    <3>2. QED
      BY <3>1 DEF Pending
  <2>2. CASE step'[v][j] \notin {"idle", "fin"}
    BY <1>1, <2>2 DEF Pending
  <2>3. QED
    BY <1>3, <2>1, <2>2 DEF Pending
<1>4. QED
  BY <1>2, <1>3

LEMMA MarkKeeps ==
  ASSUME TypeOK, NEW w \in Workers, NEW m, Mark(w, m), NEW v \in Workers
  PROVE  job'[v].unstarted = job[v].unstarted
<1>1. job[w] \in Jobs
  BY OfRun
<1>2. [job[w] EXCEPT !.marks = @ \cup {m}].unstarted = job[w].unstarted
  BY <1>1 DEF Jobs
<1>3. QED
  BY <1>2 DEF Mark, TypeOK

LEMMA GiveUpKeeps ==
  ASSUME TypeOK, NEW w \in Workers, NEW i \in Items, GiveUp(w, i), NEW v \in Workers
  PROVE  job'[v].unstarted = IF v = w THEN {} ELSE job[v].unstarted
  BY OfRun DEF GiveUp, TypeOK, Jobs

LEMMA ExitDrops ==
  ASSUME TypeOK, NEW w \in Workers, Exit(w), NEW v \in Workers
  PROVE  /\ pc'[v] = IF v = w THEN "exited" ELSE pc[v]
         /\ job'[v].unstarted = IF v = w THEN {} ELSE job[v].unstarted
  BY DEF Exit, Goto, TypeOK, NoJob

(* A flight takes rows of the chunk that were not started. *)
LEMMA FlightLeft == \A C, U : NextFlight(C, U) \subseteq U
  BY DEF NextFlight, CurrentWave

LEMMA SameRows ==
  ASSUME TypeOK, UNCHANGED tables
  PROVE  Forward /\ \A i \in Items : Keeps(i)
  BY RowsUnchanged DEF tables, TypeOK

(* The steps of a run that move no row of a flight. *)
LEMMA RunKeeps ==
  ASSUME IInv, NEW w \in Workers,
         \/ Approve(w) \/ Recover(w) \/ Settle(w) \/ Read(w) \/ Leave(w) \/ Claim(w)
         \/ Launch(w) \/ Land(w) \/ BackOff(w) \/ Sync(w)
  PROVE  InHand' /\ PendingOwned' /\ Forward
<1> USE DEF IInv
<1>0. \A i \in Items : pc[w] \notin {"chunk", "flight"} => i \notin job[w].unstarted /\ step[w][i] = "idle"
  BY DEF InHand
<1>1. ASSUME UNCHANGED <<job, step>>, NEW p, Goto(w, p), pc[w] \notin {"chunk", "flight"}, Forward,
             \A i \in Items : stat[i] = "running" /\ lease[i] = "live" => Keeps(i)
      PROVE  InHand' /\ PendingOwned' /\ Forward
  <2>1. InHand' /\ \A v \in Workers, i \in Items : Pending(v, i)' => Pending(v, i)
    <3>1. \A v \in Workers : v # w => pc'[v] = pc[v]
      BY <1>1 DEF Goto, TypeOK
    <3>2. QED
      BY <1>0, <1>1, <3>1, HandsOff
  <2>2. \A v \in Workers, i \in Items : Pending(v, i)' => Pending(v, i) /\ Keeps(i)
    BY <1>1, <2>1 DEF PendingOwned, Owned
  <2>3. QED
    BY <1>1, <2>1, <2>2, OwnedKept
<1>2. CASE Approve(w)
  BY <1>1, <1>2, SameRows DEF Approve
<1>3. CASE Recover(w)
  BY <1>1, <1>3, RecoverRows DEF Recover, TypeOK
<1>4. CASE Settle(w)
  BY <1>1, <1>4, FinalizeRows DEF Settle, TypeOK
<1>5. CASE Read(w)
  BY <1>1, <1>5, SameRows DEF Read
<1>6. CASE Sync(w)
  BY <1>1, <1>6, SameRows DEF Sync
<1>7. ASSUME Exit(w), UNCHANGED step, Forward, pc[w] \notin {"chunk"},
             \A i \in Items : step[w][i] = "idle",
             \A v \in Workers, i \in Items : Pending(v, i) /\ v # w => Keeps(i)
      PROVE  InHand' /\ PendingOwned' /\ Forward
  <2>1. /\ \A v \in Workers : v # w => pc'[v] = pc[v] /\ job'[v].unstarted = job[v].unstarted
        /\ \A i \in Items : i \notin job'[w].unstarted /\ step'[w][i] = "idle"
    BY <1>7, ExitDrops
  <2>2. InHand' /\ \A v \in Workers, i \in Items : Pending(v, i)' => Pending(v, i)
    BY <1>7, <2>1, HandsOff
  <2>3. \A v \in Workers, i \in Items : Pending(v, i)' => v # w
    BY <2>1 DEF Pending
  <2>4. QED
    BY <1>7, <2>2, <2>3, OwnedKept
<1>8. CASE Leave(w)
  BY <1>0, <1>7, <1>8, SameRows DEF Leave
<1>9. CASE BackOff(w)
  <2>1. CASE Exit(w)
    BY <1>0, <1>7, <1>9, <2>1, SameRows DEF BackOff
  <2>2. CASE Goto(w, "sync") /\ job' = [job EXCEPT ![w] = NoJob]
    <3>1. /\ \A v \in Workers : v # w => pc'[v] = pc[v] /\ job'[v].unstarted = job[v].unstarted
          /\ \A i \in Items : i \notin job'[w].unstarted
      BY <2>2 DEF Goto, TypeOK, NoJob
    <3>2. UNCHANGED step /\ UNCHANGED tables /\ pc[w] = "backoff"
      BY <1>9 DEF BackOff
    <3>3. InHand' /\ \A v \in Workers, i \in Items : Pending(v, i)' => Pending(v, i)
      BY <1>0, <3>1, <3>2, HandsOff
    <3>4. QED
      BY <3>2, <3>3, SameRows, OwnedKept
  <2>3. QED
    BY <1>9, <2>1, <2>2 DEF BackOff
<1>10. CASE Claim(w)
  <2>0. \A i \in Claimable : Owned(w, i)'
    BY <1>10, ClaimRows DEF Claim, TypeOK, Owned
  <2>1. /\ pc[w] = "top" /\ UNCHANGED step /\ Forward
        /\ \A i \in Items : stat[i] = "running" /\ lease[i] = "live" => Keeps(i)
    BY <1>10, ClaimRows DEF Claim, TypeOK
  <2>2. CASE Exit(w)
    <3>1. \A v \in Workers, i \in Items : Pending(v, i) => Keeps(i)
      BY <2>1 DEF PendingOwned, Owned
    <3>2. QED
      BY <1>0, <1>7, <2>1, <2>2, <3>1
  <2>3. CASE Goto(w, "sync") /\ UNCHANGED job
    BY <1>1, <2>1, <2>3
  <2>4. CASE /\ Goto(w, "chunk")
             /\ job' = [job EXCEPT ![w] =
                     [NoJob EXCEPT !.round = Claimable, !.unstarted = Claimable,
                        !.seen = [i \in Items |-> IF i \in Claimable THEN attempts[i] ELSE 0]]]
    <3>1. /\ \A v \in Workers : v # w => pc'[v] = pc[v] /\ job'[v] = job[v]
          /\ pc'[w] = "chunk" /\ job'[w].unstarted = Claimable
      BY <2>4 DEF Goto, TypeOK, NoJob
    <3>2. InHand'
      <4>1. \A i \in Items : step'[w][i] = "idle"
        BY <1>0, <2>1
      <4>2. UNCHANGED step
        BY <2>1
      <4>3. QED
        BY <4>1, <4>2, <3>1 DEF InHand
    <3>3. ASSUME NEW v \in Workers, NEW i \in Items, Pending(v, i)' PROVE Owned(v, i)'
      <4>1. CASE v = w
        BY <1>0, <2>0, <2>1, <3>1, <3>3, <4>1 DEF Pending
      <4>2. CASE v # w
        <5>1. Pending(v, i)
          BY <2>1, <3>1, <3>3, <4>2 DEF Pending
        <5>2. QED
          BY <2>1, <5>1 DEF PendingOwned, Owned, Keeps
      <4>3. QED
        BY <4>1, <4>2
    <3>4. QED
      BY <2>1, <3>2, <3>3 DEF PendingOwned
  <2>5. QED
    BY <1>10, <2>2, <2>3, <2>4 DEF Claim
<1>11. CASE Launch(w)
  <2> DEFINE flight == NextFlight(job[w].round, job[w].unstarted)
  <2>1. flight \subseteq job[w].unstarted
    BY FlightLeft
  <2>2. /\ \A v \in Workers : v # w => pc'[v] = pc[v] /\ job'[v] = job[v] /\ step'[v] = step[v]
        /\ pc[w] = "chunk" /\ pc'[w] = "flight"
        /\ job'[w].unstarted = job[w].unstarted \ flight
        /\ \A i \in Items : step'[w][i] # "idle" => i \in flight
        /\ \A i \in Items : i \in flight => step'[w][i] \in {"exec", "lost"}
    <3> HIDE DEF flight
    <3> DEFINE resolved == {i \in flight : Uses[i] \subseteq local[w].outputs}
               why == [i \in Items |-> IF i \in flight \ resolved THEN "UNRESOLVED_REF" ELSE "none"]
    <3>1. /\ pc[w] = "chunk" /\ pc' = [pc EXCEPT ![w] = "flight"]
          /\ job' = [job EXCEPT ![w].unstarted = @ \ flight, ![w].why = why]
          /\ step' = [step EXCEPT ![w] = [i \in Items |-> IF i \in resolved THEN "exec"
                                        ELSE IF i \in flight THEN "lost" ELSE "idle"]]
      BY <1>11 DEF Launch, Goto, flight
    <3> HIDE DEF why
    <3>2. job[w] \in Jobs
      BY OfRun
    <3>3. [job[w] EXCEPT !.unstarted = @ \ flight, !.why = why].unstarted = job[w].unstarted \ flight
      BY <3>2 DEF Jobs
    <3>4. \A v \in Workers : job'[v] = IF v = w THEN [job[w] EXCEPT !.unstarted = @ \ flight, !.why = why]
                                       ELSE job[v]
      BY <3>1 DEF TypeOK
    <3>5. QED
      BY <3>1, <3>3, <3>4 DEF TypeOK
  <2> HIDE DEF flight
  <2>3. InHand'
    BY <2>1, <2>2 DEF InHand
  <2>4. ASSUME NEW v \in Workers, NEW i \in Items, Pending(v, i)' PROVE Pending(v, i)
    BY <2>1, <2>2, <2>4 DEF Pending
  <2>5. UNCHANGED tables
    BY <1>11 DEF Launch
  <2>6. QED
    BY <2>3, <2>4, <2>5, SameRows, OwnedKept
<1>12. CASE Land(w)
  <2>1. pc[w] = "flight" /\ UNCHANGED step /\ \A i \in Items : step[w][i] = "idle"
    BY <1>12 DEF Land, Flying
  <2>2. Forward /\ \A v \in Workers, i \in Items : Pending(v, i) /\ v # w => Keeps(i)
    <3>1. CASE ReleaseStmt(w, job[w].unstarted)
      <4>1. Forward /\ \A i \in Items : owner[i] # w => Keeps(i)
        BY <3>1, ReleaseRows DEF TypeOK
      <4>2. QED
        BY <4>1 DEF PendingOwned, Owned
    <3>2. CASE UNCHANGED tables
      BY <3>2, SameRows
    <3>3. QED
      BY <1>12, <3>1, <3>2 DEF Land
  <2>3. CASE Exit(w)
    BY <1>7, <2>1, <2>2, <2>3
  <2>4. CASE ~local[w].stop /\ Goto(w, "backoff")
             /\ job' = [job EXCEPT ![w] = [NoJob EXCEPT !.delay = job[w].delay]]
    <3>1. /\ \A v \in Workers : v # w => pc'[v] = pc[v] /\ job'[v].unstarted = job[v].unstarted
          /\ \A i \in Items : i \notin job'[w].unstarted
      BY <2>4 DEF Goto, TypeOK, NoJob
    <3>2. InHand' /\ \A v \in Workers, i \in Items : Pending(v, i)' => Pending(v, i)
      BY <2>1, <3>1, HandsOff
    <3>3. \A v \in Workers, i \in Items : Pending(v, i)' => v # w
      BY <2>1, <3>1 DEF Pending
    <3>4. QED
      BY <2>2, <3>2, <3>3, OwnedKept
  <2>5. CASE ~local[w].stop /\ Goto(w, "chunk") /\ UNCHANGED job
    <3>1. \A v \in Workers : pc'[v] = IF v = w THEN "chunk" ELSE pc[v]
      BY <2>5 DEF Goto, TypeOK
    <3>2. InHand' /\ \A v \in Workers, i \in Items : Pending(v, i)' => Pending(v, i)
      BY <2>1, <2>5, <3>1, HandsOff
    <3>3. UNCHANGED tables
      BY <1>12, <2>5 DEF Land
    <3>4. QED
      BY <3>2, <3>3, SameRows, OwnedKept
  <2>6. QED
    BY <1>12, <2>3, <2>4, <2>5 DEF Land
<1>13. QED
  BY <1>2, <1>3, <1>4, <1>5, <1>6, <1>8, <1>9, <1>10, <1>11, <1>12

(* The steps of one row of a flight. *)
LEMMA ItemKeeps ==
  ASSUME IInv, NEW w \in Workers, NEW i \in Items, ItemStep(w, i)
  PROVE  InHand' /\ PendingOwned' /\ Forward
<1> USE DEF IInv
<1>0. {"idle", "cool", "again", "won", "lost", "requeue", "bury", "fin"} \subseteq Steps
  BY DEF Steps
(* The row moves and the tables do not change. *)
<1>1. ASSUME NEW s \in Steps, StepTo(w, i, s), step[w][i] # "idle", step[w][i] = "fin" => s = "idle",
             UNCHANGED pc, Forward, \A j \in Items : Keeps(j),
             \A v \in Workers : job'[v].unstarted = job[v].unstarted
      PROVE  InHand' /\ PendingOwned' /\ Forward
  <2>1. InHand' /\ \A v \in Workers, j \in Items : Pending(v, j)' => Pending(v, j)
    BY <1>1, ItemMove
  <2>2. QED
    BY <1>1, <2>1, OwnedKept
(* The row is no longer pending, and no other pending row is touched. *)
<1>2. ASSUME NEW s \in {"idle", "fin"}, StepTo(w, i, s), step[w][i] \notin {"idle", "fin"},
             UNCHANGED pc, Forward,
             \A v \in Workers, j \in Items :
                Pending(v, j)' /\ Pending(v, j) /\ j # i => Keeps(j),
             \A v \in Workers, j \in Items : j \in job'[v].unstarted => j \in job[v].unstarted
      PROVE  InHand' /\ PendingOwned' /\ Forward
  <2>1. s \in Steps
    BY <1>0
  <2>2. /\ InHand'
        /\ \A v \in Workers, j \in Items : Pending(v, j)' => Pending(v, j) /\ ~(v = w /\ j = i)
    BY <1>2, <2>1, ItemMove
  <2>3. owner[i] = w
    BY <1>2 DEF PendingOwned, Pending, Owned
  <2>4. \A v \in Workers, j \in Items : Pending(v, j)' => j # i
    BY <2>2, <2>3 DEF PendingOwned, Owned
  <2>5. QED
    BY <1>2, <2>2, <2>4, OwnedKept
<1>3. \A v \in Workers, j \in Items : Pending(v, j) => stat[j] = "running" /\ owner[j] = v
  BY DEF PendingOwned, Owned
<1>4. CASE ExecOk(w, i)
  <2>1. step[w][i] \notin {"idle", "fin"} /\ StepTo(w, i, "won") /\ UNCHANGED <<tables, pc, job>>
    BY <1>4 DEF ExecOk
  <2>2. QED
    BY <1>0, <1>1, <2>1, SameRows
<1>5. ASSUME NEW c \in Outcomes, ExecFail(w, i, c) PROVE InHand' /\ PendingOwned' /\ Forward
  <2>1. step[w][i] \notin {"idle", "fin"} /\ UNCHANGED <<tables, pc>>
    BY <1>5 DEF ExecFail
  <2>2. StepTo(w, i, "cool") \/ StepTo(w, i, "lost")
    BY <1>5 DEF ExecFail
  <2>3. \A v \in Workers : job'[v].unstarted = job[v].unstarted
    <3> DEFINE k == IF c = "LOST_REPLY" THEN "TRANSIENT" ELSE c
    <3>1. job[w] \in Jobs
      BY OfRun
    <3> HIDE DEF k
    <3>2. [job[w] EXCEPT !.why[i] = k].unstarted = job[w].unstarted
      BY <3>1 DEF Jobs
    <3>3. job' = job \/ job' = [job EXCEPT ![w] = [job[w] EXCEPT !.why[i] = k]]
      BY <1>5 DEF ExecFail, k
    <3>4. QED
      BY <3>2, <3>3 DEF TypeOK
  <2>4. QED
    BY <1>0, <1>1, <2>1, <2>2, <2>3, SameRows
<1>6. CASE CoolDown(w, i)
  <2>1. step[w][i] = "cool" /\ StepTo(w, i, "again") /\ UNCHANGED <<tables, pc, job>>
    BY <1>6 DEF CoolDown
  <2>2. QED
    BY <1>0, <1>1, <2>1, SameRows
<1>7. CASE CoolStop(w, i)
  <2>1. /\ step[w][i] = "cool" /\ StepTo(w, i, "idle") /\ UNCHANGED pc
        /\ ReleaseStmt(w, job[w].unstarted \cup {i})
    BY <1>7 DEF CoolStop, GiveUp
  <2>2. \A v \in Workers : job'[v].unstarted = IF v = w THEN {} ELSE job[v].unstarted
    BY <1>7, GiveUpKeeps DEF CoolStop
  <2>3. Forward /\ \A j \in Items : j \notin job[w].unstarted \cup {i} \/ owner[j] # w => Keeps(j)
    BY <2>1, ReleaseRows DEF TypeOK
  <2>4. ASSUME NEW v \in Workers, NEW j \in Items, Pending(v, j)', Pending(v, j), j # i
        PROVE  Keeps(j)
    <3>1. CASE v # w
      BY <1>3, <2>3, <2>4, <3>1
    <3>2. CASE v = w
      <4>1. step'[w][j] # "idle"
        BY <2>2, <2>4, <3>2 DEF Pending
      <4>2. step[w][j] # "idle"
        BY <2>1, <2>4, <4>1 DEF StepTo, TypeOK
      <4>3. j \notin job[w].unstarted
        BY <4>2 DEF InHand
      <4>4. QED
        BY <2>3, <2>4, <4>3
    <3>3. QED
      BY <3>1, <3>2
  <2>5. QED
    BY <1>2, <2>1, <2>2, <2>3, <2>4
<1>8. CASE Done(w, i)
  <2>1. step[w][i] = "won" /\ UNCHANGED pc
    BY <1>8 DEF Done
  <2>2. CASE DoneStmt(i) /\ StepTo(w, i, "fin") /\ UNCHANGED job
    BY <1>2, <2>1, <2>2, DoneRows DEF TypeOK
  <2>3. CASE UNCHANGED tables /\ StepTo(w, i, "idle") /\ Mark(w, "break")
    BY <1>0, <1>1, <2>1, <2>3, MarkKeeps, SameRows
  <2>4. QED
    BY <1>8, <2>2, <2>3 DEF Done
<1>9. CASE FailSelect(w, i)
  <2>1. step[w][i] = "lost" /\ UNCHANGED <<tables, pc, job>>
    BY <1>9 DEF FailSelect
  <2>2. StepTo(w, i, "idle") \/ StepTo(w, i, "requeue") \/ StepTo(w, i, "bury")
    BY <1>9 DEF FailSelect
  <2>3. QED
    BY <1>0, <1>1, <2>1, <2>2, SameRows
<1>10. CASE Requeue(w, i)
  <2>1. step[w][i] = "requeue" /\ StepTo(w, i, "idle") /\ RequeueStmt(i, job[w].why[i]) /\ UNCHANGED pc
    BY <1>10 DEF Requeue
  <2>2. stat[i] # "done"
    BY <1>3, <2>1 DEF Pending
  <2>3. Forward /\ \A j \in Items \ {i} : Keeps(j)
    BY <2>1, <2>2, RequeueOneRow DEF TypeOK
  <2>4. \A v \in Workers : job'[v].unstarted = job[v].unstarted
    <3> DEFINE d == RetryDelay(job[w].seen[i])
               e == IF d > job[w].delay THEN d ELSE job[w].delay
    <3>1. job' = [job EXCEPT ![w] = [job[w] EXCEPT !.delay = e]]
      BY <1>10 DEF Requeue
    <3> HIDE DEF e
    <3>2. job[w] \in Jobs
      BY OfRun
    <3>3. [job[w] EXCEPT !.delay = e].unstarted = job[w].unstarted
      BY <3>2 DEF Jobs
    <3>4. QED
      BY <3>1, <3>3 DEF TypeOK
  <2>5. QED
    BY <1>2, <2>1, <2>3, <2>4
<1>11. CASE Bury(w, i)
  <2>1. step[w][i] = "bury" /\ UNCHANGED <<pc, job>>
    BY <1>11 DEF Bury
  <2>2. CASE FailStmt(i, job[w].why[i]) /\ StepTo(w, i, "fin")
    <3>1. Forward /\ \A j \in Items \ {i} : stat[j] = "running" => Keeps(j)
      BY <2>2, FailRow DEF TypeOK
    <3>2. QED
      BY <1>2, <1>3, <2>1, <2>2, <3>1
  <2>3. CASE UNCHANGED tables /\ StepTo(w, i, "idle")
    BY <1>0, <1>1, <2>1, <2>3, SameRows
  <2>4. QED
    BY <1>11, <2>2, <2>3 DEF Bury
<1>12. CASE Finish(w, i)
  <2>1. step[w][i] = "fin" /\ StepTo(w, i, "idle") /\ FinalizeStmt /\ UNCHANGED pc
    BY <1>12 DEF Finish
  <2>2. \A v \in Workers : job'[v].unstarted = job[v].unstarted
    BY <1>12, MarkKeeps DEF Finish
  <2>3. Forward /\ \A j \in Items : Keeps(j)
    BY <2>1, FinalizeRows DEF TypeOK
  <2>4. QED
    BY <1>0, <1>1, <2>1, <2>2, <2>3
<1>13. QED
  BY <1>4, <1>5, <1>6, <1>7, <1>8, <1>9, <1>10, <1>11, <1>12 DEF ItemStep, Executes

(* A statement of a run fails. *)
LEMMA HiccupKeeps ==
  ASSUME IInv, NEW w \in Workers,
         RunHiccup(w) \/ ReleaseHiccup(w) \/ \E i \in Items : ItemHiccup(w, i)
  PROVE  InHand' /\ PendingOwned' /\ Forward
<1> USE DEF IInv
<1>1. UNCHANGED tables /\ Forward /\ \A i \in Items : Keeps(i)
  BY SameRows DEF RunHiccup, ReleaseHiccup, ItemHiccup
<1>2. SUFFICES InHand' /\ \A v \in Workers, j \in Items : Pending(v, j)' => Pending(v, j)
  BY <1>1, OwnedKept
<1>3. ASSUME NEW p, Goto(w, p), UNCHANGED <<job, step>>, pc[w] \notin {"chunk", "flight"}
      PROVE  InHand' /\ \A v \in Workers, j \in Items : Pending(v, j)' => Pending(v, j)
  <2>1. /\ \A v \in Workers : v # w => pc'[v] = pc[v]
        /\ \A j \in Items : j \notin job'[w].unstarted /\ step'[w][j] = "idle"
    BY <1>3 DEF Goto, TypeOK, InHand
  <2>2. QED
    BY <1>3, <2>1, HandsOff
<1>4. ASSUME Exit(w), UNCHANGED step, \A j \in Items : step[w][j] = "idle"
      PROVE  InHand' /\ \A v \in Workers, j \in Items : Pending(v, j)' => Pending(v, j)
  BY <1>4, ExitDrops, HandsOff
<1>5. ASSUME NEW i \in Items, StepTo(w, i, "idle"), step[w][i] # "idle", UNCHANGED pc,
             \A v \in Workers, j \in Items : j \in job'[v].unstarted => j \in job[v].unstarted
      PROVE  InHand' /\ \A v \in Workers, j \in Items : Pending(v, j)' => Pending(v, j)
  <2>1. "idle" \in Steps
    BY DEF Steps
  <2>2. QED
    BY <1>5, <2>1, ItemMove
<1>6. CASE RunHiccup(w)
  <2>1. CASE pc[w] = "read" /\ Exit(w)
    <3>1. \A j \in Items : step[w][j] = "idle"
      BY <2>1 DEF InHand
    <3>2. QED
      BY <1>4, <1>6, <2>1, <3>1 DEF RunHiccup
  <2>2. CASE ~(pc[w] = "read" /\ Exit(w))
    BY <1>3, <1>6, <2>2 DEF RunHiccup
  <2>3. QED
    BY <2>1, <2>2
<1>7. CASE ReleaseHiccup(w)
  <2>1. CASE Flying(w) = {} /\ Exit(w) /\ UNCHANGED step
    BY <1>4, <2>1 DEF Flying
  <2>2. ASSUME NEW i \in Items, GiveUp(w, i), UNCHANGED pc
        PROVE  InHand' /\ \A v \in Workers, j \in Items : Pending(v, j)' => Pending(v, j)
    <3>1. StepTo(w, i, "idle") /\ step[w][i] # "idle"
      BY <2>2 DEF GiveUp
    <3>2. QED
      BY <1>5, <2>2, <3>1, GiveUpKeeps
  <2>3. QED
    BY <1>7, <2>1, <2>2 DEF ReleaseHiccup
<1>8. ASSUME NEW i \in Items, ItemHiccup(w, i)
      PROVE  InHand' /\ \A v \in Workers, j \in Items : Pending(v, j)' => Pending(v, j)
  <2>1. StepTo(w, i, "idle") /\ step[w][i] # "idle" /\ UNCHANGED pc /\ (Mark(w, "break") \/ UNCHANGED job)
    BY <1>8 DEF ItemHiccup
  <2>2. \A v \in Workers : job'[v].unstarted = job[v].unstarted
    BY <2>1, MarkKeeps
  <2>3. QED
    BY <1>5, <2>1, <2>2
<1>9. QED
  BY <1>6, <1>7, <1>8

(* The user's commands leave running rows alone. *)
LEMMA TablesOnly ==
  ASSUME IInv, UNCHANGED loop, Forward,
         \A i \in Items : stat[i] = "running" => Keeps(i)
  PROVE  InHand' /\ PendingOwned' /\ Forward
<1>1. InHand' /\ \A w \in Workers, i \in Items : Pending(w, i)' => Pending(w, i)
  BY HandsOff DEF IInv, loop
<1>2. QED
  BY <1>1, OwnedKept DEF IInv, PendingOwned, Owned

LEMMA CommandKeeps ==
  ASSUME IInv, NEW x \in Windows, Command(x) \/ CommandStep(x) \/ CommandHiccup(x)
  PROVE  InHand' /\ PendingOwned' /\ Forward
<1> USE DEF IInv
<1>1. ASSUME UNCHANGED loop, UNCHANGED rows PROVE InHand' /\ PendingOwned' /\ Forward
  BY <1>1, TablesOnly, RowsUnchanged DEF TypeOK
<1>2. ASSUME UNCHANGED loop, UNCHANGED tables PROVE InHand' /\ PendingOwned' /\ Forward
  BY <1>1, <1>2 DEF tables
<1>3. CASE Command(x)
  <2>1. CASE Pause(x) \/ Unpause(x) \/ Cancel(x)
    BY <1>1, <2>1 DEF Pause, Unpause, Cancel, SetStatusStmt
  <2>2. CASE Clear(x)
    <3>1. UNCHANGED loop /\ ClearStmt
      BY <2>2 DEF Clear
    <3>2. Forward /\ \A i \in Items : stat[i] = "running" => Keeps(i)
      BY <3>1, ParkRows DEF TypeOK
    <3>3. QED
      BY <3>1, <3>2, TablesOnly
  <2>3. CASE PressRetry(x) \/ \E via \in {"chat", "tool"} : Resume(x, via)
    BY <1>2, <2>3 DEF PressRetry, Resume
  <2>4. QED
    BY <1>3, <2>1, <2>2, <2>3 DEF Command
<1>4. CASE CommandHiccup(x)
  BY <1>2, <1>4 DEF CommandHiccup
<1>5. CASE CommandStep(x)
  <2>1. CASE Park(x)
    <3>1. UNCHANGED loop /\ ParkStmt
      BY <2>1 DEF Park
    <3>2. Forward /\ \A i \in Items : stat[i] = "running" => Keeps(i)
      BY <3>1, ParkRows DEF TypeOK
    <3>3. QED
      BY <3>1, <3>2, TablesOnly
  <2>2. CASE Bump(x) \/ CloseStuck(x) \/ Reopen(x)
    BY <1>1, <2>2 DEF Bump, CloseStuck, Reopen, BumpSkippedStmt, CloseStuckStmt, ReopenStmt
  <2>3. CASE RequeueFailed(x) \/ Revive(x)
    <3>1. UNCHANGED loop /\ (RequeueRows(InStatus("failed")) \/ RequeueRows(Revived))
      BY <2>3 DEF RequeueFailed, Revive, RetryRequeueStmt, ReviveStmt
    <3>2. /\ InStatus("failed") \in SUBSET Items /\ Revived \in SUBSET Items
          /\ \A i \in InStatus("failed") : stat[i] \in {"failed", "skipped"}
          /\ \A i \in Revived : stat[i] \in {"failed", "skipped"}
      BY RevivedRows DEF InStatus
    <3>3. Forward /\ \A i \in Items : stat[i] = "running" => Keeps(i)
      BY <3>1, <3>2, RequeuedRows DEF TypeOK
    <3>4. QED
      BY <3>1, <3>3, TablesOnly
  <2>4. CASE ResumePaused(x)
    BY <1>1, <1>2, <2>4 DEF ResumePaused, SetStatusStmt
  <2>5. CASE StartRun(x)
    <3>1. UNCHANGED <<job, step, tables>>
      BY <2>5 DEF StartRun
    <3>2. \A w \in Workers : pc'[w] = pc[w] \/ pc[w] = "new"
      BY <2>5 DEF StartRun, Goto, TypeOK
    <3>3. \A w \in Workers :
             \/ pc'[w] = pc[w]
             \/ \A i \in Items : i \notin job'[w].unstarted /\ step'[w][i] = "idle"
      BY <3>1, <3>2 DEF InHand
    <3>4. InHand' /\ \A w \in Workers, i \in Items : Pending(w, i)' => Pending(w, i)
      BY <3>1, <3>3, HandsOff
    <3>5. QED
      BY <3>1, <3>4, SameRows, OwnedKept
  <2>6. QED
    BY <1>5, <2>1, <2>2, <2>3, <2>4, <2>5 DEF CommandStep
<1>6. QED
  BY <1>3, <1>4, <1>5

(* Neither does the environment, unless a lease runs out under a live run. *)
LEMMA EnvironmentKeeps ==
  ASSUME IInv,
         \/ \E w \in Workers : UserStop(w)
         \/ \E x \in Windows : Crash(x)
         \/ \E i \in Items : LeaseExpires(i) \/ LateCommit(i) \/ LateAbort(i)
  PROVE  InHand' /\ PendingOwned' /\ Forward
<1> USE DEF IInv
<1>1. ASSUME NEW w \in Workers, UserStop(w) PROVE InHand' /\ PendingOwned' /\ Forward
  <2>1. UNCHANGED <<pc, job, step, tables>>
    BY <1>1 DEF UserStop
  <2>2. InHand' /\ \A v \in Workers, i \in Items : Pending(v, i)' => Pending(v, i)
    BY <2>1, HandsOff
  <2>3. QED
    BY <2>1, <2>2, SameRows, OwnedKept
<1>2. ASSUME NEW x \in Windows, Crash(x) PROVE InHand' /\ PendingOwned' /\ Forward
  <2> DEFINE dead == {w \in Workers : WindowOf[w] = x /\ Active(w)}
  <2>1. /\ pc' = [w \in Workers |-> IF w \in dead THEN "crashed" ELSE pc[w]]
        /\ job' = [w \in Workers |-> IF w \in dead THEN NoJob ELSE job[w]]
        /\ step' = [w \in Workers |-> IF w \in dead THEN Grounded ELSE step[w]]
        /\ UNCHANGED tables
    BY <1>2 DEF Crash
  <2> HIDE DEF dead
  <2>2. \A w \in Workers :
           IF w \in dead THEN \A i \in Items : i \notin job'[w].unstarted /\ step'[w][i] = "idle"
           ELSE pc'[w] = pc[w] /\ job'[w] = job[w] /\ step'[w] = step[w]
    BY <2>1 DEF NoJob, Grounded
  <2>3. InHand' /\ \A w \in Workers, i \in Items : Pending(w, i)' => Pending(w, i)
    BY <2>2, HandsOff
  <2>4. QED
    BY <2>1, <2>3, SameRows, OwnedKept
<1>3. ASSUME NEW i \in Items, LeaseExpires(i) PROVE InHand' /\ PendingOwned' /\ Forward
  <2>1. /\ owner[i] \in Workers /\ pc[owner[i]] \in Over
        /\ UNCHANGED <<pc, job, step, stat, owner>> /\ lease' = [lease EXCEPT ![i] = "expired"]
    BY <1>3 DEF LeaseExpires, loop
  <2>2. InHand' /\ \A w \in Workers, j \in Items : Pending(w, j)' => Pending(w, j)
    BY <2>1, HandsOff
  <2>3. \A w \in Workers : Pending(w, i) => owner[i] = w /\ pc[w] \in {"chunk", "flight"}
    BY DEF PendingOwned, Owned, Pending, InHand
  <2>4. \A w \in Workers : ~Pending(w, i)
    BY <2>1, <2>3 DEF Over
  <2>5. \A j \in Items : j # i => Keeps(j)
    BY <2>1 DEF Keeps, TypeOK, TablesTypeOK
  <2>6. Forward
    BY <2>1 DEF Forward
  <2>7. QED
    BY <2>2, <2>4, <2>5, <2>6, OwnedKept
<1>4. ASSUME NEW i \in Items, LateCommit(i) \/ LateAbort(i) PROVE InHand' /\ PendingOwned' /\ Forward
  <2>1. UNCHANGED <<pc, job, step, tables>>
    BY <1>4 DEF LateCommit, LateAbort, loop
  <2>2. InHand' /\ \A v \in Workers, j \in Items : Pending(v, j)' => Pending(v, j)
    BY <2>1, HandsOff
  <2>3. QED
    BY <2>1, <2>2, SameRows, OwnedKept
<1>5. QED
  BY <1>1, <1>2, <1>3, <1>4

-----------------------------------------------------------------------------
LEMMA Inductive ==
  ASSUME IInv, [Next]_vars
  PROVE  IInv' /\ Forward
<1> USE DEF IInv
<1>1. TypeOK'
  BY NextTyped
<1>2. ASSUME NEW w \in Workers,
             Approve(w) \/ RunStep(w) \/ RunHiccup(w) \/ ReleaseHiccup(w) \/ UserStop(w)
      PROVE  InHand' /\ PendingOwned' /\ Forward
  <2>1. CASE UserStop(w)
    BY <2>1, EnvironmentKeeps
  <2>2. CASE RunHiccup(w) \/ ReleaseHiccup(w)
    BY <2>2, HiccupKeeps
  <2>3. ASSUME NEW i \in Items, ItemStep(w, i) PROVE InHand' /\ PendingOwned' /\ Forward
    BY <2>3, ItemKeeps
  <2>4. QED
    BY <1>2, <2>1, <2>2, <2>3, RunKeeps DEF RunStep
<1>3. ASSUME NEW w \in Workers, NEW i \in Items, ItemHiccup(w, i)
      PROVE  InHand' /\ PendingOwned' /\ Forward
  BY <1>3, HiccupKeeps
<1>4. ASSUME NEW x \in Windows, Command(x) \/ CommandStep(x) \/ CommandHiccup(x) \/ Crash(x)
      PROVE  InHand' /\ PendingOwned' /\ Forward
  <2>1. CASE Crash(x)
    BY <2>1, EnvironmentKeeps
  <2>2. QED
    BY <1>4, <2>1, CommandKeeps
<1>5. ASSUME NEW i \in Items, LeaseExpires(i) \/ LateCommit(i) \/ LateAbort(i)
      PROVE  InHand' /\ PendingOwned' /\ Forward
  BY <1>5, EnvironmentKeeps
<1>6. ASSUME UNCHANGED vars PROVE InHand' /\ PendingOwned' /\ Forward
  <2>1. UNCHANGED loop /\ UNCHANGED tables
    BY <1>6 DEF vars
  <2>2. Forward /\ \A i \in Items : Keeps(i)
    BY <2>1, SameRows
  <2>3. QED
    BY <2>1, <2>2, TablesOnly
<1>7. InHand' /\ PendingOwned' /\ Forward
  BY <1>2, <1>3, <1>4, <1>5, <1>6 DEF Next
<1>8. DependencyOrder'
  BY <1>7, OrderKept DEF TypeOK
<1>9. QED
  BY <1>1, <1>7, <1>8

LEMMA InitInductive == Init /\ ~Suspends => IInv
<1>1. Init => InHand /\ PendingOwned
  BY DEF Init, InHand, PendingOwned, Pending, NoJob, Grounded
<1>2. Init => DependencyOrder
  BY DEF Init, CreateBatch, DependencyOrder
<1>3. QED
  BY <1>1, <1>2, InitTyped DEF IInv

LEMMA Invariance == Spec /\ ~Suspends => []IInv
<1>1. IInv /\ [Next]_vars => IInv'
  BY Inductive
<1>2. QED
  BY <1>1, InitInductive, PTL DEF Spec

(* As long as no lease runs out under a live run, every row that a run has *)
(* claimed and not answered for is running in the table under that run's   *)
(* live lease: no recovery, stop, retry, cancellation or second window     *)
(* takes it away.                                                          *)
THEOREM HeldRowsAreOwned == Spec /\ ~Suspends => []HeldIsOwned
<1>1. IInv => HeldIsOwned
  <2>1. SUFFICES ASSUME IInv, NEW w \in Workers, NEW i \in Held(w), step[w][i] # "fin"
                 PROVE  stat[i] = "running" /\ owner[i] = w /\ lease[i] = "live"
    BY DEF HeldIsOwned
  <2>2. i \in Items /\ (i \in job[w].unstarted \/ step[w][i] # "idle")
    BY <2>1, OfRun DEF IInv, Held, Flying
  <2>3. QED
    BY <2>1, <2>2 DEF IInv, PendingOwned, Pending, Owned
<1>2. QED
  BY <1>1, Invariance, PTL

(* Under the same assumption the claim gate holds for ever: a row runs or  *)
(* is done only when the row it waits for is done.                         *)
THEOREM OrderIsKept == Spec /\ ~Suspends => []DependencyOrder
<1>1. IInv => DependencyOrder
  BY DEF IInv
<1>2. QED
  BY <1>1, Invariance, PTL

(* And no statement takes a row out of done, not even the unguarded UPDATE *)
(* of the retry branch of item-fail.                                       *)
THEOREM DoneRowsAreFinal == Spec /\ ~Suspends => DoneIsFinal
<1>1. IInv /\ [Next]_vars => [\A i \in Items : stat[i] = "done" => stat'[i] = "done"]_vars
  BY Inductive DEF Forward
<1>2. QED
  BY <1>1, Invariance, PTL DEF Spec, DoneIsFinal

-----------------------------------------------------------------------------
(* The write of a row takes effect at most once per approval, as long as   *)
(* no lease runs out under a live run and an error means that nothing was  *)
(* written (no LOST_REPLY).                                                *)

(* Run w may still send the write of row i, or put the row back for        *)
(* another run to send it.                                                 *)
MayWrite(w, i) ==
  \/ i \in job[w].unstarted
  \/ step[w][i] \in {"exec", "cool", "again", "requeue"}
  \/ step[w][i] = "lost" /\ job[w].why[i] \in Retryable

(* Row i waits in the table for a claim, or for a revival that brings it   *)
(* there.                                                                  *)
Parked(i) == stat[i] \in {"queued", "skipped"}

(* The last approval of row i is not used up. *)
Unspent(i) == Parked(i) \/ \E w \in Workers : MayWrite(w, i)

Budget ==
  \A i \in Items :
     /\ effects[i] + late[i] <= 1 + reruns[i]
     /\ Unspent(i) => effects[i] + late[i] <= reruns[i]

(* The inductive invariant. *)
EInv == IInv /\ Budget /\ "LOST_REPLY" \notin Outcomes

-----------------------------------------------------------------------------
(* A step that writes nothing and gives no row a new chance. *)
LEMMA BudgetKept ==
  ASSUME TypeOK, Budget, UNCHANGED <<world, reruns>>,
         \A i \in Items : Parked(i)' => Unspent(i),
         \A w \in Workers, i \in Items : MayWrite(w, i)' => Unspent(i)
  PROVE  Budget'
<1>1. \A i \in Items : Unspent(i)' => Unspent(i)
  BY DEF Unspent
<1>2. UNCHANGED <<effects, late, reruns>>
  BY DEF world
<1>3. QED
  BY <1>1, <1>2 DEF Budget

(* Whoever may write a row owns it in the table. *)
LEMMA WriterOwns ==
  ASSUME IInv, NEW w \in Workers, NEW i \in Items, MayWrite(w, i)
  PROVE  Owned(w, i)
  BY DEF IInv, PendingOwned, Pending, MayWrite

(* Only a release, a requeue and a retry bring a row back into the queue.  *)
LEMMA NotParked ==
  ASSUME TablesTypeOK, NEW w,
         \/ UNCHANGED rows \/ ClaimStmt(w) \/ ParkStmt \/ ClearStmt \/ FinalizeStmt
         \/ RecoverStmt \/ ReviveStmt
         \/ \E i \in Items : DoneStmt(i) \/ \E c : FailStmt(i, c)
  PROVE  \A i \in Items : Parked(i)' => Parked(i)
<1>1. CASE UNCHANGED rows \/ FinalizeStmt
  BY <1>1 DEF rows, FinalizeStmt, Parked
<1>2. CASE ClaimStmt(w)
  BY <1>2 DEF ClaimStmt, SetTo, Parked
<1>3. CASE ParkStmt \/ ClearStmt
  BY <1>3 DEF ParkStmt, ClearStmt, SetTo, InStatus, Parked
<1>4. CASE ReviveStmt
  BY <1>4, RevivedRows DEF ReviveStmt, RequeueRows, SetTo, InStatus, Parked
<1>5. ASSUME NEW F, NEW c, NEW b, FailRows(F, c, b) PROVE \A i \in Items : Parked(i)' => Parked(i)
  BY <1>5 DEF FailRows, Parked
<1>6. CASE RecoverStmt
  BY <1>5, <1>6 DEF RecoverStmt
<1>7. CASE \E i \in Items : DoneStmt(i) \/ \E c : FailStmt(i, c)
  BY <1>5, <1>7 DEF DoneStmt, FailStmt, SetTo, Parked
<1>8. QED
  BY <1>1, <1>2, <1>3, <1>4, <1>6, <1>7

(* A step in which runs at most let go of rows, and change no verdict. *)
LEMMA LetGo ==
  ASSUME NEW w \in Workers, NEW i \in Items,
         i \in job'[w].unstarted => i \in job[w].unstarted,
         \/ step'[w][i] = "idle"
         \/ step'[w][i] = step[w][i] /\ job'[w].why[i] = job[w].why[i]
  PROVE  MayWrite(w, i)' => MayWrite(w, i)
  BY DEF MayWrite

(* The steps of a run that move no row of a flight. *)
LEMMA RunBudget ==
  ASSUME EInv, NEW w \in Workers,
         \/ Approve(w) \/ Recover(w) \/ Settle(w) \/ Read(w) \/ Leave(w) \/ Claim(w)
         \/ Launch(w) \/ Land(w) \/ BackOff(w) \/ Sync(w)
  PROVE  Budget'
<1> USE DEF EInv, IInv
<1>0. UNCHANGED <<world, reruns>> /\ TablesTypeOK
  BY DEF Approve, Recover, Settle, Read, Leave, Claim, Launch, Land, BackOff, Sync, TypeOK
<1>1. ASSUME UNCHANGED <<job, step>>, \A i \in Items : Parked(i)' => Parked(i)
      PROVE  Budget'
  BY <1>0, <1>1, BudgetKept DEF Unspent, MayWrite
<1>2. CASE Approve(w) \/ Recover(w) \/ Settle(w) \/ Read(w) \/ Sync(w)
  <2>1. /\ UNCHANGED <<job, step>>
        /\ UNCHANGED rows \/ RecoverStmt \/ FinalizeStmt
    BY <1>2 DEF Approve, Recover, Settle, Read, Sync, tables
  <2>2. QED
    BY <1>0, <1>1, <2>1, NotParked
(* The run lets go of the rows of its chunk, and none of them was flying.  *)
<1>3. ASSUME UNCHANGED step, \A i \in Items : step[w][i] = "idle",
             \A v \in Workers : v # w => job'[v] = job[v],
             job'[w].unstarted = {}, \A i \in Items : Parked(i)' => Unspent(i)
      PROVE  Budget'
  <2>1. ASSUME NEW v \in Workers, NEW i \in Items, MayWrite(v, i)' PROVE MayWrite(v, i)
    BY <1>3, <2>1 DEF MayWrite
  <2>2. QED
    BY <1>0, <1>3, <2>1, BudgetKept DEF Unspent
<1>4. ASSUME Exit(w) PROVE (\A v \in Workers : v # w => job'[v] = job[v]) /\ job'[w].unstarted = {}
  BY <1>4 DEF Exit, TypeOK, NoJob
<1>5. ASSUME pc[w] \notin {"chunk", "flight"} PROVE \A i \in Items : i \notin job[w].unstarted /\ step[w][i] = "idle"
  BY <1>5 DEF InHand
<1>6. CASE Leave(w)
  <2>1. Exit(w) /\ UNCHANGED <<step, rows>> /\ pc[w] = "top"
    BY <1>6 DEF Leave, tables
  <2>2. QED
    BY <1>0, <1>3, <1>4, <1>5, <2>1, NotParked DEF Unspent
<1>7. CASE BackOff(w)
  <2>1. UNCHANGED <<step, rows>> /\ pc[w] = "backoff"
    BY <1>7 DEF BackOff, tables
  <2>2. Exit(w) \/ job' = [job EXCEPT ![w] = NoJob]
    BY <1>7 DEF BackOff
  <2>3. (\A v \in Workers : v # w => job'[v] = job[v]) /\ job'[w].unstarted = {}
    BY <1>4, <2>2 DEF TypeOK, NoJob
  <2>4. QED
    BY <1>0, <1>3, <1>5, <2>1, <2>3, NotParked DEF Unspent
<1>8. CASE Claim(w)
  <2>1. /\ pc[w] = "top" /\ UNCHANGED step /\ \A i \in Items : Parked(i)' => Parked(i)
    BY <1>0, <1>8, NotParked DEF Claim
  <2>2. CASE Exit(w)
    BY <1>3, <1>4, <1>5, <2>1, <2>2 DEF Unspent
  <2>3. CASE UNCHANGED job
    BY <1>1, <2>1, <2>3
  <2>4. CASE job' = [job EXCEPT ![w] =
                     [NoJob EXCEPT !.round = Claimable, !.unstarted = Claimable,
                        !.seen = [i \in Items |-> IF i \in Claimable THEN attempts[i] ELSE 0]]]
    <3>1. (\A v \in Workers : v # w => job'[v] = job[v]) /\ job'[w].unstarted = Claimable
      BY <2>4 DEF TypeOK, NoJob
    <3>2. \A i \in Claimable : Parked(i)
      BY DEF Claimable, Ready, Parked
    <3>3. ASSUME NEW v \in Workers, NEW i \in Items, MayWrite(v, i)' PROVE Unspent(i)
      <4>1. CASE v = w
        BY <1>5, <2>1, <3>1, <3>2, <3>3, <4>1 DEF MayWrite, Unspent
      <4>2. CASE v # w
        BY <2>1, <3>1, <3>3, <4>2 DEF MayWrite, Unspent
      <4>3. QED
        BY <4>1, <4>2
    <3>4. QED
      BY <1>0, <2>1, <3>3, BudgetKept DEF Unspent
  <2>5. QED
    BY <1>8, <2>2, <2>3, <2>4 DEF Claim
<1>9. CASE Launch(w)
  <2>1. /\ UNCHANGED rows
        /\ \A v \in Workers : v # w => job'[v] = job[v] /\ step'[v] = step[v]
    BY <1>9 DEF Launch, TypeOK, tables
  <2>2. \A i \in Items : MayWrite(w, i)' => i \in job[w].unstarted
    <3> DEFINE flight == NextFlight(job[w].round, job[w].unstarted)
               resolved == {i \in flight : Uses[i] \subseteq local[w].outputs}
               why == [i \in Items |-> IF i \in flight \ resolved THEN "UNRESOLVED_REF" ELSE "none"]
               next == [i \in Items |-> IF i \in resolved THEN "exec"
                                        ELSE IF i \in flight THEN "lost" ELSE "idle"]
    <3>1. /\ job' = [job EXCEPT ![w].unstarted = @ \ flight, ![w].why = why]
          /\ step' = [step EXCEPT ![w] = next]
      BY <1>9 DEF Launch
    <3>2. flight \subseteq job[w].unstarted
      BY FlightLeft
    <3>3. \A i \in Items : next[i] # "idle" => i \in flight
      OBVIOUS
    <3> HIDE DEF flight, why, next
    <3>4. job[w] \in Jobs
      BY OfRun
    <3>5. [job[w] EXCEPT !.unstarted = @ \ flight, !.why = why].unstarted = job[w].unstarted \ flight
      BY <3>4 DEF Jobs
    <3>6. job'[w].unstarted = job[w].unstarted \ flight /\ step'[w] = next
      BY <3>1, <3>5 DEF TypeOK
    <3>7. QED
      BY <3>2, <3>3, <3>6 DEF MayWrite
  <2>3. \A v \in Workers, i \in Items : MayWrite(v, i)' => MayWrite(v, i)
    BY <2>1, <2>2 DEF MayWrite
  <2>4. QED
    BY <1>0, <2>1, <2>3, NotParked, BudgetKept DEF Unspent
<1>10. CASE Land(w)
  <2>1. UNCHANGED step /\ \A i \in Items : step[w][i] = "idle"
    BY <1>10 DEF Land, Flying
  <2>2. \A i \in Items : Parked(i)' => Parked(i) \/ i \in job[w].unstarted
    <3>1. CASE ReleaseStmt(w, job[w].unstarted)
      BY <3>1 DEF ReleaseStmt, SetTo, Parked
    <3>2. CASE UNCHANGED rows
      BY <1>0, <3>2, NotParked
    <3>3. QED
      BY <1>10, <3>1, <3>2 DEF Land, tables
  <2>3. \A i \in Items : Parked(i)' => Unspent(i)
    BY <2>2 DEF Unspent, MayWrite
  <2>4. CASE Exit(w)
    BY <1>3, <1>4, <2>1, <2>3, <2>4
  <2>5. CASE job' = [job EXCEPT ![w] = [NoJob EXCEPT !.delay = job[w].delay]]
    <3>1. (\A v \in Workers : v # w => job'[v] = job[v]) /\ job'[w].unstarted = {}
      BY <2>5 DEF TypeOK, NoJob
    <3>2. QED
      BY <1>3, <2>1, <2>3, <3>1
  <2>6. CASE UNCHANGED job
    BY <1>0, <2>1, <2>3, <2>6, BudgetKept DEF MayWrite, Unspent
  <2>7. QED
    BY <1>10, <2>4, <2>5, <2>6 DEF Land
<1>11. QED
  BY <1>2, <1>6, <1>7, <1>8, <1>9, <1>10

(* A step of one row of a flight that writes nothing.                      *)
LEMMA MoveBudget ==
  ASSUME EInv, NEW w \in Workers, NEW i \in Items, NEW s, StepTo(w, i, s),
         UNCHANGED <<world, reruns>>,
         \A v \in Workers, j \in Items :
            /\ j \in job'[v].unstarted => j \in job[v].unstarted
            /\ v # w \/ j # i => job'[v].why[j] = job[v].why[j],
         \A j \in Items : Parked(j)' => Unspent(j),
         s \in {"exec", "cool", "again", "requeue", "lost"} => Unspent(i)
  PROVE  Budget'
<1>1. \A v \in Workers, j \in Items : step'[v][j] = IF v = w /\ j = i THEN s ELSE step[v][j]
  BY DEF StepTo, EInv, IInv, TypeOK
<1>2. ASSUME NEW v \in Workers, NEW j \in Items, MayWrite(v, j)' PROVE Unspent(j)
  <2>1. CASE v = w /\ j = i
    BY <1>1, <1>2, <2>1 DEF MayWrite, Unspent
  <2>2. CASE v # w \/ j # i
    BY <1>1, <1>2, <2>2 DEF MayWrite, Unspent
  <2>3. QED
    BY <2>1, <2>2
<1>3. QED
  BY <1>2, BudgetKept DEF EInv, IInv

(* What a step of a row does to the records of the runs. *)
LEMMA MarkRecord ==
  ASSUME TypeOK, NEW w \in Workers, NEW m, Mark(w, m) \/ UNCHANGED job, NEW v \in Workers
  PROVE  job'[v].unstarted = job[v].unstarted /\ job'[v].why = job[v].why
<1>1. job[w] \in Jobs
  BY OfRun
<1>2. /\ [job[w] EXCEPT !.marks = @ \cup {m}].unstarted = job[w].unstarted
      /\ [job[w] EXCEPT !.marks = @ \cup {m}].why = job[w].why
  BY <1>1 DEF Jobs
<1>3. QED
  BY <1>2 DEF Mark, TypeOK

LEMMA GiveUpRecord ==
  ASSUME TypeOK, NEW w \in Workers, NEW i \in Items, GiveUp(w, i), NEW v \in Workers
  PROVE  job'[v].unstarted \subseteq job[v].unstarted /\ job'[v].why = job[v].why
  BY OfRun DEF GiveUp, TypeOK, Jobs

LEMMA DelayRecord ==
  ASSUME TypeOK, NEW w \in Workers, NEW d, job' = [job EXCEPT ![w].delay = d], NEW v \in Workers
  PROVE  job'[v].unstarted = job[v].unstarted /\ job'[v].why = job[v].why
  BY OfRun DEF TypeOK, Jobs

(* Row i of run w fails with code c. *)
Verdict(w, i, c) == job' = [job EXCEPT ![w].why[i] = c]

LEMMA VerdictRecord ==
  ASSUME TypeOK, NEW w \in Workers, NEW i \in Items, NEW c, Verdict(w, i, c)
  PROVE  /\ \A v \in Workers : job'[v].unstarted = job[v].unstarted
         /\ \A v \in Workers, j \in Items :
               v # w \/ j # i => job'[v].why[j] = job[v].why[j]
         /\ job'[w].why[i] = c
<1>1. job[w] \in Jobs /\ job[w].why \in [Items -> Codes]
  BY OfRun
<1>2. DEFINE mine == [job[w] EXCEPT !.why[i] = c]
<1>3. mine.unstarted = job[w].unstarted /\ mine.why = [job[w].why EXCEPT ![i] = c]
  BY <1>1 DEF Jobs
<1>4. job' = [job EXCEPT ![w] = mine]
  BY DEF Verdict
<1> HIDE DEF mine
<1>5. QED
  BY <1>1, <1>3, <1>4 DEF TypeOK

(* One more write of row i, in either of the two counts. *)
LEMMA OneMore ==
  ASSUME NEW f \in [Items -> Nat], NEW g \in [Items -> Nat], NEW i \in Items
  PROVE  LET h == [f EXCEPT ![i] = @ + 1]
         IN  /\ h \in [Items -> Nat]
             /\ h[i] + g[i] = f[i] + g[i] + 1 /\ g[i] + h[i] = g[i] + f[i] + 1
             /\ \A j \in Items : j # i => h[j] = f[j]
  OBVIOUS

(* The write of a row is sent, and takes effect now or later: the row was  *)
(* an unspent one, and its run was the only one that could send it.        *)
LEMMA WriteBudget ==
  ASSUME EInv, NEW w \in Workers, NEW i \in Items, step[w][i] \in {"exec", "again"},
         UNCHANGED <<rows, reruns>>, NEW s, StepTo(w, i, s),
         effects' \in [Items -> Nat], late' \in [Items -> Nat],
         effects'[i] + late'[i] = effects[i] + late[i] + 1,
         \A j \in Items : j # i => effects'[j] = effects[j] /\ late'[j] = late[j],
         \A v \in Workers, j \in Items :
            /\ j \in job'[v].unstarted => j \in job[v].unstarted
            /\ v # w \/ j # i => job'[v].why[j] = job[v].why[j],
         s = "won" \/ (s = "lost" /\ job'[w].why[i] \notin Retryable)
  PROVE  Budget'
<1> USE DEF EInv, IInv
<1>1. \A v \in Workers, j \in Items : step'[v][j] = IF v = w /\ j = i THEN s ELSE step[v][j]
  BY DEF StepTo, TypeOK
<1>2. MayWrite(w, i) /\ i \notin job[w].unstarted
  BY DEF MayWrite, InHand
<1>3. Owned(w, i) /\ \A v \in Workers : MayWrite(v, i) => v = w
  BY <1>2, WriterOwns DEF Owned
<1>4. ~Unspent(i)'
  <2>1. ~Parked(i)'
    BY <1>3 DEF Owned, Parked, rows
  <2>2. ~MayWrite(w, i)'
    BY <1>1, <1>2 DEF MayWrite
  <2>3. ASSUME NEW v \in Workers, v # w PROVE ~MayWrite(v, i)'
    BY <1>1, <1>3, <2>3 DEF MayWrite
  <2>4. QED
    BY <2>1, <2>2, <2>3 DEF Unspent
<1>5. ASSUME NEW j \in Items, j # i PROVE Unspent(j)' => Unspent(j)
  BY <1>1, <1>5 DEF Unspent, MayWrite, Parked, rows
<1>6. effects[i] + late[i] <= reruns[i] /\ effects[i] \in Nat /\ late[i] \in Nat /\ reruns[i] \in Nat
  BY <1>2 DEF Budget, Unspent, TypeOK
<1>7. effects'[i] + late'[i] <= 1 + reruns'[i]
  BY <1>6
<1>8. QED
  BY <1>4, <1>5, <1>7 DEF Budget

LEMMA ItemBudget ==
  ASSUME EInv, NEW w \in Workers, NEW i \in Items, ItemStep(w, i)
  PROVE  Budget'
<1> USE DEF EInv, IInv
<1>0. TablesTypeOK
  BY DEF TypeOK
<1>1. ASSUME step[w][i] \in {"exec", "cool", "again", "requeue"} PROVE Unspent(i)
  BY <1>1 DEF Unspent, MayWrite
<1>2. CASE ExecOk(w, i)
  <2>1. /\ step[w][i] \in {"exec", "again"} /\ StepTo(w, i, "won")
        /\ UNCHANGED <<rows, job, late, reruns>>
        /\ effects' = [effects EXCEPT ![i] = @ + 1]
    BY <1>2 DEF ExecOk, tables
  <2>2. /\ effects' \in [Items -> Nat] /\ late' \in [Items -> Nat]
        /\ effects'[i] + late'[i] = effects[i] + late[i] + 1
        /\ \A j \in Items : j # i => effects'[j] = effects[j] /\ late'[j] = late[j]
    <3>1. effects \in [Items -> Nat] /\ late \in [Items -> Nat] /\ late' = late
      BY <2>1 DEF TypeOK
    <3>2. QED
      BY <2>1, <3>1, OneMore
  <2>3. \A v \in Workers, j \in Items :
           /\ j \in job'[v].unstarted => j \in job[v].unstarted
           /\ v # w \/ j # i => job'[v].why[j] = job[v].why[j]
    BY <2>1
  <2>4. UNCHANGED <<rows, reruns>> /\ step[w][i] \in {"exec", "again"} /\ StepTo(w, i, "won")
    BY <2>1
  <2>5. QED
    <3>1. ASSUME NEW s, s = "won", StepTo(w, i, s) PROVE Budget'
      BY <2>2, <2>3, <2>4, <3>1, WriteBudget
    <3>2. QED
      BY <2>4, <3>1
<1>3. ASSUME NEW c \in Outcomes, ExecFail(w, i, c) PROVE Budget'
  <2>1. step[w][i] \in {"exec", "again"} /\ UNCHANGED <<rows, reruns, effects>> /\ c # "LOST_REPLY"
    BY <1>3 DEF ExecFail, tables
  <2>2. CASE c = "TIMEOUT"
    <3>1. /\ StepTo(w, i, "lost") /\ Verdict(w, i, c)
          /\ late' = [late EXCEPT ![i] = @ + 1]
      BY <1>3, <2>2 DEF ExecFail, Verdict
    <3>2. /\ effects' \in [Items -> Nat] /\ late' \in [Items -> Nat]
          /\ effects'[i] + late'[i] = effects[i] + late[i] + 1
          /\ \A j \in Items : j # i => effects'[j] = effects[j] /\ late'[j] = late[j]
      <4>1. effects \in [Items -> Nat] /\ late \in [Items -> Nat] /\ effects' = effects
        BY <2>1 DEF TypeOK
      <4>2. QED
        BY <3>1, <4>1, OneMore
    <3>3. c \notin Retryable
      BY <2>2 DEF Retryable
    <3>4. /\ \A v \in Workers : job'[v].unstarted = job[v].unstarted
          /\ \A v \in Workers, j \in Items :
               v # w \/ j # i => job'[v].why[j] = job[v].why[j]
          /\ job'[w].why[i] = c
      BY <3>1, VerdictRecord
    <3>5. \A v \in Workers, j \in Items :
             /\ j \in job'[v].unstarted => j \in job[v].unstarted
             /\ v # w \/ j # i => job'[v].why[j] = job[v].why[j]
      BY <3>4
    <3>6. QED
      BY <2>1, <3>1, <3>2, <3>3, <3>4, <3>5, WriteBudget
  <2>3. CASE c # "TIMEOUT"
    <3>1. /\ UNCHANGED world
          /\ \/ StepTo(w, i, "cool") /\ UNCHANGED job
             \/ StepTo(w, i, "lost") /\ Verdict(w, i, c)
      BY <1>3, <2>1, <2>3 DEF ExecFail, Verdict, world
    <3>2. \A v \in Workers, j \in Items :
             /\ j \in job'[v].unstarted => j \in job[v].unstarted
             /\ v # w \/ j # i => job'[v].why[j] = job[v].why[j]
      <4>1. CASE UNCHANGED job
        BY <4>1
      <4>2. CASE Verdict(w, i, c)
        <5>1. /\ \A v \in Workers : job'[v].unstarted = job[v].unstarted
              /\ \A v \in Workers, j \in Items :
                   v # w \/ j # i => job'[v].why[j] = job[v].why[j]
              /\ job'[w].why[i] = c
          BY <4>2, VerdictRecord
        <5>2. QED
          BY <5>1
      <4>3. QED
        BY <3>1, <4>1, <4>2
    <3>3. Unspent(i) /\ \A j \in Items : Parked(j)' => Unspent(j)
      BY <1>0, <1>1, <2>1, NotParked DEF Unspent
    <3>4. QED
      BY <2>1, <3>1, <3>2, <3>3, MoveBudget
  <2>4. QED
    BY <2>2, <2>3
<1>4. ASSUME UNCHANGED <<rows, job, world, reruns>>, NEW s, StepTo(w, i, s),
             s \in {"exec", "cool", "again", "requeue", "lost"} => Unspent(i)
      PROVE  Budget'
  BY <1>0, <1>4, NotParked, MoveBudget DEF Unspent
<1>5. CASE CoolDown(w, i)
  BY <1>1, <1>4, <1>5 DEF CoolDown, tables
<1>6. CASE CoolStop(w, i)
  <2>1. /\ step[w][i] = "cool" /\ StepTo(w, i, "idle") /\ UNCHANGED <<world, reruns>>
        /\ ReleaseStmt(w, job[w].unstarted \cup {i})
    BY <1>6 DEF CoolStop, GiveUp
  <2>2. \A v \in Workers, j \in Items :
           /\ j \in job'[v].unstarted => j \in job[v].unstarted
           /\ job'[v].why[j] = job[v].why[j]
    BY <1>6, GiveUpRecord DEF CoolStop
  <2>3. \A j \in Items : Parked(j)' => Parked(j) \/ j = i \/ j \in job[w].unstarted
    BY <2>1 DEF ReleaseStmt, SetTo, Parked
  <2>4. \A j \in Items : Parked(j)' => Unspent(j)
    BY <1>1, <2>1, <2>3 DEF Unspent, MayWrite
  <2>5. QED
    BY <2>1, <2>2, <2>4, MoveBudget
<1>7. CASE Done(w, i)
  <2>1. /\ UNCHANGED <<world, reruns>> /\ (DoneStmt(i) \/ UNCHANGED rows)
        /\ StepTo(w, i, "fin") \/ StepTo(w, i, "idle")
        /\ Mark(w, "break") \/ UNCHANGED job
    BY <1>7 DEF Done, tables
  <2>2. \A j \in Items : Parked(j)' => Unspent(j)
    BY <1>0, <2>1, NotParked DEF Unspent
  <2>3. \A v \in Workers : job'[v].unstarted = job[v].unstarted /\ job'[v].why = job[v].why
    BY <2>1, MarkRecord
  <2>4. QED
    BY <2>1, <2>2, <2>3, MoveBudget
<1>8. CASE FailSelect(w, i)
  <2> DEFINE retried == stat[i] = "running" /\ job[w].why[i] \in Retryable /\ attempts[i] < MaxAttempts
             s == IF stat[i] # "running" THEN "idle"
                  ELSE IF job[w].why[i] \in Retryable /\ attempts[i] < MaxAttempts
                       THEN "requeue" ELSE "bury"
  <2>1. step[w][i] = "lost" /\ StepTo(w, i, s) /\ UNCHANGED <<rows, job, world, reruns>>
    BY <1>8 DEF FailSelect, tables
  <2>2. s \in {"exec", "cool", "again", "requeue", "lost"} => Unspent(i)
    BY <2>1 DEF Unspent, MayWrite
  <2>3. QED
    BY <1>4, <2>1, <2>2
<1>9. CASE Requeue(w, i)
  <2> DEFINE d == RetryDelay(job[w].seen[i])
             e == IF d > job[w].delay THEN d ELSE job[w].delay
  <2>1. /\ step[w][i] = "requeue" /\ StepTo(w, i, "idle") /\ RequeueStmt(i, job[w].why[i])
        /\ UNCHANGED <<world, reruns>> /\ job' = [job EXCEPT ![w].delay = e]
    BY <1>9 DEF Requeue
  <2> HIDE DEF e
  <2>2. \A v \in Workers : job'[v].unstarted = job[v].unstarted /\ job'[v].why = job[v].why
    BY <2>1, DelayRecord
  <2>3. \A j \in Items : Parked(j)' => Parked(j) \/ j = i
    BY <2>1 DEF RequeueStmt, SetTo, Parked
  <2>4. \A j \in Items : Parked(j)' => Unspent(j)
    BY <1>1, <2>1, <2>3 DEF Unspent
  <2>5. QED
    BY <2>1, <2>2, <2>4, MoveBudget
<1>10. CASE Bury(w, i)
  <2>1. /\ UNCHANGED <<world, reruns, job>> /\ ((\E c : FailStmt(i, c)) \/ UNCHANGED rows)
        /\ StepTo(w, i, "fin") \/ StepTo(w, i, "idle")
    BY <1>10 DEF Bury, tables
  <2>2. \A j \in Items : Parked(j)' => Unspent(j)
    BY <1>0, <2>1, NotParked DEF Unspent
  <2>3. QED
    BY <2>1, <2>2, MoveBudget
<1>11. CASE Finish(w, i)
  <2>1. /\ UNCHANGED <<world, reruns>> /\ FinalizeStmt /\ StepTo(w, i, "idle")
        /\ Mark(w, "terminal") \/ UNCHANGED job
    BY <1>11 DEF Finish
  <2>2. \A j \in Items : Parked(j)' => Unspent(j)
    BY <1>0, <2>1, NotParked DEF Unspent
  <2>3. \A v \in Workers : job'[v].unstarted = job[v].unstarted /\ job'[v].why = job[v].why
    BY <2>1, MarkRecord
  <2>4. QED
    BY <2>1, <2>2, <2>3, MoveBudget
<1>12. QED
  BY <1>2, <1>3, <1>5, <1>6, <1>7, <1>8, <1>9, <1>10, <1>11 DEF ItemStep, Executes

(* A statement of a run fails: the rows it was about stay as they are. *)
LEMMA HiccupBudget ==
  ASSUME EInv, NEW w \in Workers,
         RunHiccup(w) \/ ReleaseHiccup(w) \/ \E i \in Items : ItemHiccup(w, i)
  PROVE  Budget'
<1> USE DEF EInv, IInv
<1>1. UNCHANGED <<rows, world, reruns>> /\ TablesTypeOK
  BY DEF RunHiccup, ReleaseHiccup, ItemHiccup, tables, TypeOK
<1>2. \A j \in Items : Parked(j)' => Unspent(j)
  BY <1>1, NotParked DEF Unspent
<1>3. ASSUME NEW i \in Items, ItemHiccup(w, i) PROVE Budget'
  <2>1. StepTo(w, i, "idle") /\ (Mark(w, "break") \/ UNCHANGED job)
    BY <1>3 DEF ItemHiccup
  <2>2. \A v \in Workers : job'[v].unstarted = job[v].unstarted /\ job'[v].why = job[v].why
    BY <2>1, MarkRecord
  <2>3. QED
    BY <1>1, <1>2, <2>1, <2>2, MoveBudget
<1>4. ASSUME NEW i \in Items, GiveUp(w, i) PROVE Budget'
  <2>1. StepTo(w, i, "idle")
    BY <1>4 DEF GiveUp
  <2>2. \A v \in Workers, j \in Items :
           /\ j \in job'[v].unstarted => j \in job[v].unstarted
           /\ job'[v].why[j] = job[v].why[j]
    BY <1>4, GiveUpRecord
  <2>3. QED
    BY <1>1, <1>2, <2>1, <2>2, MoveBudget
<1>5. ASSUME UNCHANGED step, UNCHANGED job PROVE Budget'
  BY <1>1, <1>2, <1>5, BudgetKept DEF MayWrite, Unspent
<1>6. ASSUME UNCHANGED step, Exit(w), \A j \in Items : step[w][j] = "idle" PROVE Budget'
  <2>1. (\A v \in Workers : v # w => job'[v] = job[v]) /\ job'[w].unstarted = {}
    BY <1>6 DEF Exit, TypeOK, NoJob
  <2>2. ASSUME NEW v \in Workers, NEW j \in Items, MayWrite(v, j)' PROVE Unspent(j)
    BY <1>6, <2>1, <2>2 DEF MayWrite, Unspent
  <2>3. QED
    BY <1>1, <1>2, <2>2, BudgetKept
<1>7. CASE RunHiccup(w)
  <2>1. pc[w] = "read" => \A j \in Items : step[w][j] = "idle"
    BY DEF InHand
  <2>2. QED
    BY <1>5, <1>6, <1>7, <2>1 DEF RunHiccup
<1>8. CASE ReleaseHiccup(w)
  BY <1>4, <1>6, <1>8 DEF ReleaseHiccup, Flying
<1>9. QED
  BY <1>3, <1>7, <1>8

(* The user's commands give a row a new chance only when they grant it one *)
(* more effect.                                                            *)
LEMMA CommandBudget ==
  ASSUME EInv, NEW x \in Windows, Command(x) \/ CommandStep(x) \/ CommandHiccup(x)
  PROVE  Budget'
<1> USE DEF EInv, IInv
<1>0. UNCHANGED <<world, job, step>> /\ TablesTypeOK
  <2>1. CASE Command(x)
    BY <2>1 DEF Command, Pause, Unpause, Cancel, Clear, PressRetry, Resume, loop, TypeOK
  <2>2. CASE CommandStep(x)
    BY <2>2 DEF CommandStep, Park, Bump, CloseStuck, RequeueFailed, Revive, Reopen, ResumePaused,
                StartRun, loop, TypeOK
  <2>3. CASE CommandHiccup(x)
    BY <2>3 DEF CommandHiccup, loop, TypeOK
  <2>4. QED
    BY <2>1, <2>2, <2>3
<1>1. ASSUME UNCHANGED reruns, \A i \in Items : Parked(i)' => Parked(i) PROVE Budget'
  BY <1>0, <1>1, BudgetKept DEF MayWrite, Unspent
<1>2. ASSUME UNCHANGED reruns, UNCHANGED rows \/ ParkStmt \/ ClearStmt \/ ReviveStmt PROVE Budget'
  BY <1>0, <1>1, <1>2, NotParked
<1>3. CASE RequeueFailed(x)
  <2>1. /\ RequeueRows(InStatus("failed"))
        /\ reruns' = [i \in Items |-> reruns[i] + (IF stat[i] = "failed" THEN 1 ELSE 0)]
    BY <1>3 DEF RequeueFailed, RetryRequeueStmt
  <2>2. \A i \in Items : Parked(i)' => Parked(i) \/ stat[i] = "failed"
    BY <2>1 DEF RequeueRows, SetTo, InStatus, Parked
  <2>3. \A i \in Items : Unspent(i)' => Unspent(i) \/ stat[i] = "failed"
    BY <1>0, <2>2 DEF Unspent, MayWrite
  <2>4. \A i \in Items : /\ effects'[i] = effects[i] /\ late'[i] = late[i]
                         /\ reruns'[i] = reruns[i] + (IF stat[i] = "failed" THEN 1 ELSE 0)
                         /\ effects[i] \in Nat /\ late[i] \in Nat /\ reruns[i] \in Nat
    BY <1>0, <2>1 DEF TypeOK, world
  <2>5. ASSUME NEW i \in Items
        PROVE  /\ effects'[i] + late'[i] <= 1 + reruns'[i]
               /\ Unspent(i)' => effects'[i] + late'[i] <= reruns'[i]
    <3>1. CASE stat[i] = "failed"
      <4>1. effects[i] + late[i] <= 1 + reruns[i]
        BY DEF Budget
      <4>2. reruns'[i] = reruns[i] + 1 /\ effects'[i] + late'[i] = effects[i] + late[i]
        BY <2>4, <3>1
      <4>3. QED
        BY <2>4, <4>1, <4>2
    <3>2. CASE stat[i] # "failed"
      <4>1. reruns'[i] = reruns[i] /\ effects'[i] + late'[i] = effects[i] + late[i]
        BY <2>4, <3>2
      <4>2. Unspent(i)' => Unspent(i)
        BY <2>3, <3>2
      <4>3. QED
        BY <4>1, <4>2 DEF Budget
    <3>3. QED
      BY <3>1, <3>2
  <2>6. QED
    BY <2>5 DEF Budget
<1>4. CASE Command(x)
  <2>1. UNCHANGED reruns /\ (UNCHANGED rows \/ ClearStmt)
    BY <1>4 DEF Command, Pause, Unpause, Cancel, SetStatusStmt, Clear, PressRetry, Resume, tables
  <2>2. QED
    BY <1>2, <2>1
<1>5. CASE CommandHiccup(x)
  BY <1>2, <1>5 DEF CommandHiccup, tables
<1>6. CASE CommandStep(x) /\ ~RequeueFailed(x)
  <2>1. UNCHANGED reruns /\ (UNCHANGED rows \/ ParkStmt \/ ReviveStmt)
    BY <1>6 DEF CommandStep, Park, Bump, BumpSkippedStmt, CloseStuck, CloseStuckStmt, Revive,
                Reopen, ReopenStmt, ResumePaused, SetStatusStmt, StartRun, tables
  <2>2. QED
    BY <1>2, <2>1
<1>7. QED
  BY <1>3, <1>4, <1>5, <1>6

(* A window that dies may leave one write of each row behind: no row has   *)
(* two writers.                                                            *)
LEMMA CrashBudget ==
  ASSUME EInv, NEW x \in Windows, Crash(x)
  PROVE  Budget'
<1> USE DEF EInv, IInv
<1> DEFINE dead == {w \in Workers : WindowOf[w] = x /\ Active(w)}
           sent(i) == {w \in dead : step[w][i] \in {"exec", "again"}}
<1>1. /\ job' = [w \in Workers |-> IF w \in dead THEN NoJob ELSE job[w]]
      /\ step' = [w \in Workers |-> IF w \in dead THEN Grounded ELSE step[w]]
      /\ late' = [i \in Items |-> late[i] + Cardinality(sent(i))]
      /\ UNCHANGED <<rows, effects, reruns>>
  BY DEF Crash, tables
<1>2. \A w \in dead, i \in Items : ~MayWrite(w, i)'
  BY <1>1 DEF MayWrite, NoJob, Grounded
<1>3. \A w \in Workers, i \in Items : MayWrite(w, i)' => MayWrite(w, i) /\ w \notin dead
  BY <1>1, <1>2 DEF MayWrite
<1>4. \A i \in Items : Parked(i)' <=> Parked(i)
  BY <1>1 DEF Parked, rows
<1>5. SUFFICES ASSUME NEW i \in Items
               PROVE  /\ effects'[i] + late'[i] <= 1 + reruns'[i]
                      /\ Unspent(i)' => effects'[i] + late'[i] <= reruns'[i]
  BY DEF Budget
<1>6. /\ effects'[i] = effects[i] /\ reruns'[i] = reruns[i]
      /\ late'[i] = late[i] + Cardinality(sent(i))
      /\ effects[i] \in Nat /\ late[i] \in Nat /\ reruns[i] \in Nat
  BY <1>1 DEF TypeOK
<1>7. CASE sent(i) = {}
  <2>1. Cardinality(sent(i)) = 0
    BY <1>7, FS_EmptySet
  <2>2. Unspent(i)' => Unspent(i)
    BY <1>3, <1>4 DEF Unspent
  <2>3. effects'[i] + late'[i] = effects[i] + late[i] /\ reruns'[i] = reruns[i]
    BY <1>6, <2>1
  <2>4. QED
    BY <2>2, <2>3 DEF Budget
<1>8. CASE sent(i) # {}
  <2>1. PICK w \in sent(i) : TRUE
    BY <1>8
  <2>2. w \in Workers /\ MayWrite(w, i) /\ Owned(w, i)
    BY <2>1, WriterOwns DEF MayWrite
  <2>3. \A v \in Workers : MayWrite(v, i) => v = w
    BY <2>2, WriterOwns DEF Owned
  <2>4. sent(i) = {w}
    BY <2>1, <2>3 DEF MayWrite
  <2>5. Cardinality(sent(i)) = 1
    BY <2>4, FS_Singleton
  <2>6. ~Unspent(i)'
    BY <1>3, <1>4, <2>1, <2>2, <2>3 DEF Unspent, Owned, Parked
  <2>7. effects[i] + late[i] <= reruns[i]
    BY <2>2 DEF Budget, Unspent
  <2>8. effects'[i] + late'[i] <= 1 + reruns'[i]
    BY <1>6, <2>5, <2>7
  <2>9. QED
    BY <2>6, <2>8
<1>9. QED
  BY <1>7, <1>8

LEMMA EnvironmentBudget ==
  ASSUME EInv,
         \/ \E w \in Workers : UserStop(w)
         \/ \E i \in Items : LeaseExpires(i) \/ LateCommit(i) \/ LateAbort(i)
  PROVE  Budget'
<1> USE DEF EInv, IInv
<1>1. UNCHANGED <<step, stat, reruns>> /\ \A v \in Workers : job'[v] = job[v]
  BY DEF UserStop, LeaseExpires, LateCommit, LateAbort, loop, tables, rows
<1>2. \A i \in Items : Unspent(i)' => Unspent(i)
  BY <1>1 DEF Unspent, Parked, MayWrite
<1>3. CASE (\E w \in Workers : UserStop(w)) \/ \E i \in Items : LeaseExpires(i)
  <2>1. UNCHANGED <<effects, late>>
    BY <1>3 DEF UserStop, LeaseExpires, world
  <2>2. QED
    BY <1>1, <1>2, <2>1 DEF Budget
<1>4. ASSUME NEW i \in Items, LateCommit(i) \/ LateAbort(i) PROVE Budget'
  <2>1. \A j \in Items : /\ effects[j] \in Nat /\ late[j] \in Nat /\ reruns[j] \in Nat
                         /\ effects'[j] + late'[j] <= effects[j] + late[j]
    <3>1. effects \in [Items -> Nat] /\ late \in [Items -> Nat] /\ reruns \in [Items -> Nat]
      BY DEF TypeOK
    <3>2. late' = [late EXCEPT ![i] = @ - 1] /\ (effects' = effects \/ effects' = [effects EXCEPT ![i] = @ + 1])
      BY <1>4 DEF LateCommit, LateAbort
    <3>3. ASSUME NEW j \in Items
          PROVE  /\ late'[j] = IF j = i THEN late[j] - 1 ELSE late[j]
                 /\ \/ effects'[j] = effects[j]
                    \/ j = i /\ effects'[j] = effects[j] + 1
      BY <3>1, <3>2
    <3>4. QED
      BY <3>1, <3>3
  <2>2. \A j \in Items : effects'[j] \in Nat /\ late'[j] \in Nat
    BY EnvironmentTyped, <1>4 DEF TypeOK
  <2>3. QED
    BY <1>1, <1>2, <2>1, <2>2 DEF Budget
<1>5. QED
  BY <1>3, <1>4

-----------------------------------------------------------------------------
LEMMA BudgetInductive ==
  ASSUME EInv, [Next]_vars
  PROVE  EInv'
<1>1. IInv' /\ ("LOST_REPLY" \notin Outcomes)'
  BY Inductive DEF EInv
<1>2. ASSUME NEW w \in Workers,
             Approve(w) \/ RunStep(w) \/ RunHiccup(w) \/ ReleaseHiccup(w) \/ UserStop(w)
      PROVE  Budget'
  <2>1. CASE UserStop(w)
    BY <2>1, EnvironmentBudget
  <2>2. CASE RunHiccup(w) \/ ReleaseHiccup(w)
    BY <2>2, HiccupBudget
  <2>3. ASSUME NEW i \in Items, ItemStep(w, i) PROVE Budget'
    BY <2>3, ItemBudget
  <2>4. QED
    BY <1>2, <2>1, <2>2, <2>3, RunBudget DEF RunStep
<1>3. ASSUME NEW w \in Workers, NEW i \in Items, ItemHiccup(w, i) PROVE Budget'
  BY <1>3, HiccupBudget
<1>4. ASSUME NEW x \in Windows, Command(x) \/ CommandStep(x) \/ CommandHiccup(x) \/ Crash(x)
      PROVE  Budget'
  BY <1>4, CommandBudget, CrashBudget
<1>5. ASSUME NEW i \in Items, LeaseExpires(i) \/ LateCommit(i) \/ LateAbort(i) PROVE Budget'
  BY <1>5, EnvironmentBudget
<1>6. ASSUME UNCHANGED vars PROVE Budget'
  BY <1>6 DEF vars, tables, rows, loop, world, EInv, Budget, Unspent, Parked, MayWrite
<1>7. QED
  BY <1>1, <1>2, <1>3, <1>4, <1>5, <1>6 DEF Next, EInv

LEMMA BudgetInitially == Init => Budget
<1>1. SUFFICES ASSUME Init, NEW i \in Items
               PROVE  effects[i] + late[i] <= 1 + reruns[i] /\ effects[i] + late[i] <= reruns[i]
  BY DEF Budget
<1>2. effects[i] = 0 /\ late[i] = 0 /\ reruns[i] = 0
  BY <1>1 DEF Init
<1>3. QED
  BY <1>2

(* As long as no lease runs out under a live run and every error tells the *)
(* truth, the write of each row takes effect at most once per approval:    *)
(* the first one and one more for each retry the user asked for, through   *)
(* all automatic retries, cool downs, releases, recoveries and crashes.    *)
THEOREM WritesArePaidFor ==
  Spec /\ ~Suspends /\ "LOST_REPLY" \notin Outcomes => []OneEffectPerApproval
<1>1. Init /\ ~Suspends /\ "LOST_REPLY" \notin Outcomes => EInv
  BY InitInductive, BudgetInitially DEF EInv
<1>2. EInv /\ [Next]_vars => EInv'
  BY BudgetInductive
<1>3. EInv => OneEffectPerApproval
  BY DEF EInv, Budget, OneEffectPerApproval
<1>4. QED
  BY <1>1, <1>2, <1>3, PTL DEF Spec

-----------------------------------------------------------------------------
(* BatchRunner implements Approvals, under the same assumptions. *)

LEMMA InitRefines == Init => Promise!Init
  BY DEF Init, Promise!Init

(* An unspent row has an unused approval. *)
LEMMA UnspentUnused ==
  ASSUME EInv, NEW i \in Items, Unspent(i)
  PROVE  Promise!Unused(i)
<1>1. effects[i] + late[i] <= reruns[i]
  BY DEF EInv, Budget
<1>2. effects[i] \in Nat /\ late[i] \in Nat /\ reruns[i] \in Nat
  BY DEF EInv, IInv, TypeOK
<1>3. effects[i] + late[i] < 1 + reruns[i]
  BY <1>1, <1>2
<1>4. QED
  BY <1>3 DEF Promise!Unused

LEMMA StutterRefines ==
  ASSUME UNCHANGED <<world, reruns>>
  PROVE  UNCHANGED Promise!bag
  BY DEF world, Promise!bag

(* The steps of one row of a flight: only a write is seen. *)
LEMMA ItemRefines ==
  ASSUME EInv, NEW w \in Workers, NEW i \in Items, ItemStep(w, i)
  PROVE  [Promise!Next]_(Promise!bag)
<1> USE DEF EInv, IInv
<1>1. step[w][i] \in {"exec", "again"} => Promise!Unused(i)
  BY UnspentUnused DEF Unspent, MayWrite
<1>2. CASE ExecOk(w, i)
  <2>1. Promise!Unused(i) /\ effects' = [effects EXCEPT ![i] = @ + 1] /\ UNCHANGED <<late, reruns>>
    BY <1>1, <1>2 DEF ExecOk
  <2>2. effects' = Promise!OneMoreOf(effects, {i})
    BY <2>1 DEF TypeOK, Promise!OneMoreOf
  <2>3. Promise!Write(i)
    BY <2>1, <2>2 DEF Promise!Write
  <2>4. QED
    BY <2>3 DEF Promise!Next
<1>3. ASSUME NEW c \in Outcomes, ExecFail(w, i, c) PROVE [Promise!Next]_(Promise!bag)
  <2>1. step[w][i] \in {"exec", "again"} /\ UNCHANGED <<reruns, effects>>
    BY <1>3 DEF ExecFail
  <2>2. CASE c = "TIMEOUT"
    <3>1. late' = [late EXCEPT ![i] = @ + 1]
      BY <1>3, <2>2 DEF ExecFail
    <3>2. late' = Promise!OneMoreOf(late, {i})
      BY <3>1 DEF TypeOK, Promise!OneMoreOf
    <3>3. Promise!Abandon({i})
      BY <1>1, <2>1, <3>2 DEF Promise!Abandon
    <3>4. QED
      BY <3>3 DEF Promise!Next
  <2>3. CASE c # "TIMEOUT"
    <3>1. UNCHANGED <<world, reruns>>
      BY <1>3, <2>1, <2>3 DEF ExecFail, world
    <3>2. QED
      BY <3>1, StutterRefines
  <2>4. QED
    BY <2>2, <2>3
<1>4. CASE CoolDown(w, i) \/ CoolStop(w, i) \/ Done(w, i) \/ FailSelect(w, i) \/ Requeue(w, i)
           \/ Bury(w, i) \/ Finish(w, i)
  <2>1. UNCHANGED <<world, reruns>>
    BY <1>4 DEF CoolDown, CoolStop, Done, FailSelect, Requeue, Bury, Finish
  <2>2. QED
    BY <2>1, StutterRefines
<1>5. QED
  BY <1>2, <1>3, <1>4 DEF ItemStep, Executes

(* A retry approves the failed rows once more. *)
LEMMA RetryRefines ==
  ASSUME EInv, NEW x \in Windows, RequeueFailed(x)
  PROVE  Promise!Next
<1>1. /\ UNCHANGED <<effects, late>> /\ reruns \in [Items -> Nat]
      /\ reruns' = [i \in Items |-> reruns[i] + (IF stat[i] = "failed" THEN 1 ELSE 0)]
  BY DEF RequeueFailed, world, EInv, IInv, TypeOK
<1>2. PICK F \in SUBSET Items : F = InStatus("failed")
  BY DEF InStatus
<1>3. \A i \in Items : 1 + reruns'[i] = IF i \in F THEN (1 + reruns[i]) + 1 ELSE 1 + reruns[i]
  BY <1>1, <1>2 DEF InStatus
<1>4. [i \in Items |-> 1 + reruns'[i]] = Promise!OneMoreOf([i \in Items |-> 1 + reruns[i]], F)
  BY <1>3 DEF Promise!OneMoreOf
<1>5. Promise!Approve(F)
  BY <1>1, <1>4 DEF Promise!Approve
<1>6. QED
  BY <1>5 DEF Promise!Next

(* A window that dies abandons the writes it had sent, one for each row.   *)
LEMMA CrashRefines ==
  ASSUME EInv, NEW x \in Windows, Crash(x)
  PROVE  Promise!Next
<1> USE DEF EInv, IInv
<1> DEFINE dead == {w \in Workers : WindowOf[w] = x /\ Active(w)}
           sent(i) == {w \in dead : step[w][i] \in {"exec", "again"}}
           S == {i \in Items : sent(i) # {}}
<1>1. /\ late' = [i \in Items |-> late[i] + Cardinality(sent(i))]
      /\ UNCHANGED <<effects, reruns>> /\ late \in [Items -> Nat]
  BY DEF Crash, TypeOK
<1>2. ASSUME NEW i \in S PROVE Promise!Unused(i) /\ Cardinality(sent(i)) = 1
  <2>1. PICK w \in sent(i) : TRUE
    BY <1>2
  <2>2. w \in Workers /\ MayWrite(w, i) /\ Owned(w, i)
    BY <2>1, WriterOwns DEF MayWrite
  <2>3. \A v \in Workers : MayWrite(v, i) => v = w
    BY <2>2, WriterOwns DEF Owned
  <2>4. sent(i) = {w}
    BY <2>1, <2>3 DEF MayWrite
  <2>5. Cardinality(sent(i)) = 1
    BY <2>4, FS_Singleton
  <2>6. QED
    BY <2>2, <2>5, UnspentUnused DEF Unspent
<1>3. ASSUME NEW i \in Items \ S PROVE Cardinality(sent(i)) = 0
  <2>1. sent(i) = {}
    BY <1>3
  <2>2. QED
    BY <2>1, FS_EmptySet
<1> HIDE DEF sent
<1>4. \A i \in Items : late[i] + Cardinality(sent(i)) = IF i \in S THEN late[i] + 1 ELSE late[i]
  BY <1>1, <1>2, <1>3
<1>5. late' = Promise!OneMoreOf(late, S)
  BY <1>1, <1>4 DEF Promise!OneMoreOf
<1>6. Promise!Abandon(S)
  BY <1>1, <1>2, <1>5 DEF Promise!Abandon
<1>7. S \in SUBSET Items
  OBVIOUS
<1>8. QED
  BY <1>6, <1>7 DEF Promise!Next

(* A late write settles. *)
LEMMA LateRefines ==
  ASSUME EInv, NEW i \in Items, LateCommit(i) \/ LateAbort(i)
  PROVE  Promise!Next
<1>1. /\ late[i] > 0 /\ late' = [late EXCEPT ![i] = @ - 1] /\ UNCHANGED reruns
      /\ \/ effects' = [effects EXCEPT ![i] = @ + 1]
         \/ UNCHANGED effects
  BY DEF LateCommit, LateAbort
<1>2. effects' = Promise!OneMoreOf(effects, {i}) \/ UNCHANGED effects
  BY <1>1 DEF EInv, IInv, TypeOK, Promise!OneMoreOf
<1>3. Promise!Settle(i)
  BY <1>1, <1>2 DEF Promise!Settle
<1>4. QED
  BY <1>3 DEF Promise!Next

-----------------------------------------------------------------------------
LEMMA StepRefines ==
  ASSUME EInv, [Next]_vars
  PROVE  [Promise!Next]_(Promise!bag)
<1>1. ASSUME NEW w \in Workers,
             Approve(w) \/ RunStep(w) \/ RunHiccup(w) \/ ReleaseHiccup(w) \/ UserStop(w)
      PROVE  [Promise!Next]_(Promise!bag)
  <2>1. ASSUME NEW i \in Items, ItemStep(w, i) PROVE [Promise!Next]_(Promise!bag)
    BY <2>1, ItemRefines
  <2>2. CASE Approve(w) \/ Recover(w) \/ Settle(w) \/ Read(w) \/ Leave(w) \/ Claim(w) \/ Launch(w)
             \/ Land(w) \/ BackOff(w) \/ Sync(w)
    <3>1. UNCHANGED <<world, reruns>>
      BY <2>2 DEF Approve, Recover, Settle, Read, Leave, Claim, Launch, Land, BackOff, Sync
    <3>2. QED
      BY <3>1, StutterRefines
  <2>3. CASE RunHiccup(w) \/ ReleaseHiccup(w) \/ UserStop(w)
    <3>1. UNCHANGED <<world, reruns>>
      BY <2>3 DEF RunHiccup, ReleaseHiccup, UserStop
    <3>2. QED
      BY <3>1, StutterRefines
  <2>4. QED
    BY <1>1, <2>1, <2>2, <2>3 DEF RunStep
<1>2. ASSUME NEW w \in Workers, NEW i \in Items, ItemHiccup(w, i)
      PROVE  [Promise!Next]_(Promise!bag)
  <2>1. UNCHANGED <<world, reruns>>
    BY <1>2 DEF ItemHiccup
  <2>2. QED
    BY <2>1, StutterRefines
<1>3. ASSUME NEW x \in Windows, Command(x) \/ CommandHiccup(x) \/ (CommandStep(x) /\ ~RequeueFailed(x))
      PROVE  [Promise!Next]_(Promise!bag)
  <2>1. UNCHANGED <<world, reruns>>
    BY <1>3 DEF Command, Pause, Unpause, Cancel, Clear, PressRetry, Resume, CommandHiccup,
                CommandStep, Park, Bump, CloseStuck, Revive, Reopen, ResumePaused, StartRun
  <2>2. QED
    BY <2>1, StutterRefines
<1>4. ASSUME NEW x \in Windows, RequeueFailed(x) \/ Crash(x) PROVE Promise!Next
  BY <1>4, RetryRefines, CrashRefines
<1>5. ASSUME NEW i \in Items, LeaseExpires(i) PROVE [Promise!Next]_(Promise!bag)
  <2>1. UNCHANGED <<world, reruns>>
    BY <1>5 DEF LeaseExpires
  <2>2. QED
    BY <2>1, StutterRefines
<1>6. ASSUME NEW i \in Items, LateCommit(i) \/ LateAbort(i) PROVE Promise!Next
  BY <1>6, LateRefines
<1>7. ASSUME UNCHANGED vars PROVE [Promise!Next]_(Promise!bag)
  <2>1. UNCHANGED <<world, reruns>>
    BY <1>7 DEF vars
  <2>2. QED
    BY <2>1, StutterRefines
<1>8. QED
  BY <1>1, <1>2, <1>3, <1>4, <1>5, <1>6, <1>7 DEF Next

(* Whatever tables, runs, windows and retries do, what the books see of a  *)
(* batch is a behaviour of Approvals.                                      *)
THEOREM QueueKeepsItsPromise ==
  Spec /\ ~Suspends /\ "LOST_REPLY" \notin Outcomes => KeepsPromise
<1>1. Init /\ ~Suspends /\ "LOST_REPLY" \notin Outcomes => EInv
  BY InitInductive, BudgetInitially DEF EInv
<1>2. EInv /\ [Next]_vars => EInv'
  BY BudgetInductive
<1>3. EInv /\ [Next]_vars => [Promise!Next]_(Promise!bag)
  BY StepRefines
<1>4. QED
  BY <1>1, <1>2, <1>3, InitRefines, PTL DEF Spec, KeepsPromise, Promise!Spec
=============================================================================
