------------------------------ MODULE JobQueue ------------------------------
(***************************************************************************)
(* The two tables of the AI job queue, ai_job_batches and ai_job_items,    *)
(* for ONE batch, and the SQL statements the queue's handlers issue on     *)
(* them (electron/aiHandler.js; src/modules/ai/api/browserBridge.ts issues *)
(* the same SQL against PGlite).                                           *)
(*                                                                         *)
(* One operator stands for one statement: that is the unit PostgreSQL      *)
(* makes atomic.  A handler that issues several statements is a sequence   *)
(* of steps, put together in module BatchRunner, so that anything another  *)
(* session does may fall between them.                                     *)
(***************************************************************************)
EXTENDS Integers, FiniteSets

CONSTANTS
  Items,        \* the seq numbers of the batch's rows
  After,        \* After[i]: the row i waits for (after_seq), or NoItem
  NoItem,
  Workers,      \* worker ids; every run of the loop draws a fresh one
  NoWorker,
  MaxAttempts,  \* BATCH_MAX_ATTEMPTS
  ClaimLimit    \* BATCH_CLAIM_LIMIT

(* resolveBatchItems rejects every edge that does not point backwards. *)
ASSUME ItemsAssumption ==
  /\ Items \subseteq Nat /\ IsFiniteSet(Items)
  /\ NoItem \notin Items
  /\ After \in [Items -> Items \cup {NoItem}]
  /\ \A i \in Items : After[i] \in Items => After[i] < i

ASSUME LimitsAssumption ==
  /\ IsFiniteSet(Workers) /\ NoWorker \notin Workers
  /\ MaxAttempts \in Nat \ {0} /\ ClaimLimit \in Nat \ {0}

VARIABLES
  status,    \* ai_job_batches.status
  cnt,       \* its done_count, failed_count and skipped_count
  stat,      \* ai_job_items.status of each row
  attempts,  \* ai_job_items.attempts
  owner,     \* ai_job_items.claimed_by
  lease,     \* ai_job_items.claim_expires_at against the clock
  code       \* ai_job_items.error_code

header == <<status, cnt>>
rows == <<stat, attempts, owner, lease, code>>
tables == <<header, rows>>

BatchStatus == {"pending", "running", "paused", "done", "partial", "cancelled"}
ItemStatus == {"queued", "running", "done", "failed", "skipped"}
Codes == {"none", "TRANSIENT", "REFUSED", "JEV_POSTING_BLOCKED", "UNRESOLVED_REF",
          "TIMEOUT", "RATE_LIMIT", "INTERRUPTED"}

Live == {"pending", "running", "paused"}
TerminalBatch == {"done", "partial", "cancelled"}

TablesTypeOK ==
  /\ status \in BatchStatus
  /\ cnt \in [done : Int, failed : Int, skipped : Int]
  /\ stat \in [Items -> ItemStatus]
  /\ attempts \in [Items -> 0..MaxAttempts]
  /\ owner \in [Items -> Workers \cup {NoWorker}]
  /\ lease \in [Items -> {"none", "live", "expired"}]
  /\ code \in [Items -> Codes]

(* batch-create commits the header and its rows in one transaction. *)
CreateBatch ==
  /\ status = "pending"
  /\ cnt = [done |-> 0, failed |-> 0, skipped |-> 0]
  /\ stat = [i \in Items |-> "queued"]
  /\ attempts = [i \in Items |-> 0]
  /\ owner = [i \in Items |-> NoWorker]
  /\ lease = [i \in Items |-> "none"]
  /\ code = [i \in Items |-> "none"]

-----------------------------------------------------------------------------
InStatus(s) == {i \in Items : stat[i] = s}

(* The rows set to status s, and the others unchanged. *)
SetTo(S, s) == [i \in Items |-> IF i \in S THEN s ELSE stat[i]]

(* Faulty: the cascade stops at the direct dependents. *)
FaultyDoomed(S) == {i \in Items : After[i] \in S}

(* The counters with n more failed rows and m more skipped ones. *)
Counted(n, m) == [cnt EXCEPT !.failed = @ + n, !.skipped = @ + m]

(* WITH RECURSIVE doomed: every transitive dependent of S, as the least    *)
(* set that holds the dependents of S and of its own members.              *)
Doomed(S) ==
  {i \in Items :
     \A T \in SUBSET Items :
        (\A j \in Items : After[j] \in S \cup T => j \in T) => i \in T}

(* Faulty: the status guard of the revived CTE is dropped. *)
FaultyRevivable(i, T) ==
  \/ After[i] = NoItem
  \/ After[i] \in Items /\ (stat[After[i]] \in {"done", "queued"} \/ After[i] \in T)

(* WITH RECURSIVE revived: the skipped rows whose parent is done or queued *)
(* (or that have none), and the skipped rows below those.                  *)
Revivable(i, T) ==
  /\ stat[i] = "skipped"
  /\ \/ After[i] = NoItem
     \/ /\ After[i] \in Items
        /\ \/ stat[After[i]] \in {"done", "queued"}
           \/ After[i] \in T

Revived ==
  {i \in Items :
     \A T \in SUBSET Items :
        (\A j \in Items : Revivable(j, T) => j \in T) => i \in T}

(* Faulty: a claim without the bound on attempts; a claim that does not   *)
(* look at after_seq.                                                      *)
FaultyReadyUnbounded(i) ==
  stat[i] = "queued" /\ (After[i] \in Items => stat[After[i]] = "done")

FaultyReadyUnordered(i) == stat[i] = "queued" /\ attempts[i] < MaxAttempts

Ready(i) ==
  /\ stat[i] = "queued"
  /\ attempts[i] < MaxAttempts
  /\ \/ After[i] = NoItem
     \/ After[i] \in Items /\ stat[After[i]] = "done"

(* ORDER BY seq LIMIT n over the ready rows of an open batch. *)
Claimable ==
  IF status \in {"pending", "running"}
  THEN LET R == {i \in Items : Ready(i)}
       IN  {i \in R : Cardinality({j \in R : j < i}) < ClaimLimit}
  ELSE {}

-----------------------------------------------------------------------------
(* ai:batch-claim: touched, updated and bh of one statement. *)
ClaimStmt(w) ==
  /\ stat' = SetTo(Claimable, "running")
  /\ attempts' = [i \in Items |-> IF i \in Claimable THEN attempts[i] + 1 ELSE attempts[i]]
  /\ owner' = [i \in Items |-> IF i \in Claimable THEN w ELSE owner[i]]
  /\ lease' = [i \in Items |->
                 IF i \in Claimable \/ (stat[i] = "running" /\ owner[i] = w)
                 THEN "live" ELSE lease[i]]
  /\ status' = IF status = "pending" THEN "running" ELSE status
  /\ UNCHANGED <<cnt, code>>

(* ai:batch-item-done: the row and done_count move together. *)
DoneStmt(i) ==
  /\ stat[i] = "running"
  /\ stat' = SetTo({i}, "done")
  /\ cnt' = [cnt EXCEPT !.done = @ + 1]
  /\ UNCHANGED <<status, attempts, owner, lease, code>>

(* ai:batch-item-fail, retry branch: the UPDATE that has no status guard. *)
RequeueStmt(i, c) ==
  /\ stat' = SetTo({i}, "queued")
  /\ code' = [code EXCEPT ![i] = c]
  /\ UNCHANGED <<header, attempts, owner, lease>>

(* Faulty: the cascade is not counted. *)
FaultyFailRows(F, c, counted) ==
  /\ stat' = [i \in Items |-> IF i \in F THEN "failed"
                              ELSE IF i \in Doomed(F) /\ stat[i] = "queued" THEN "skipped"
                              ELSE stat[i]]
  /\ code' = [i \in Items |-> IF i \in F THEN c ELSE code[i]]
  /\ cnt' = IF counted THEN [cnt EXCEPT !.failed = @ + Cardinality(F)] ELSE cnt
  /\ UNCHANGED <<status, attempts, owner, lease>>

(* The failed rows F, the queued rows below them skipped; the counters     *)
(* follow only when counted holds.                                         *)
FailRows(F, c, counted) ==
  LET S == {i \in Doomed(F) : stat[i] = "queued"}
  IN  /\ stat' = [i \in Items |-> IF i \in F THEN "failed"
                                  ELSE IF i \in S THEN "skipped" ELSE stat[i]]
      /\ code' = [i \in Items |-> IF i \in F THEN c ELSE code[i]]
      /\ cnt' = IF counted THEN Counted(Cardinality(F), Cardinality(S)) ELSE cnt
      /\ UNCHANGED <<status, attempts, owner, lease>>

(* ai:batch-item-fail, permanent branch: failed, doomed, skipped, cnt. *)
FailStmt(i, c) ==
  /\ stat[i] = "running"
  /\ FailRows({i}, c, TRUE)

(* Faulty: the lease gate of migration 0028 is dropped. *)
FaultyStale == InStatus("running")

(* ai:batch-recover: running rows without a live lease belong to a dead    *)
(* worker; the counters move only while the batch is live.                 *)
Stale == {i \in Items : stat[i] = "running" /\ lease[i] \in {"none", "expired"}}

RecoverStmt == FailRows(Stale, "INTERRUPTED", status \in Live)

(* Faulty: rows still running do not keep the batch open. *)
FaultyFinalizes == status = "running" /\ InStatus("queued") = {}

(* finalizeBatch, always a statement of its own. *)
Finalizes ==
  /\ status = "running"
  /\ \A i \in Items : stat[i] \notin {"queued", "running"}

FinalizeStmt ==
  /\ status' = IF Finalizes
               THEN IF cnt.failed + cnt.skipped > 0 THEN "partial" ELSE "done"
               ELSE status
  /\ UNCHANGED <<cnt, rows>>

(* ai:batch-release: only rows of this worker that are still running. *)
ReleaseStmt(w, S) ==
  LET R == {i \in S : stat[i] = "running" /\ owner[i] = w}
  IN  /\ stat' = SetTo(R, "queued")
      /\ owner' = [i \in Items |-> IF i \in R THEN NoWorker ELSE owner[i]]
      /\ lease' = [i \in Items |-> IF i \in R THEN "none" ELSE lease[i]]
      /\ UNCHANGED <<header, attempts, code>>

-----------------------------------------------------------------------------
(* ai:batch-set-status: the guarded header UPDATE, then, for cancel, the   *)
(* parking of queued rows and the counter as statements of their own.      *)
SetStatusStmt(from, to) ==
  /\ status \in from
  /\ status' = to
  /\ UNCHANGED <<cnt, rows>>

ParkStmt ==
  /\ stat' = SetTo(InStatus("queued"), "skipped")
  /\ UNCHANGED <<header, attempts, owner, lease, code>>

BumpSkippedStmt(n) ==
  /\ cnt' = [cnt EXCEPT !.skipped = @ + n]
  /\ UNCHANGED <<status, rows>>

(* ai:batch-clear: live, parked and bump in one statement.  bump updates   *)
(* the header row that live has already updated, and PostgreSQL applies    *)
(* only the first of two updates of a row by one statement.                *)
ClearStmt ==
  /\ IF status \in Live
     THEN status' = "cancelled" /\ stat' = SetTo(InStatus("queued"), "skipped")
     ELSE UNCHANGED <<status, stat>>
  /\ UNCHANGED <<cnt, attempts, owner, lease, code>>

CloseStuckStmt ==
  /\ status' = IF status = "partial" THEN "cancelled" ELSE status
  /\ UNCHANGED <<cnt, rows>>

(* ai:batch-retry-failed: requeue the failed rows, revive the skipped      *)
(* chains below them, then reopen the header; three statements.            *)
RequeueRows(S) ==
  /\ stat' = SetTo(S, "queued")
  /\ attempts' = [i \in Items |-> IF i \in S THEN 0 ELSE attempts[i]]
  /\ code' = [i \in Items |-> IF i \in S THEN "none" ELSE code[i]]
  /\ UNCHANGED <<header, owner, lease>>

RetryRequeueStmt == RequeueRows(InStatus("failed"))

ReviveStmt == RequeueRows(Revived)

(* Faulty: the header is reopened whatever its status. *)
FaultyReopenStmt(n, m) ==
  /\ status' = "running"
  /\ cnt' = Counted(-n, -m)
  /\ UNCHANGED rows

ReopenStmt(n, m) ==
  /\ IF status \in {"partial", "paused"}
     THEN /\ status' = "running"
          /\ cnt' = Counted(-n, -m)
     ELSE UNCHANGED header
  /\ UNCHANGED rows
=============================================================================
