----------------------------- MODULE BatchRunner -----------------------------
(***************************************************************************)
(* The drivers of one persisted AI batch: the worker loop runBatchInner    *)
(* (engine/batchRunner.ts), which may run once per renderer window, the    *)
(* user's commands on the batch (pause, resume, retry, cancel, clear), and *)
(* what the environment does to them: a window dies, a lease runs out, a   *)
(* statement fails, a write lands after its caller gave up.                *)
(*                                                                         *)
(* Each action is one await-to-await step: a SQL statement of JobQueue     *)
(* with the local code up to the next await.                               *)
(***************************************************************************)
EXTENDS JobQueue

CONSTANTS
  Uses,         \* Uses[i]: the rows whose outputs the arguments of i name ({{ref}})
  Windows,      \* renderer windows (or browser tabs) on the same account
  WindowOf,     \* the window each run of the loop lives in
  Width,        \* BATCH_WAVE_CONCURRENCY
  StreakLimit,  \* EMPTY_CLAIM_STREAK_LIMIT
  Outcomes,     \* the ways an execution may fail, see ExecFail
  Suspends,     \* may a lease run out under a live worker (a suspended machine)?
  MaxCommands, MaxCrashes, MaxHiccups  \* bounds on the environment

ASSUME RunnerAssumption ==
  /\ Uses \in [Items -> SUBSET Items]
  /\ WindowOf \in [Workers -> Windows]
  /\ Width \in Nat \ {0} /\ StreakLimit \in Nat \ {0}
  /\ Outcomes \subseteq {"TRANSIENT", "LOST_REPLY", "REFUSED", "JEV_POSTING_BLOCKED",
                   "TIMEOUT", "RATE_LIMIT"}
  /\ Suspends \in BOOLEAN
  /\ MaxCommands \in Nat /\ MaxCrashes \in Nat /\ MaxHiccups \in Nat

VARIABLES
  pc,       \* where each run of the loop is
  local,    \* what the run remembers between rounds, see Locals
  job,      \* what it knows of the chunk in hand, see Jobs
  step,     \* where each row of the current flight is
  cmd,      \* the user command in flight in each window: next statement, counts
  effects,  \* external: how often the write of each row took effect
  late,     \* external: how many abandoned writes of it may still take effect
  reruns,   \* ghost: how often a user's retry requeued each row
  used      \* how much of each bound is used up

loop == <<pc, local, job, step>>
world == <<effects, late>>
vars == <<tables, loop, cmd, world, reruns, used>>

Places == {"new", "recover", "settle", "read", "top", "chunk", "flight", "backoff", "sync",
           "exited", "crashed"}
Over == {"exited", "crashed"}
Active(w) == pc[w] \notin Over \cup {"new"}

(* detail.status as last read; the rows whose outputs are known (outputs); *)
(* emptyClaimStreak; abortRequested.                                       *)
Locals == [view : BatchStatus, outputs : SUBSET Items, streak : Nat, stop : BOOLEAN]
Fresh == [view |-> "pending", outputs |-> {}, streak |-> 0, stop |-> FALSE]

(* chunk; those of it not started (unstartedIds); the error code a failing *)
(* row will be recorded with; item.attempts as the claim returned it; what *)
(* runChunkItem returned (terminal, breakRound); chunkRetryDelay, seconds. *)
Jobs == [round : SUBSET Items, unstarted : SUBSET Items, why : [Items -> Codes],
         seen : [Items -> 0..MaxAttempts], marks : SUBSET {"terminal", "break"}, delay : Nat]
NoJob == [round |-> {}, unstarted |-> {}, why |-> [i \in Items |-> "none"],
          seen |-> [i \in Items |-> 0], marks |-> {}, delay |-> 0]

Steps == {"idle", "exec", "cool", "again", "won", "lost", "requeue", "bury", "fin"}
Grounded == [i \in Items |-> "idle"]

(* Faulty: a timed-out write is retried like any transient error. *)
FaultyRetryable == {"TRANSIENT", "RATE_LIMIT", "TIMEOUT"}

(* Error codes by what the worker and the resume make of them.  A write    *)
(* that timed out is not retried, but its code is TIMEOUT, and TIMEOUT is  *)
(* not in PERMANENT_ITEM_ERROR_CODES.                                      *)
Retryable == {"TRANSIENT", "RATE_LIMIT"}
Permanent == {"UNRESOLVED_REF", "REFUSED"}

CommandSteps == {"idle", "park", "bump", "stuck", "requeue", "revive", "reopen", "unpause", "run"}
Commands == [at : CommandSteps, n : Nat, m : Nat, resume : BOOLEAN]
Idle == [at |-> "idle", n |-> 0, m |-> 0, resume |-> FALSE]

Bounded == {"commands", "crashes", "hiccups"}

TypeOK ==
  /\ TablesTypeOK
  /\ pc \in [Workers -> Places]
  /\ local \in [Workers -> Locals]
  /\ job \in [Workers -> Jobs]
  /\ step \in [Workers -> [Items -> Steps]]
  /\ cmd \in [Windows -> Commands]
  /\ effects \in [Items -> Nat]
  /\ late \in [Items -> Nat]
  /\ reruns \in [Items -> Nat]
  /\ used \in [Bounded -> Nat]

Init ==
  /\ CreateBatch
  /\ pc = [w \in Workers |-> "new"]
  /\ local = [w \in Workers |-> Fresh]
  /\ job = [w \in Workers |-> NoJob]
  /\ step = [w \in Workers |-> Grounded]
  /\ cmd = [x \in Windows |-> Idle]
  /\ effects = [i \in Items |-> 0]
  /\ late = [i \in Items |-> 0]
  /\ reruns = [i \in Items |-> 0]
  /\ used = [b \in Bounded |-> 0]

-----------------------------------------------------------------------------
(* Small vocabulary for the steps below. *)

Goto(w, p) == pc' = [pc EXCEPT ![w] = p]
Exit(w) == Goto(w, "exited") /\ local' = [local EXCEPT ![w] = Fresh]
               /\ job' = [job EXCEPT ![w] = NoJob]
StepTo(w, i, s) == step' = [step EXCEPT ![w][i] = s]
Mark(w, m) == job' = [job EXCEPT ![w].marks = @ \cup {m}]
Flying(w) == {i \in Items : step[w][i] # "idle"}
Open(w) == local[w].view \in {"pending", "running"} /\ ~local[w].stop

Spend(what, max) == used[what] < max /\ used' = [used EXCEPT ![what] = @ + 1]
Hiccup == Spend("hiccups", MaxHiccups)

(* activeBatches: one loop per window. *)
Free(x) == \A w \in Workers : WindowOf[w] = x => ~Active(w)

(* nextRetryDelayMs, in seconds. *)
RetryDelay(failures) == IF failures = 2 THEN 30 ELSE IF failures = 3 THEN 300 ELSE 0

(* Faulty: the waves look at after_seq only. *)
FaultyDeps(i, C) == (C \cap {After[i]}) \ {i}

(* wavePartition: after and {{ref}} edges inside the chunk order its rows  *)
(* in waves; a wave runs in flights of Width rows, in chunk order.         *)
Deps(i, C) == (C \cap ({After[i]} \cup Uses[i])) \ {i}

Waves(C) ==
  LET W[k \in 0..Cardinality(C)] ==
        IF k = 0 THEN {} ELSE W[k - 1] \cup {i \in C : Deps(i, C) \subseteq W[k - 1]}
  IN  W

CurrentWave(C, U) ==
  LET Left(k) == U \cap Waves(C)[k]
      Nonempty == {k \in 1..Cardinality(C) : Left(k) # {}}
  IN  IF Nonempty = {} THEN U
      ELSE Left(CHOOSE k \in Nonempty : \A l \in Nonempty : k <= l)

NextFlight(C, U) ==
  LET wave == CurrentWave(C, U)
  IN  {i \in wave : Cardinality({j \in wave : j < i}) < Width}

-----------------------------------------------------------------------------
(* The run's own steps, in the order of runBatchInner. *)

(* The approved ai.enqueue_batch starts the first run of the new batch. *)
Approve(w) ==
  /\ \A v \in Workers : pc[v] = "new"
  /\ Goto(w, "recover")
  /\ UNCHANGED <<tables, local, job, step, cmd, world, reruns, used>>

Recover(w) ==
  /\ pc[w] = "recover"
  /\ RecoverStmt
  /\ Goto(w, "settle")
  /\ UNCHANGED <<local, job, step, cmd, world, reruns, used>>

Settle(w) ==
  /\ pc[w] = "settle"
  /\ FinalizeStmt
  /\ Goto(w, "read")
  /\ UNCHANGED <<local, job, step, cmd, world, reruns, used>>

Read(w) ==
  /\ pc[w] = "read"
  /\ local' = [local EXCEPT ![w].view = status, ![w].outputs = InStatus("done")]
  /\ Goto(w, "top")
  /\ UNCHANGED <<tables, job, step, cmd, world, reruns, used>>

Leave(w) ==
  /\ pc[w] = "top" /\ ~Open(w)
  /\ Exit(w)
  /\ UNCHANGED <<tables, step, cmd, world, reruns, used>>

Tired(w) == local[w].streak + 1 >= StreakLimit

(* Faulty: empty claims are not counted. *)
FaultyClaim(w) ==
  /\ pc[w] = "top" /\ Open(w)
  /\ ClaimStmt(w)
  /\ \/ /\ Claimable = {}
        /\ Goto(w, "sync")
        /\ UNCHANGED <<local, job>>
     \/ /\ Claimable # {}
        /\ job' = [job EXCEPT ![w] =
                     [NoJob EXCEPT !.round = Claimable, !.unstarted = Claimable]]
        /\ Goto(w, "chunk")
        /\ UNCHANGED local
  /\ UNCHANGED <<step, cmd, world, reruns, used>>

Claim(w) ==
  /\ pc[w] = "top" /\ Open(w)
  /\ ClaimStmt(w)
  /\ \/ /\ Claimable = {} /\ Tired(w)
        /\ Exit(w)
     \/ /\ Claimable = {} /\ ~Tired(w)
        /\ local' = [local EXCEPT ![w].streak = @ + 1]
        /\ Goto(w, "sync")
        /\ UNCHANGED job
     \/ /\ Claimable # {}
        /\ local' = [local EXCEPT ![w].streak = 0]
        /\ job' = [job EXCEPT ![w] =
                     [NoJob EXCEPT !.round = Claimable, !.unstarted = Claimable,
                        !.seen = [i \in Items |-> IF i \in Claimable THEN attempts[i] ELSE 0]]]
        /\ Goto(w, "chunk")
  /\ UNCHANGED <<step, cmd, world, reruns, used>>

(* A flight starts: substituteRefs runs for all its rows before any await. *)
Launch(w) ==
  /\ pc[w] = "chunk"
  /\ LET flight == NextFlight(job[w].round, job[w].unstarted)
         resolved == {i \in flight : Uses[i] \subseteq local[w].outputs}
     IN  /\ job' = [job EXCEPT ![w].unstarted = @ \ flight,
                      ![w].why = [i \in Items |-> IF i \in flight \ resolved
                                                  THEN "UNRESOLVED_REF" ELSE "none"]]
         /\ step' = [step EXCEPT ![w] =
                       [i \in Items |-> IF i \in resolved THEN "exec"
                                        ELSE IF i \in flight THEN "lost" ELSE "idle"]]
  /\ Goto(w, "flight")
  /\ UNCHANGED <<tables, local, cmd, world, reruns, used>>

(* executeGuardedItem returned ok: the write took effect. *)
ExecOk(w, i) ==
  /\ step[w][i] \in {"exec", "again"}
  /\ StepTo(w, i, "won")
  /\ effects' = [effects EXCEPT ![i] = @ + 1]
  /\ local' = [local EXCEPT ![w].outputs = @ \cup {i}]
  /\ UNCHANGED <<tables, pc, job, cmd, late, reruns, used>>

(* It returned an error.  A write that timed out is abandoned, not undone;  *)
(* one whose reply was lost on the way has taken effect, and is recorded   *)
(* as a transient database error; the first RATE_LIMIT waits one window    *)
(* and tries again in place.                                               *)
ExecFail(w, i, c) ==
  /\ step[w][i] \in {"exec", "again"}
  /\ IF c = "RATE_LIMIT" /\ step[w][i] = "exec"
     THEN StepTo(w, i, "cool") /\ UNCHANGED job
     ELSE /\ StepTo(w, i, "lost")
          /\ job' = [job EXCEPT ![w].why[i] = IF c = "LOST_REPLY" THEN "TRANSIENT" ELSE c]
  /\ effects' = IF c = "LOST_REPLY" THEN [effects EXCEPT ![i] = @ + 1] ELSE effects
  /\ late' = IF c = "TIMEOUT" THEN [late EXCEPT ![i] = @ + 1] ELSE late
  /\ UNCHANGED <<tables, pc, local, cmd, reruns, used>>

(* sleepRateLimitWindow: the window passes, or stop is noticed and the row *)
(* and the rest of the chunk are released.                                 *)
CoolDown(w, i) ==
  /\ step[w][i] = "cool"
  /\ StepTo(w, i, "again")
  /\ UNCHANGED <<tables, pc, local, job, cmd, world, reruns, used>>

GiveUp(w, i) ==
  /\ step[w][i] = "cool" /\ local[w].stop
  /\ StepTo(w, i, "idle")
  /\ job' = [job EXCEPT ![w].unstarted = {}, ![w].marks = @ \cup {"terminal"}]

CoolStop(w, i) ==
  /\ GiveUp(w, i)
  /\ ReleaseStmt(w, job[w].unstarted \cup {i})
  /\ UNCHANGED <<pc, local, cmd, world, reruns, used>>

(* batchItemDone, first statement; a row that is no longer running breaks  *)
(* the round.                                                              *)
Done(w, i) ==
  /\ step[w][i] = "won"
  /\ IF stat[i] = "running"
     THEN DoneStmt(i) /\ StepTo(w, i, "fin") /\ UNCHANGED job
     ELSE UNCHANGED tables /\ StepTo(w, i, "idle") /\ Mark(w, "break")
  /\ UNCHANGED <<pc, local, cmd, world, reruns, used>>

(* batchItemFail, first statement: read the row, choose the branch. *)
FailSelect(w, i) ==
  /\ step[w][i] = "lost"
  /\ StepTo(w, i, IF stat[i] # "running" THEN "idle"
                  ELSE IF job[w].why[i] \in Retryable /\ attempts[i] < MaxAttempts
                       THEN "requeue" ELSE "bury")
  /\ UNCHANGED <<tables, pc, local, job, cmd, world, reruns, used>>

Requeue(w, i) ==
  /\ step[w][i] = "requeue"
  /\ RequeueStmt(i, job[w].why[i])
  /\ StepTo(w, i, "idle")
  /\ LET d == RetryDelay(job[w].seen[i])
     IN  job' = [job EXCEPT ![w].delay = IF d > @ THEN d ELSE @]
  /\ UNCHANGED <<pc, local, cmd, world, reruns, used>>

Bury(w, i) ==
  /\ step[w][i] = "bury"
  /\ IF stat[i] = "running"
     THEN FailStmt(i, job[w].why[i]) /\ StepTo(w, i, "fin")
     ELSE UNCHANGED tables /\ StepTo(w, i, "idle")
  /\ UNCHANGED <<pc, local, job, cmd, world, reruns, used>>

(* finalizeBatch behind batchItemDone and batchItemFail. *)
Finish(w, i) ==
  /\ step[w][i] = "fin"
  /\ FinalizeStmt
  /\ StepTo(w, i, "idle")
  /\ IF Finalizes THEN Mark(w, "terminal") ELSE UNCHANGED job
  /\ UNCHANGED <<pc, local, cmd, world, reruns, used>>

(* All rows of the flight have answered: stop releases the rest, then the  *)
(* terminal flip ends the run, then a broken round abandons the rest.      *)
Land(w) ==
  /\ pc[w] = "flight" /\ Flying(w) = {}
  /\ IF local[w].stop THEN ReleaseStmt(w, job[w].unstarted) ELSE UNCHANGED tables
  /\ \/ /\ local[w].stop \/ "terminal" \in job[w].marks
        /\ Exit(w)
     \/ /\ ~local[w].stop /\ "terminal" \notin job[w].marks
        /\ \/ /\ "break" \in job[w].marks \/ job[w].unstarted = {}
              /\ Goto(w, "backoff")
              /\ job' = [job EXCEPT ![w] = [NoJob EXCEPT !.delay = job[w].delay]]
           \/ /\ "break" \notin job[w].marks /\ job[w].unstarted # {}
              /\ Goto(w, "chunk")
              /\ UNCHANGED job
        /\ UNCHANGED local
  /\ UNCHANGED <<step, cmd, world, reruns, used>>

(* The longest delay of the chunk is slept once, unless stop cuts it short. *)
BackOff(w) ==
  /\ pc[w] = "backoff"
  /\ \/ /\ Goto(w, "sync")
        /\ job' = [job EXCEPT ![w] = NoJob]
        /\ UNCHANGED local
     \/ /\ local[w].stop /\ job[w].delay > 0
        /\ Exit(w)
  /\ UNCHANGED <<tables, step, cmd, world, reruns, used>>

Sync(w) ==
  /\ pc[w] = "sync"
  /\ local' = [local EXCEPT ![w].view = status]
  /\ Goto(w, "top")
  /\ UNCHANGED <<tables, job, step, cmd, world, reruns, used>>

Executes(w, i) == ExecOk(w, i) \/ \E c \in Outcomes : ExecFail(w, i, c)

ItemStep(w, i) ==
  \/ Executes(w, i) \/ CoolDown(w, i) \/ CoolStop(w, i)
  \/ Done(w, i) \/ FailSelect(w, i) \/ Requeue(w, i) \/ Bury(w, i) \/ Finish(w, i)

RunStep(w) ==
  \/ Recover(w) \/ Settle(w) \/ Read(w) \/ Leave(w) \/ Claim(w) \/ Launch(w)
  \/ Land(w) \/ BackOff(w) \/ Sync(w)
  \/ \E i \in Items : ItemStep(w, i)

-----------------------------------------------------------------------------
(* A statement of the run fails (a database error, a lost connection).     *)
(* Each caller has its own way of carrying on.                             *)

RunHiccup(w) ==
  /\ Hiccup
  /\ \/ /\ \/ pc[w] \in {"recover", "settle"} /\ Goto(w, "read")
           \/ pc[w] = "top" /\ Open(w) /\ Goto(w, "sync")
           \/ pc[w] = "sync" /\ Goto(w, "top")
        /\ UNCHANGED <<local, job>>
     \/ pc[w] = "read" /\ Exit(w)
  /\ UNCHANGED <<tables, step, cmd, world, reruns>>

(* Only a failed batchItemDone breaks the round; a failed batchItemFail is *)
(* ignored, and the row stays running under this run's lease.              *)
ItemHiccup(w, i) ==
  /\ Hiccup
  /\ step[w][i] \in {"won", "lost", "requeue", "bury", "fin"}
  /\ StepTo(w, i, "idle")
  /\ IF job[w].why[i] = "none" THEN Mark(w, "break") ELSE UNCHANGED job
  /\ UNCHANGED <<tables, pc, local, cmd, world, reruns>>

(* releaseIds swallows the error: the rows stay running until their lease  *)
(* runs out.                                                               *)
ReleaseHiccup(w) ==
  /\ Hiccup
  /\ \/ /\ pc[w] = "flight" /\ Flying(w) = {} /\ local[w].stop
        /\ Exit(w)
        /\ UNCHANGED step
     \/ /\ \E i \in Items : GiveUp(w, i)
        /\ UNCHANGED <<pc, local>>
  /\ UNCHANGED <<tables, cmd, world, reruns>>

-----------------------------------------------------------------------------
(* The user's commands: the card's buttons, the chat and the AI tools, at  *)
(* most one at a time in a window.                                         *)

Order(x) ==
  /\ cmd[x] = Idle
  /\ Spend("commands", MaxCommands)

Proceed(x, c) == cmd' = [cmd EXCEPT ![x] = c]
At(x, s) == Proceed(x, [cmd[x] EXCEPT !.at = s])

UserStop(w) ==
  /\ Active(w) /\ ~local[w].stop
  /\ Spend("commands", MaxCommands)
  /\ local' = [local EXCEPT ![w].stop = TRUE]
  /\ UNCHANGED <<tables, pc, job, step, cmd, world, reruns>>

Pause(x) ==
  /\ Order(x)
  /\ SetStatusStmt({"pending", "running"}, "paused")
  /\ UNCHANGED <<loop, cmd, world, reruns>>

Unpause(x) ==
  /\ Order(x)
  /\ SetStatusStmt({"paused"}, "running")
  /\ UNCHANGED <<loop, cmd, world, reruns>>

Cancel(x) ==
  /\ Order(x)
  /\ SetStatusStmt(Live, "cancelled")
  /\ At(x, "park")
  /\ UNCHANGED <<loop, world, reruns>>

Park(x) ==
  /\ cmd[x].at = "park"
  /\ ParkStmt
  /\ Proceed(x, [cmd[x] EXCEPT !.at = "bump", !.n = Cardinality(InStatus("queued"))])
  /\ UNCHANGED <<loop, world, reruns, used>>

Bump(x) ==
  /\ cmd[x].at = "bump"
  /\ BumpSkippedStmt(cmd[x].n)
  /\ Proceed(x, Idle)
  /\ UNCHANGED <<loop, world, reruns, used>>

Clear(x) ==
  /\ Order(x)
  /\ ClearStmt
  /\ At(x, "stuck")
  /\ UNCHANGED <<loop, world, reruns>>

CloseStuck(x) ==
  /\ cmd[x].at = "stuck"
  /\ CloseStuckStmt
  /\ Proceed(x, Idle)
  /\ UNCHANGED <<loop, world, reruns, used>>

(* The card offers the bare retry on a live batch that shows failures. *)
PressRetry(x) ==
  /\ Order(x)
  /\ status \in Live /\ cnt.failed > 0
  /\ At(x, "requeue")
  /\ UNCHANGED <<tables, loop, world, reruns>>

(* resumeBatchById (chat, banner, card) and the tool ai.resume_batch read  *)
(* the batch and decide; only the first refuses a batch with nothing left. *)
MayResume(via) ==
  /\ status \notin {"done", "cancelled"}
  /\ \/ via = "tool" \/ status \notin {"partial", "running"}
     \/ InStatus("queued") \cup InStatus("running") # {}
  /\ cnt.failed > 0 =>
       InStatus("failed") = {} \/ \E i \in InStatus("failed") : code[i] \notin Permanent

Resume(x, via) ==
  /\ Order(x)
  /\ Free(x) /\ \E w \in Workers : pc[w] = "new" /\ WindowOf[w] = x
  /\ MayResume(via)
  /\ Proceed(x, [Idle EXCEPT !.resume = TRUE,
                    !.at = IF cnt.failed > 0 THEN "requeue"
                           ELSE IF status = "paused" THEN "unpause" ELSE "run"])
  /\ UNCHANGED <<tables, loop, world, reruns>>

RequeueFailed(x) ==
  /\ cmd[x].at = "requeue"
  /\ RetryRequeueStmt
  /\ Proceed(x, IF InStatus("failed") = {} THEN Idle
                 ELSE [cmd[x] EXCEPT !.at = "revive", !.n = Cardinality(InStatus("failed"))])
  /\ reruns' = [i \in Items |-> reruns[i] + (IF stat[i] = "failed" THEN 1 ELSE 0)]
  /\ UNCHANGED <<loop, world, used>>

Revive(x) ==
  /\ cmd[x].at = "revive"
  /\ ReviveStmt
  /\ Proceed(x, [cmd[x] EXCEPT !.at = "reopen", !.m = Cardinality(Revived)])
  /\ UNCHANGED <<loop, world, reruns, used>>

Reopen(x) ==
  /\ cmd[x].at = "reopen"
  /\ ReopenStmt(cmd[x].n, cmd[x].m)
  /\ Proceed(x, IF cmd[x].resume THEN [Idle EXCEPT !.at = "run", !.resume = TRUE] ELSE Idle)
  /\ UNCHANGED <<loop, world, reruns, used>>

ResumePaused(x) ==
  /\ cmd[x].at = "unpause"
  /\ IF status = "paused"
     THEN SetStatusStmt({"paused"}, "running") /\ At(x, "run")
     ELSE UNCHANGED tables /\ Proceed(x, Idle)
  /\ UNCHANGED <<loop, world, reruns, used>>

(* runBatch: a window that already drives the batch starts no second loop. *)
StartRun(x) ==
  /\ cmd[x].at = "run"
  /\ Proceed(x, Idle)
  /\ IF Free(x)
     THEN \E w \in Workers : pc[w] = "new" /\ WindowOf[w] = x /\ Goto(w, "recover")
     ELSE UNCHANGED pc
  /\ UNCHANGED <<tables, local, job, step, world, reruns, used>>

CommandHiccup(x) ==
  /\ Hiccup
  /\ cmd[x].at \notin {"idle", "run"}
  /\ Proceed(x, Idle)
  /\ UNCHANGED <<tables, loop, world, reruns>>

CommandStep(x) ==
  \/ Park(x) \/ Bump(x) \/ CloseStuck(x) \/ RequeueFailed(x) \/ Revive(x) \/ Reopen(x)
  \/ ResumePaused(x) \/ StartRun(x)

Command(x) ==
  \/ Pause(x) \/ Unpause(x) \/ Cancel(x) \/ Clear(x) \/ PressRetry(x)
  \/ \E via \in {"chat", "tool"} : Resume(x, via)

-----------------------------------------------------------------------------
(* The environment. *)

(* A window dies (closed, reloaded, crashed) with all it was doing.  A     *)
(* write it had sent may still commit.                                     *)
Crash(x) ==
  LET dead == {w \in Workers : WindowOf[w] = x /\ Active(w)}
      sent(i) == {w \in dead : step[w][i] \in {"exec", "again"}}
  IN  /\ dead # {} \/ cmd[x] # Idle
      /\ Spend("crashes", MaxCrashes)
      /\ pc' = [w \in Workers |-> IF w \in dead THEN "crashed" ELSE pc[w]]
      /\ local' = [w \in Workers |-> IF w \in dead THEN Fresh ELSE local[w]]
      /\ job' = [w \in Workers |-> IF w \in dead THEN NoJob ELSE job[w]]
      /\ step' = [w \in Workers |-> IF w \in dead THEN Grounded ELSE step[w]]
      /\ late' = [i \in Items |-> late[i] + Cardinality(sent(i))]
      /\ Proceed(x, Idle)
      /\ UNCHANGED <<tables, effects, reruns>>

(* Thirty minutes pass without a claim round by the row's owner: only when *)
(* its run is over, or the machine slept.                                  *)
LeaseExpires(i) ==
  /\ stat[i] = "running" /\ lease[i] = "live"
  /\ owner[i] \in Workers
  /\ Suspends \/ pc[owner[i]] \in Over
  /\ lease' = [lease EXCEPT ![i] = "expired"]
  /\ UNCHANGED <<header, stat, attempts, owner, code, loop, cmd, world, reruns, used>>

LateCommit(i) ==
  /\ late[i] > 0
  /\ late' = [late EXCEPT ![i] = @ - 1]
  /\ effects' = [effects EXCEPT ![i] = @ + 1]
  /\ UNCHANGED <<tables, loop, cmd, reruns, used>>

LateAbort(i) ==
  /\ late[i] > 0
  /\ late' = [late EXCEPT ![i] = @ - 1]
  /\ UNCHANGED <<tables, loop, cmd, effects, reruns, used>>

-----------------------------------------------------------------------------
Next ==
  \/ \E w \in Workers : Approve(w) \/ RunStep(w) \/ RunHiccup(w) \/ ReleaseHiccup(w) \/ UserStop(w)
  \/ \E w \in Workers, i \in Items : ItemHiccup(w, i)
  \/ \E x \in Windows : Command(x) \/ CommandStep(x) \/ CommandHiccup(x) \/ Crash(x)
  \/ \E i \in Items : LeaseExpires(i) \/ LateCommit(i) \/ LateAbort(i)

Spec == Init /\ [][Next]_vars

(* The loop's awaits and the handlers' statements all return or reject, and *)
(* setTimeout fires; nothing is assumed of the user or of the environment.  *)
Fairness ==
  /\ WF_vars(\E w \in Workers : Approve(w))
  /\ \A w \in Workers : WF_vars(RunStep(w))
  /\ \A x \in Windows : WF_vars(CommandStep(x))

FairSpec == Spec /\ Fairness
-----------------------------------------------------------------------------
(* Safety. *)

Held(w) == job[w].unstarted \cup Flying(w)
Executing(w) == {i \in Items : step[w][i] \in {"exec", "cool", "again"}}

(* What a run has claimed and not answered for yet is running in the table *)
(* under its lease: no recovery, release, retry or second window takes a   *)
(* row away from a loop that is about to write, or is writing, for it.     *)
HeldIsOwned ==
  \A w \in Workers : \A i \in Held(w) :
     step[w][i] # "fin" => stat[i] = "running" /\ owner[i] = w /\ lease[i] = "live"

(* A row runs, and is done, only when the row it waits for is done: the    *)
(* claim gate holds against retries, revivals and cascades.                *)
DependencyOrder ==
  \A i \in Items :
     stat[i] \in {"running", "done"} /\ After[i] \in Items => stat[After[i]] = "done"

(* Nothing queued waits below a row that failed or was skipped, where it   *)
(* could never be claimed, unless the batch is cancelled (the orphans the  *)
(* P2 fix of item-fail is about).                                          *)
NoQueuedOrphan ==
  \A i \in Items :
     stat[i] = "queued" /\ After[i] \in Items /\ status # "cancelled" => stat[After[i]] \in {"queued", "running", "done"}

(* Every row's write takes effect at most once per approval: the first one *)
(* and one more for each retry the user asked for.  No automatic retry,    *)
(* second window, stop or recovery runs a write again.  It rests on errors *)
(* telling the truth: with LOST_REPLY among the outcomes it is violated.   *)
OneEffectPerApproval ==
  \A i \in Items : effects[i] + late[i] <= 1 + reruns[i]

(* The same as a refinement: seen through approvals and writes alone, the  *)
(* queue only ever sends a write that an unused approval pays for.         *)
Promise == INSTANCE Approvals
             WITH Rows <- Items, approvals <- [i \in Items |-> 1 + reruns[i]]
KeepsPromise == Promise!Spec

(* Until the batch is cancelled its counters account for every finished    *)
(* row: done_count exactly, the other two at least.                        *)
CountersCover ==
  /\ cnt.done = Cardinality(InStatus("done"))
  /\ status # "cancelled" =>
       /\ cnt.failed >= Cardinality(InStatus("failed"))
       /\ cnt.skipped >= Cardinality(InStatus("skipped"))

(* finalizeBatch tells the truth: a batch is done only when each of its    *)
(* rows is, and partial only when no run works on it any more.             *)
ClosedIsTrue ==
  /\ status = "done" => InStatus("done") = Items
  /\ status = "partial" => InStatus("running") = {}

(* A row is failed for an unresolved reference only after every row of its *)
(* chunk that it refers to has been started: the waves keep the order of   *)
(* references, not only of after_seq.                                      *)
UnresolvedIsLate ==
  \A w \in Workers, i \in Items :
     step[w][i] = "lost" /\ job[w].why[i] = "UNRESOLVED_REF"
     => Uses[i] \cap (job[w].unstarted \cup Executing(w)) = {}

(* The result of a row is never taken back: no statement moves a row out   *)
(* of done.                                                                *)
DoneIsFinal == [][\A i \in Items : stat[i] = "done" => stat'[i] = "done"]_vars

(* A cancelled or completed batch is not reopened, not even by a retry     *)
(* that was half way through its statements.                               *)
ClosedIsFinal == [][(status \in {"done", "cancelled"}) => (status' = status)]_vars

-----------------------------------------------------------------------------
(* Liveness. *)

(* Every run of the loop ends, whatever becomes of its rows. *)
RunsEnd == \A w \in Workers : pc[w] = "recover" ~> pc[w] \in Over

(* An approved batch that no command, crash or failed statement disturbs   *)
(* reaches done or partial.                                                *)
Disturbed == Suspends \/ \E b \in Bounded : used[b] > 0
EventuallyClosed == <>(status \in {"done", "partial"} \/ Disturbed)

-----------------------------------------------------------------------------
(* What comments and tests of the repository say, and the code does not    *)
(* do.  Each of these is violated by a run.                                *)

(* A write that timed out may have committed, so a resume does not run it  *)
(* again.                                                                  *)
NoRerunOfTimedOut ==
  [][\A i \in Items : code[i] = "TIMEOUT" /\ stat[i] = "failed" /\ effects[i] > 0
                      => stat'[i] = "failed"]_vars

(* A partial batch with a failure worth retrying is resumed by the card's  *)
(* button.                                                                 *)
CardResumes ==
  status = "partial" /\ (\E i \in InStatus("failed") : code[i] \notin Permanent)
  => MayResume("chat")
=============================================================================
