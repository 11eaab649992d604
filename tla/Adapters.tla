------------------------------ MODULE Adapters ------------------------------
(***************************************************************************)
(* The calls query() and transaction() of a browser window, from getting   *)
(* an adapter to the answer: on the local PGlite session a call is a       *)
(* sequence of awaited requests, on a server it is one request that is     *)
(* carried out as a transaction and whose answer may never be heard.       *)
(***************************************************************************)
EXTENDS Routes

CONSTANTS MaxTimeouts, MaxChoices, MaxReloads  \* bounds

ASSUME BoundsAssumption == MaxTimeouts \in Nat /\ MaxChoices \in Nat /\ MaxReloads \in Nat

VARIABLES
  at,         \* where each call is
  k,          \* its next statement, or the try of its request
  told,       \* what its caller was told
  flying,     \* requests to the server that nobody waits for any more
  unheard,    \* history: calls with a request whose answer was not heard
  disturbed,  \* history: calls that met another's request in the session
  spent       \* what the bounds bound

calls == <<at, k, told, flying, unheard, disturbed, spent>>
vars == <<engine, routes, calls>>

Inside == {"work", "commit", "rollback"}
Stages == {"route", "begin", "sent", "told"} \cup Inside

TypeOK ==
  /\ EngineTypeOK /\ RoutesTypeOK
  /\ at \in [Flows -> Stages] /\ k \in [Flows -> Nat \ {0}]
  /\ told \in [Flows -> {"none", "ok", "error", "cut"}]
  /\ flying \subseteq Flows \X {1, 2}
  /\ unheard \subseteq Flows /\ disturbed \subseteq Flows
  /\ spent \in [timeouts : Nat, choices : Nat, reloads : Nat]

Init ==
  /\ EngineInit /\ RoutesInit
  /\ at = [f \in Flows |-> "route"] /\ k = [f \in Flows |-> 1]
  /\ told = [f \in Flows |-> "none"]
  /\ flying = {} /\ unheard = {} /\ disturbed = {}
  /\ spent = [timeouts |-> 0, choices |-> 0, reloads |-> 0]

-----------------------------------------------------------------------------
Openers == {f \in batches : at[f] \in Inside}

\* A request of f meets the blocks of the others, or one left open.
Meets(f) ==
  LET others == Openers \ {f} IN
  disturbed' = disturbed \cup others
               \cup (IF others # {} \/ (block # "idle" /\ f \notin Openers) THEN {f} ELSE {})

Goes(f, stage, n) == at' = [at EXCEPT ![f] = stage] /\ k' = [k EXCEPT ![f] = n] /\ UNCHANGED told
Tells(f, what) ==
  at' = [at EXCEPT ![f] = "told"] /\ told' = [told EXCEPT ![f] = what] /\ k' = [k EXCEPT ![f] = 1]

Spends(what, max) == spent[what] < max /\ spent' = [spent EXCEPT ![what] = @ + 1]

(* An awaited request to PGlite: answered, or given up on the worker.      *)
Awaits(f, r, ok) ==
  \/ Answers(r, ok) /\ Meets(f) /\ UNCHANGED spent
  \/ ~ok /\ GivesUp(r) /\ disturbed' = disturbed \cup {f} /\ Spends("timeouts", MaxTimeouts)

-----------------------------------------------------------------------------
(* Getting the adapter. *)

Acquiring ==
  /\ \/ \E f \in Flows : StartAcquire(f) \/ Probed(f) \/ Pinged(f) \/ Opened(f)
     \/ TrustExpires
  /\ UNCHANGED calls

\* Fifteen seconds: the caller hears of it, the acquisition goes on.
Deadline(f) ==
  /\ at[f] = "route" /\ acq[f].at \in Under
  /\ Tells(f, "error")
  /\ UNCHANGED <<engine, routes, flying, unheard, disturbed, spent>>

Enter(f) ==
  /\ at[f] = "route" /\ acq[f].at = "done"
  /\ CASE acq[f].got = "pglite" -> Goes(f, IF f \in batches THEN "begin" ELSE "work", 1)
       [] acq[f].got = "server" -> Goes(f, "sent", 1)
       [] OTHER -> Tells(f, "error")
  /\ UNCHANGED <<engine, routes, flying, unheard, disturbed, spent>>

-----------------------------------------------------------------------------
(* pgliteAdapter *)

\* Faulty: the batch without its BEGIN.
FaultyBeginBlock(f) ==
  /\ at[f] = "begin" /\ Goes(f, "work", 1)
  /\ UNCHANGED <<engine, routes, flying, unheard, disturbed, spent>>

\* BEGIN stands outside the inner try: its failure rolls nothing back.
BeginBlock(f) ==
  /\ at[f] = "begin"
  /\ \E ok \in BOOLEAN :
       /\ Awaits(f, Request("BEGIN", NoWrite), ok)
       /\ IF ok THEN Goes(f, "work", 1) ELSE Tells(f, "error")
  /\ UNCHANGED <<routes, flying, unheard>>

RunStatement(f) ==
  /\ at[f] = "work"
  /\ \E ok \in BOOLEAN :
       /\ Awaits(f, Request("STATEMENT", <<f, k[f], 1>>), ok)
       /\ IF ok THEN IF k[f] < Length(f) THEN Goes(f, "work", k[f] + 1)
                     ELSE IF f \in batches THEN Goes(f, "commit", k[f]) ELSE Tells(f, "ok")
                ELSE IF f \in batches THEN Goes(f, "rollback", k[f]) ELSE Tells(f, "error")
  /\ UNCHANGED <<routes, flying, unheard>>

CommitBlock(f) ==
  /\ at[f] = "commit"
  /\ \E ok \in BOOLEAN :
       /\ Awaits(f, Request("COMMIT", NoWrite), ok)
       /\ IF ok THEN Tells(f, "ok") ELSE Goes(f, "rollback", k[f])
  /\ UNCHANGED <<routes, flying, unheard>>

\* Faulty: the catch that tells of the failure and leaves the block open.
FaultyRollbackBlock(f) ==
  /\ at[f] = "rollback" /\ Tells(f, "error")
  /\ UNCHANGED <<engine, routes, flying, unheard, disturbed, spent>>

\* Faulty: the catch that does not throw again.
FaultySilentRollback(f) ==
  /\ at[f] = "rollback"
  /\ \E ok \in BOOLEAN : Awaits(f, Request("ROLLBACK", NoWrite), ok)
  /\ Tells(f, "ok")
  /\ UNCHANGED <<routes, flying, unheard>>

RollbackBlock(f) ==
  /\ at[f] = "rollback"
  /\ \E ok \in BOOLEAN : Awaits(f, Request("ROLLBACK", NoWrite), ok)
  /\ Tells(f, "error")
  /\ UNCHANGED <<routes, flying, unheard>>

LateAnswer ==
  /\ AnswersLate
  /\ disturbed' = disturbed \cup Openers
  /\ UNCHANGED <<routes, at, k, told, flying, unheard, spent>>

-----------------------------------------------------------------------------
(* A server: the whole call is one request. *)

WritesOf(f, try) == {<<f, n, try>> : n \in 1..Length(f)}

\* guardedCall: once more, after a pause.
Replays(f) == server = "neon" /\ k[f] = 1

\* The server answers.  An error that speaks of a timeout is tried again.
Served(f) ==
  /\ at[f] = "sent"
  /\ \/ kept' = kept \cup WritesOf(f, k[f]) /\ Tells(f, "ok")
     \/ UNCHANGED kept /\ Tells(f, "error")
     \/ UNCHANGED kept /\ Replays(f) /\ Goes(f, "sent", k[f] + 1)
  /\ UNCHANGED <<batches, transport, block, pending, late>>
  /\ UNCHANGED <<routes, flying, unheard, disturbed, spent>>

\* The answer is lost or too late: the request was carried out, was not, or
\* is still on its way.  The desktop's channel loses none.
Unheard(f) ==
  /\ at[f] = "sent" /\ server # "electron"
  /\ unheard' = unheard \cup {f}
  /\ \/ kept' = kept \cup WritesOf(f, k[f]) /\ UNCHANGED flying
     \/ UNCHANGED <<kept, flying>>
     \/ flying' = flying \cup {<<f, k[f]>>} /\ UNCHANGED kept
  /\ IF Replays(f) THEN Goes(f, "sent", k[f] + 1) ELSE Tells(f, "error")
  /\ UNCHANGED <<batches, transport, block, pending, late>>
  /\ UNCHANGED <<routes, disturbed, spent>>

\* A request nobody waits for is carried out after all.
Lands(r) ==
  /\ flying' = flying \ {r}
  /\ kept' = kept \cup WritesOf(r[1], r[2])
  /\ UNCHANGED <<batches, transport, block, pending, late>>
  /\ UNCHANGED <<routes, at, k, told, unheard, disturbed, spent>>

-----------------------------------------------------------------------------
(* The user. *)

Picks ==
  /\ \/ \E m \in Modes : Choose(m)
     \/ TestLocal
  /\ Spends("choices", MaxChoices)
  /\ UNCHANGED <<at, k, told, flying, unheard, disturbed>>

\* Every call under way is cut; a request on its way to a server stays there.
Reloads ==
  /\ EngineReload /\ RoutesReload
  /\ LET cut == {f \in Flows : told[f] = "none" /\ ~(at[f] = "route" /\ acq[f].at = "start")} IN
       /\ at' = [f \in Flows |-> IF f \in cut THEN "told" ELSE at[f]]
       /\ told' = [f \in Flows |-> IF f \in cut THEN "cut" ELSE told[f]]
  /\ LET sent == {f \in Flows : at[f] = "sent"} IN
       /\ flying' = flying \cup {<<f, k[f]>> : f \in sent}
       /\ unheard' = unheard \cup sent
  /\ UNCHANGED <<k, disturbed>>

Reload == Reloads /\ Spends("reloads", MaxReloads) /\ UNCHANGED fresh

\* The last step of the wizard reloads the page.
Onboards == Reloads /\ fresh /\ fresh' = FALSE /\ UNCHANGED spent

-----------------------------------------------------------------------------
AllTold == \A f \in Flows : at[f] = "told"

Next ==
  \/ Acquiring
  \/ \E f \in Flows : Deadline(f) \/ Enter(f)
  \/ \E f \in Flows : BeginBlock(f) \/ RunStatement(f) \/ CommitBlock(f) \/ RollbackBlock(f)
  \/ LateAnswer
  \/ \E f \in Flows : Served(f) \/ Unheard(f)
  \/ \E r \in flying : Lands(r)
  \/ ~AllTold /\ (Picks \/ Onboards \/ Reload)

Spec == Init /\ [][Next]_vars

-----------------------------------------------------------------------------
(* Properties *)

Whole(f, try) == WritesOf(f, try) \subseteq kept
Untouched(f, try) == WritesOf(f, try) \cap kept = {}

(* What a transaction writes is kept as a whole or not at all, at every    *)
(* moment and through reloads, unless another call spoke in the same       *)
(* PGlite session meanwhile or a request of it was given up (tx.ts).       *)
AllOrNone ==
  \A f \in batches \ disturbed : \A try \in {1, 2} : Whole(f, try) \/ Untouched(f, try)

(* The same without the exception, as tx.ts has it of every multi-table    *)
(* mutation.                                                               *)
TransactionsAreWhole ==
  \A f \in batches : \A try \in {1, 2} : Whole(f, try) \/ Untouched(f, try)

(* A call that reports success has left all its writes; one that reports   *)
(* an error has left none, unless the answer to one of its requests was    *)
(* never heard (dbFailure, neonFailure, relayCall).                        *)
AnswerIsTrue ==
  \A f \in Flows \ disturbed :
    /\ told[f] = "ok" => \E try \in {1, 2} : Whole(f, try)
    /\ told[f] = "error" /\ f \notin unheard => \A try \in {1, 2} : Untouched(f, try)

(* The session is never left in a block that no transaction will end: the  *)
(* next call would write into it and lose its writes (pgliteAdapter on the *)
(* calling thread).                                                        *)
NothingLeftOpen == transport = "main" /\ block # "idle" => Openers # {}

Returned(f) == acq[f].at # "done" /\ acq'[f].at = "done" /\ acq'[f].got \in DbAdapters

(* A call is never handed the adapter of a backend that is not the stored  *)
(* one: the cached adapter goes with the mode it was opened under.  For a  *)
(* page whose choice has not changed during an acquisition.                *)
RoutesWhileSettled ==
  [][\A f \in Flows : Returned(f) /\ crossed' = {} => acq'[f].got = AdapterOf[mode']]_vars

(* The same for every call during whose own acquisition the choice stood,  *)
(* as index.ts has it of every module.                                     *)
RoutesToChosen ==
  [][\A f \in Flows : Returned(f) /\ f \notin crossed' => acq'[f].got = AdapterOf[mode']]_vars

(* A probe that answers never overrides a choice the user has made.        *)
ChoiceStands ==
  [][\A f \in Flows : explicit /\ acq[f].at = "probe" /\ acq'[f].at # "probe" => mode' = mode]_vars

(* Every acquisition that succeeds hands out an adapter.                   *)
GetsAnAdapter == \A f \in Flows : acq[f].got # "none"
=============================================================================
