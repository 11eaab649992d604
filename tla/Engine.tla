------------------------------- MODULE Engine -------------------------------
(***************************************************************************)
(* The one PostgreSQL session of a browser window.  PGlite is a singleton, *)
(* so every call of the window speaks in the same session, and a BEGIN of  *)
(* one call is a BEGIN of them all.  The engine answers one request at a   *)
(* time, in the order they were sent.                                      *)
(*                                                                         *)
(* A write is what a statement of a call leaves in the database.  On the   *)
(* worker transport a request is given up after 30 seconds: it stays in    *)
(* the engine's queue and is carried out later.                            *)
(***************************************************************************)
EXTENDS Naturals, Sequences, FiniteSets

CONSTANTS
  Flows,      \* calls of query() and transaction()
  Statements  \* how many a transaction has

ASSUME StatementsAssumption == Statements \in Nat \ {0}

VARIABLES
  batches,    \* the calls that are transactions; the others have one statement
  transport,  \* "main" or "worker"
  block,      \* the session's transaction block
  pending,    \* writes of the open block
  kept,       \* writes that are committed
  late        \* requests that were given up and wait in the engine's queue

engine == <<batches, transport, block, pending, kept, late>>

\* The second try of a call is the replay of its request.
Writes == Flows \X Nat \X {1, 2}
NoWrite == <<>>
Verbs == {"BEGIN", "COMMIT", "ROLLBACK", "SELECT", "STATEMENT"}

Length(f) == IF f \in batches THEN Statements ELSE 1

EngineTypeOK ==
  /\ batches \subseteq Flows
  /\ transport \in {"main", "worker"}
  /\ block \in {"idle", "active", "aborted"}
  /\ pending \subseteq Writes /\ kept \subseteq Writes
  /\ late \in Seq([verb : Verbs, write : Writes \cup {NoWrite}])

EngineInit ==
  /\ batches \in SUBSET Flows
  /\ transport \in {"main", "worker"}
  /\ block = "idle" /\ pending = {} /\ kept = {} /\ late = <<>>

-----------------------------------------------------------------------------
(* What PostgreSQL makes of a request; ok is whether it answers without an *)
(* error.                                                                  *)

\* Inside a block BEGIN is a warning; in a failed one it is an error.
Begin(ok) ==
  /\ ok <=> block # "aborted"
  /\ block' = IF ok THEN "active" ELSE block
  /\ UNCHANGED <<pending, kept>>

\* Outside a block a statement commits by itself; a failure ruins the block.
Statement(w, ok) ==
  /\ block = "aborted" => ~ok
  /\ IF ok THEN /\ pending' = IF block = "active" THEN pending \cup {w} ELSE pending
                /\ kept' = IF block = "idle" THEN kept \cup {w} ELSE kept
                /\ block' = block
           ELSE /\ block' = IF block = "active" THEN "aborted" ELSE block
                /\ pending' = {} /\ UNCHANGED kept

\* COMMIT ends whatever block is open: a failed one by rolling it back,
\* and without an error.  Outside a block it is a warning.
Commit(ok) ==
  /\ ok
  /\ block' = "idle" /\ pending' = {}
  /\ kept' = kept \cup pending

Rollback(ok) ==
  /\ ok
  /\ block' = "idle" /\ pending' = {}
  /\ UNCHANGED kept

\* A statement that writes nothing.
Select(ok) ==
  /\ ok <=> block # "aborted"
  /\ UNCHANGED <<block, pending, kept>>

Request(verb, w) == [verb |-> verb, write |-> w]

Executes(r, ok) ==
  \/ r.verb = "BEGIN" /\ Begin(ok)
  \/ r.verb = "COMMIT" /\ Commit(ok)
  \/ r.verb = "ROLLBACK" /\ Rollback(ok)
  \/ r.verb = "SELECT" /\ Select(ok)
  \/ r.verb = "STATEMENT" /\ Statement(r.write, ok)

\* A request is answered once those sent before it are.
Answers(r, ok) == late = <<>> /\ Executes(r, ok) /\ UNCHANGED <<late, batches, transport>>

\* withQueryTimeout: the loser of the race is abandoned, not cancelled.
GivesUp(r) ==
  /\ transport = "worker"
  /\ late' = Append(late, r)
  /\ UNCHANGED <<batches, transport, block, pending, kept>>

AnswersLate ==
  /\ late # <<>> /\ late' = Tail(late)
  /\ \E ok \in BOOLEAN : Executes(Head(late), ok)
  /\ UNCHANGED <<batches, transport>>

\* The window is reloaded: the open block is lost with its session.
EngineReload ==
  /\ block' = "idle" /\ pending' = {} /\ late' = <<>>
  /\ UNCHANGED <<batches, transport, kept>>
=============================================================================
