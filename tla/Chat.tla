-------------------------------- MODULE Chat --------------------------------
(***************************************************************************)
(* The assistant's engine in one window (chatEngine.ts): a message of the  *)
(* user or a click on a confirmation card starts a lane of work, which     *)
(* asks the provider, runs the reads it calls for and puts its writes on   *)
(* cards for the user to confirm.  Lanes share the engine's fields, and    *)
(* everything may happen while one of them awaits: a stop, the watchdog's  *)
(* recovery, a change of company, another conversation.                    *)
(*                                                                         *)
(* A step of a lane is what runs between two awaits.                       *)
(***************************************************************************)
EXTENDS Dialogue, Integers, FiniteSets

CONSTANTS
  Lanes,            \* work under way at the same time; a bound
  Calls,            \* tool calls the model may make; a bound
  Reads, Batches,   \* those that only read, and those that may enqueue a batch
  Keys, Key,        \* tool and arguments of a call
  WriteRetryLimit, MaxIterations, MaxCorrections,
  MaxSends,         \* turns of the user, corrections among them; a bound
  MaxMishaps        \* a bound

ASSUME ChatAssumption ==
  /\ Reads \subseteq Calls /\ Batches \subseteq Calls \ Reads
  /\ Key \in [Calls -> Keys] /\ IsFiniteSet(Calls)
  /\ {WriteRetryLimit, MaxIterations, MaxCorrections, MaxSends, MaxMishaps} \subseteq Nat

VARIABLES
  busy,        \* isProcessing, which closes the input
  abort,       \* the user pressed stop, or the watchdog did
  epoch,       \* recoveryCount
  iteration, corrections,
  history,
  pending,     \* writes that wait for the user
  card,        \* what the transcript shows of each call
  failures,    \* per key, since the last message
  done,        \* keys of the writes that succeeded in this conversation
  landed,      \* one of them since the last message
  company, scoped,   \* the active company, and the one the engine is for; 0 is none
  conv,        \* the conversation: its number and its company
  loading,     \* a saved conversation is being fetched
  lane,
  offered,     \* history: the company a card was made for
  effects,     \* the companies in which each write took effect
  mishaps,     \* history: what has happened to a lane under way
  sends, spent \* what the bounds bound

flags == <<busy, abort, epoch, iteration, corrections>>
talk == <<history, pending, card, failures, done, landed>>
scope == <<company, scoped, conv, loading>>
facts == <<offered, effects, mishaps>>
vars == <<flags, talk, scope, lane, facts, sends, spent>>

Waiting == {"preamble", "asking", "pausing", "reading",
            "vetting", "checking", "executing", "running"}
Idle == [at |-> "idle", epoch |-> 0, conv |-> [no |-> 0, of |-> 0], calls |-> {}, into |-> 0, retried |-> FALSE]
Live == {l \in Lanes : lane[l].at # "idle"}

Cards == {"new", "called", "pending", "executing", "success", "error", "rejected", "gone"}
Companies == 0..MaxMishaps + 1
Conversations == [no : Nat, of : Companies]

TypeOK ==
  /\ {busy, abort, landed, loading} \subseteq BOOLEAN
  /\ {epoch, corrections, sends, spent} \subseteq Nat
  /\ iteration \in Int /\ iteration <= MaxIterations
  /\ history \in Seq([kind : Kinds, calls : SUBSET Calls, answered : SUBSET Calls, of : Conversations])
  /\ pending \subseteq Calls \ Reads /\ card \in [Calls -> Cards]
  /\ failures \in [Keys -> Nat] /\ done \subseteq Keys
  /\ company \in Companies \ {0} /\ scoped \in Companies /\ conv \in Conversations
  /\ lane \in [Lanes -> [at : Waiting \cup {"idle"}, epoch : Nat, conv : Conversations,
                         calls : SUBSET Calls, into : Companies, retried : BOOLEAN]]
  /\ offered \in [Calls -> Companies]
  /\ effects \in [Calls -> Seq(Companies)]
  /\ mishaps \subseteq {"overtaken", "crowded", "switched", "replaced"}

NoFailures == [k \in Keys |-> 0]

Init ==
  /\ busy = FALSE /\ abort = FALSE /\ epoch = 0 /\ iteration = 0 /\ corrections = 0
  /\ history = <<>> /\ pending = {} /\ card = [c \in Calls |-> "new"]
  /\ failures = NoFailures /\ done = {} /\ landed = FALSE
  /\ company = 1 /\ scoped = 1 /\ conv = [no |-> 1, of |-> 1] /\ loading = FALSE
  /\ lane = [l \in Lanes |-> Idle]
  /\ offered = [c \in Calls |-> 0] /\ effects = [c \in Calls |-> <<>>]
  /\ mishaps = {} /\ sends = 0 /\ spent = 0

-----------------------------------------------------------------------------
(* What the steps of a lane are made of. *)

\* Faulty: the flag is not taken back.
FaultyEnds(l) == lane' = [lane EXCEPT ![l] = Idle] /\ UNCHANGED busy

\* The finally of send and of resolveConfirmation.
Ends(l) == lane' = [lane EXCEPT ![l] = Idle] /\ busy' = FALSE

\* A card that is no longer shown stays away.
Shows(C, status) == card' = [c \in Calls |-> IF c \in C /\ card[c] # "gone" THEN status ELSE card[c]]

Fails(C) ==
  failures' = [k \in Keys |-> failures[k] + Cardinality({c \in C : Key[c] = k})]

(* The top of runLoop, after n turns: too many, the stop that was pressed, *)
(* or one turn more.  shown is the busy flag it finds.                     *)
Loops(l, r, n, stop, shown) ==
  /\ abort' = (stop /\ n >= MaxIterations)
  /\ IF n >= MaxIterations \/ stop
     THEN Ends(l) /\ iteration' = n
     ELSE /\ lane' = [lane EXCEPT ![l] = [r EXCEPT !.at = "asking"]]
          /\ iteration' = n + 1 /\ busy' = shown

\* A loop that is entered takes the recovery count of that moment.
Enters(l, n, stop, shown) ==
  Loops(l, [lane[l] EXCEPT !.epoch = epoch, !.calls = {}, !.retried = FALSE], n, stop, shown)

\* Once every card is answered the model is asked again.
Resumes(l, shown) ==
  IF pending' = {} THEN Enters(l, 0, abort, shown)
                   ELSE Ends(l) /\ UNCHANGED <<abort, iteration>>

Fresh(l) == lane[l].epoch = epoch
Free == {l \in Lanes : lane[l].at = "idle"}

\* Lanes differ in nothing.
Slot == CHOOSE l \in Free : TRUE

-----------------------------------------------------------------------------
(* A message of the user. *)

Starts(l, stage, of, calls) ==
  lane' = [lane EXCEPT ![l] = [Idle EXCEPT !.at = stage, !.conv = of, !.calls = calls, !.epoch = epoch]]

\* The chat is on the screen: Scope has run.
Present == scoped \in {0, company}

Speaks ==
  /\ sends < MaxSends /\ sends' = sends + 1
  /\ ~busy /\ pending = {} /\ Present
  /\ scoped' = company /\ conv' = [conv EXCEPT !.of = company]
  /\ Free # {} /\ Starts(Slot, "preamble", conv', {})
  /\ busy' = TRUE
  /\ UNCHANGED <<abort, epoch, iteration, corrections, pending, failures, done, landed>>
  /\ UNCHANGED <<company, loading, facts, spent>>

Send == Speaks /\ UNCHANGED <<history, card>>

\* The last message once more: what followed it is dropped, cards included.
Regenerate ==
  /\ Speaks /\ UserTurns(history) # {}
  /\ history' = BeforeLastUser(history)
  /\ LET dropped == {i \in 1..Len(history) : i > Len(history')} IN
       Shows(UNION {history[i].calls : i \in dropped}, "gone")

(* The context of the request is read, the instructions are written, the   *)
(* guard gives its verdict, and the counters start anew.                   *)
Admit(l) ==
  /\ lane[l].at = "preamble"
  /\ LET instructed == WithSystem(history, lane[l].conv) IN
     \/ /\ history' = instructed /\ Ends(l)
        /\ UNCHANGED <<abort, iteration, corrections, failures, landed>>
     \/ /\ history' = Append(instructed, Turn("user", lane[l].conv))
        /\ corrections' = 0 /\ landed' = FALSE /\ failures' = NoFailures
        /\ Enters(l, 0, FALSE, busy)
  /\ UNCHANGED <<epoch, pending, card, done, scope, facts, sends, spent>>

-----------------------------------------------------------------------------
(* A turn of the model: runLoop, drainStreaming and what follows.  While   *)
(* a lane asks, the history is read for its request: once the router has   *)
(* chosen the tools, and again when the stream failed.                     *)

\* A stop is seen with the next piece of the stream.
Stopped(l) ==
  /\ lane[l].at = "asking" /\ abort
  /\ abort' = FALSE /\ Ends(l)
  /\ UNCHANGED <<epoch, iteration, corrections, talk, scope, facts, sends, spent>>

\* The answer to a request from before a recovery is dropped.
Orphan(l) ==
  /\ lane[l].at \in {"asking", "pausing", "reading"} /\ ~Fresh(l)
  /\ Ends(l)
  /\ UNCHANGED <<abort, epoch, iteration, corrections, talk, scope, facts, sends, spent>>

Replied(l) == lane[l].at = "asking" /\ Fresh(l)

\* An error of the provider: a passing one is waited out once.
Error(l) ==
  /\ Replied(l)
  /\ \/ ~lane[l].retried /\ lane' = [lane EXCEPT ![l].at = "pausing", ![l].retried = TRUE] /\ UNCHANGED busy
     \/ Ends(l)
  /\ UNCHANGED <<abort, epoch, iteration, corrections, talk, scope, facts, sends, spent>>

AskAgain(l) ==
  /\ lane[l].at = "pausing" /\ Fresh(l)
  /\ Loops(l, lane[l], iteration - 1, abort, busy)
  /\ UNCHANGED <<epoch, corrections, talk, scope, facts, sends, spent>>

(* A reply without calls ends the lane; one that claims a write which      *)
(* never happened is sent back, at most so often.                          *)
Text(l) ==
  /\ Replied(l)
  /\ LET said == Append(history, Turn("text", lane[l].conv)) IN
     \/ /\ history' = said /\ Ends(l)
        /\ \/ UNCHANGED corrections
           \/ ~landed /\ corrections >= MaxCorrections /\ corrections' = corrections + 1
        /\ UNCHANGED <<abort, iteration, sends>>
     \/ /\ ~landed /\ corrections < MaxCorrections /\ corrections' = corrections + 1
        /\ sends < MaxSends /\ sends' = sends + 1
        /\ history' = Append(said, Turn("user", lane[l].conv))
        /\ Enters(l, iteration, abort, busy)
  /\ UNCHANGED <<epoch, pending, card, failures, done, landed, scope, facts, spent>>

(* The writes of a reply, once its reads are in h: those that failed too   *)
(* often and those done already are answered, the others are put before    *)
(* the posting guard.  The cards that waited so far are forgotten.         *)
Exhausted(writes) == {c \in writes : failures[Key[c]] >= WriteRetryLimit}
\* Faulty: the ledger is not asked.
FaultyAlreadyDone(writes) == {}

AlreadyDone(writes) == {c \in writes \ Exhausted(writes) : Key[c] \in done}

TakesUp(l, h, writes) ==
  LET refused == Exhausted(writes) \cup AlreadyDone(writes)
      asked == writes \ refused IN
  IF writes = {} THEN /\ history' = h /\ UNCHANGED pending
                      /\ Loops(l, [lane[l] EXCEPT !.calls = {}, !.retried = FALSE], iteration, abort, busy)
  ELSE /\ pending' = {} /\ history' = Answer(h, refused, lane[l].conv)
       /\ UNCHANGED <<abort, iteration>>
       /\ IF asked = {} THEN Ends(l)
          ELSE /\ lane' = [lane EXCEPT ![l].at = "vetting", ![l].calls = asked, ![l].retried = FALSE]
               /\ UNCHANGED busy

\* A reply with calls: the reads are run before anything else.
Call(l) ==
  /\ Replied(l)
  /\ \E C \in (SUBSET {c \in Calls : card[c] = "new"}) \ {{}} :
       LET h == Append(history, CallsTurn(C, lane[l].conv)) IN
       /\ card' = [c \in Calls |-> IF c \in C THEN "called" ELSE card[c]]
       /\ IF C \cap Reads = {} THEN TakesUp(l, h, C)
          ELSE /\ history' = h
               /\ lane' = [lane EXCEPT ![l].at = "reading", ![l].calls = C, ![l].retried = FALSE]
               /\ UNCHANGED <<busy, abort, iteration, pending>>
  /\ UNCHANGED <<epoch, corrections, failures, done, landed, scope, facts, sends, spent>>

ReadDone(l) ==
  /\ lane[l].at = "reading" /\ Fresh(l)
  /\ TakesUp(l, AnswerAtTail(history, lane[l].calls \cap Reads, lane[l].conv), lane[l].calls \ Reads)
  /\ UNCHANGED <<epoch, corrections, card, failures, done, landed, scope, facts, sends, spent>>

(* Behind the posting guard each write is blocked or gets its card.  The   *)
(* recovery count is not asked here.                                       *)
Offer(l) ==
  /\ lane[l].at = "vetting"
  /\ \E blocked \in SUBSET lane[l].calls :
       LET shown == lane[l].calls \ blocked IN
       /\ history' = Answer(history, blocked, lane[l].conv)
       /\ Fails(blocked)
       /\ pending' = pending \cup shown
       /\ card' = [c \in Calls |-> CASE c \in shown -> "pending" [] c \in blocked -> "error"
                                      [] OTHER -> card[c]]
       /\ offered' = [c \in Calls |-> IF c \in shown THEN lane[l].conv.of ELSE offered[c]]
  /\ Ends(l)
  /\ UNCHANGED <<abort, epoch, iteration, corrections, done, landed, scope, effects, mishaps, sends, spent>>

-----------------------------------------------------------------------------
(* A click on a card: resolveConfirmation. *)

\* Faulty: the call is taken out after it was executed.
FaultyTakes(c) == c \in pending /\ UNCHANGED pending

\* The call is taken out before anything is awaited.
Takes(c) == c \in pending /\ pending' = pending \ {c}

Crowds == mishaps' = IF Live = {} THEN mishaps ELSE mishaps \cup {"crowded"}

Approve(c) ==
  /\ Present /\ card[c] = "pending" /\ Takes(c)
  /\ Free # {} /\ Starts(Slot, "checking", conv, {c})
  /\ busy' = TRUE /\ Crowds
  /\ UNCHANGED <<abort, epoch, iteration, corrections, history, card, failures, done, landed>>
  /\ UNCHANGED <<scope, offered, effects, sends, spent>>

Reject(c) ==
  /\ Present /\ card[c] = "pending" /\ Takes(c)
  /\ Shows({c}, "rejected")
  /\ history' = Answer(history, {c}, conv)
  /\ IF pending' = {}
     THEN Free # {} /\ Loops(Slot, [Idle EXCEPT !.conv = conv, !.epoch = epoch], 0, abort, TRUE)
     ELSE busy' = FALSE /\ UNCHANGED <<lane, abort, iteration>>
  /\ Crowds
  /\ UNCHANGED <<epoch, corrections, failures, done, landed, scope, offered, effects, sends, spent>>

\* The posting guard once more; the write goes to the company of this moment.
Check(l) ==
  /\ lane[l].at = "checking"
  /\ \/ /\ Shows(lane[l].calls, "executing")
        /\ lane' = [lane EXCEPT ![l].at = "executing", ![l].into = company]
        /\ UNCHANGED <<busy, abort, iteration, history, pending, failures>>
     \/ /\ Shows(lane[l].calls, "error") /\ Fails(lane[l].calls)
        /\ history' = Answer(history, lane[l].calls, lane[l].conv)
        /\ UNCHANGED pending /\ Resumes(l, busy)
  /\ UNCHANGED <<epoch, corrections, done, landed, scope, facts, sends, spent>>

TakesEffect(l) ==
  effects' = [c \in Calls |-> IF c \in lane[l].calls THEN Append(effects[c], lane[l].into) ELSE effects[c]]

Succeed(l) ==
  /\ lane[l].at = "executing"
  /\ TakesEffect(l) /\ Shows(lane[l].calls, "success")
  /\ landed' = TRUE /\ done' = done \cup {Key[c] : c \in lane[l].calls}
  /\ UNCHANGED pending
  /\ \/ /\ lane[l].calls \subseteq Batches
        /\ lane' = [lane EXCEPT ![l].at = "running", ![l].epoch = epoch]
        /\ UNCHANGED <<busy, abort, iteration, history>>
     \/ history' = Answer(history, lane[l].calls, lane[l].conv) /\ Resumes(l, busy)
  /\ UNCHANGED <<epoch, corrections, failures, scope, offered, mishaps, sends, spent>>

\* An error, or a timeout, behind which the write may have taken effect.
Fail(l) ==
  /\ lane[l].at = "executing"
  /\ TakesEffect(l) \/ UNCHANGED effects
  /\ Shows(lane[l].calls, "error") /\ Fails(lane[l].calls)
  /\ history' = Answer(history, lane[l].calls, lane[l].conv)
  /\ UNCHANGED pending /\ Resumes(l, busy)
  /\ UNCHANGED <<epoch, corrections, done, landed, scope, offered, mishaps, sends, spent>>

(* The batch has run: its summary is a turn of its own, before the result, *)
(* unless the lane was recovered meanwhile.                                *)
BatchDone(l) ==
  /\ lane[l].at = "running"
  /\ history' = Answer(IF Fresh(l) THEN Append(history, Turn("text", lane[l].conv)) ELSE history,
                        lane[l].calls, lane[l].conv)
  /\ UNCHANGED pending /\ Resumes(l, busy)
  /\ UNCHANGED <<epoch, corrections, card, failures, done, landed, scope, facts, sends, spent>>

-----------------------------------------------------------------------------
(* What happens to the lanes from outside. *)

Spends == spent < MaxMishaps /\ spent' = spent + 1

\* Where a lane goes on without asking whether it was overtaken.
Unguarded == {"preamble", "vetting", "checking", "executing", "running"}
Overtakes ==
  mishaps' = mishaps \cup (IF Live # {} THEN {"overtaken"} ELSE {})
                     \cup (IF \E l \in Live : lane[l].at \in Unguarded THEN {"switched"} ELSE {})
Replaces(under) == mishaps' = IF under # {} THEN mishaps \cup {"replaced"} ELSE mishaps

\* requestStop
Stop ==
  /\ busy /\ ~abort /\ Present /\ Spends
  /\ abort' = TRUE
  /\ UNCHANGED <<busy, epoch, iteration, corrections, talk, scope, lane, facts, sends>>

\* recoverStuck: a lane has shown no progress for 150 seconds, or the
\* machine slept.
Recover ==
  /\ busy /\ Present /\ Spends
  /\ abort' = TRUE /\ failures' = NoFailures /\ epoch' = epoch + 1 /\ busy' = FALSE
  /\ mishaps' = mishaps \cup {"overtaken"}
  /\ UNCHANGED <<iteration, corrections, history, pending, card, done, landed, scope, lane, sends>>
  /\ UNCHANGED <<offered, effects>>

\* The active company changes, anywhere in the application.
Switch ==
  /\ Spends /\ company' = company + 1
  /\ Overtakes
  /\ UNCHANGED <<flags, talk, scoped, conv, loading, lane, offered, effects, sends>>

\* Faulty: the lanes of the old company are not told.
FaultyScope ==
  /\ ~Present /\ scoped' = company
  /\ history' = <<>> /\ pending' = {} /\ failures' = NoFailures /\ done' = {} /\ landed' = FALSE
  /\ iteration' = 0 /\ conv' = [no |-> conv.no + 1, of |-> company]
  /\ Overtakes
  /\ UNCHANGED <<busy, abort, epoch, corrections, card, company, loading, lane, offered, effects, sends, spent>>

(* ensureCompanyScope, when the chat is shown again for another company:   *)
(* everything but the transcript is dropped.                               *)
Scope ==
  /\ ~Present /\ scoped' = company
  /\ history' = <<>> /\ pending' = {} /\ failures' = NoFailures /\ done' = {} /\ landed' = FALSE
  /\ iteration' = 0 /\ epoch' = epoch + 1
  /\ conv' = [no |-> conv.no + 1, of |-> company]
  /\ Overtakes
  /\ UNCHANGED <<busy, abort, corrections, card, company, loading, lane, offered, effects, sends, spent>>

EmptyTranscript == Shows({c \in Calls : card[c] # "new"}, "gone") /\ busy' = FALSE

\* Faulty: the cards go and the calls that wait for them stay.
FaultyResets ==
  /\ history' = <<>> /\ failures' = NoFailures /\ done' = {} /\ landed' = FALSE
  /\ iteration' = 0 /\ scoped' = 0 /\ EmptyTranscript
  /\ conv' = [no |-> conv.no + 1, of |-> company]
  /\ UNCHANGED <<pending, abort, epoch, corrections, company>>

\* reset
Resets ==
  /\ history' = <<>> /\ pending' = {} /\ failures' = NoFailures /\ done' = {} /\ landed' = FALSE
  /\ iteration' = 0 /\ scoped' = 0 /\ EmptyTranscript
  /\ conv' = [no |-> conv.no + 1, of |-> company]
  /\ UNCHANGED <<abort, epoch, corrections, company>>

\* A new conversation, or the old one cleared: not while processing.
NewChat ==
  /\ ~busy /\ Present /\ history # <<>> /\ Spends
  /\ Resets /\ Replaces(Live)
  /\ UNCHANGED <<loading, lane, offered, effects, sends>>

\* A saved conversation is picked, or the present one deleted: at any time.
SelectSession ==
  /\ Present /\ Spends
  /\ Resets /\ loading' = TRUE /\ Replaces(Live)
  /\ UNCHANGED <<lane, offered, effects, sends>>

\* The saved conversation arrives, or cannot be read.
Restore ==
  /\ loading /\ loading' = FALSE
  /\ \/ UNCHANGED <<busy, history, card, done, scoped, conv, mishaps>>
     \/ /\ scoped' = company /\ conv' = [conv EXCEPT !.of = company]
        /\ history' = <<Turn("system", conv')>> /\ done' = {}
        /\ EmptyTranscript /\ Replaces(Live \cup pending)
  /\ UNCHANGED <<abort, epoch, iteration, corrections, pending, failures, landed, company, lane>>
  /\ UNCHANGED <<offered, effects, sends, spent>>

-----------------------------------------------------------------------------
LaneStep(l) ==
  \/ Admit(l) \/ Stopped(l) \/ Orphan(l) \/ Error(l) \/ AskAgain(l)
  \/ Text(l) \/ Call(l) \/ ReadDone(l) \/ Offer(l)
  \/ Check(l) \/ Succeed(l) \/ Fail(l) \/ BatchDone(l)

Next ==
  \/ \E l \in Lanes : LaneStep(l)
  \/ Send \/ Regenerate \/ \E c \in Calls : Approve(c) \/ Reject(c)
  \/ Stop \/ Recover \/ Switch \/ Scope \/ NewChat \/ SelectSession \/ Restore

Spec == Init /\ [][Next]_vars

-----------------------------------------------------------------------------
(* Properties *)

(* A write takes effect at most once, never when the user rejected it,     *)
(* and in the company the card was made for unless the conversation or     *)
(* the company was changed under it (confirmations.ts,                     *)
(* resolveConfirmation).                                                   *)
EffectsAreApproved ==
  \A c \in Calls : effects[c] # <<>> =>
    /\ card[c] # "rejected" /\ Len(effects[c]) = 1
    /\ {"switched", "replaced"} \cap mishaps = {} => effects[c][1] = offered[c]

(* What is sent to the provider has its instructions at the head and every *)
(* call answered in its place, and so has the same request sent once more  *)
(* when the stream failed, as long as no other lane and nobody from        *)
(* outside meddles (pushToolResultAfterPartner, completeFallback).         *)
RequestsAreWhole ==
  mishaps = {} => \A l \in Lanes : lane[l].at = "asking" => Acceptable(history)

(* The same of every request: the comments in resolveConfirmation and      *)
(* AiChatPage have it without exception.                                   *)
RequestsAreAlwaysWhole == \A l \in Lanes : lane[l].at = "asking" => Acceptable(history)

(* A lane that was overtaken leaves nothing in the conversation of another *)
(* company: the recovery count stops it wherever it is asked for.          *)
NoForeignTurn ==
  {"switched", "replaced"} \cap mishaps = {} => \A i \in 1..Len(history) : history[i].of = conv

(* The same wherever the lane was (ensureCompanyScope).                    *)
RepliesStayHome == \A i \in 1..Len(history) : history[i].of = conv

(* A call that keeps the input closed has its card on the screen: else no  *)
(* message could ever be sent (send, reset).                               *)
Answerable ==
  "replaced" \notin mishaps => \A c \in pending : card[c] = "pending"

(* A write that succeeded is not offered again with the same arguments in  *)
(* the same conversation (the ledger's completed keys).                    *)
NoSecondOffer ==
  [][mishaps' = {} => \A c, d \in Calls :
       /\ card[c] = "success" /\ offered[c] = conv.of /\ Key[d] = Key[c]
       => ~(card[d] # "pending" /\ card'[d] = "pending")]_vars

(* The input is closed only while a lane is at work, which has a deadline  *)
(* for each of its awaits (the finally blocks).                            *)
BusyHasALane == busy => Live # {}
=============================================================================
