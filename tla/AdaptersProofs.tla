---------------------------- MODULE AdaptersProofs ----------------------------
(***************************************************************************)
(* For any number of calls, statements, timeouts, choices and reloads: a   *)
(* transaction that is alone in the session is kept whole or not at all,   *)
(* its caller is told the truth, and no block is left open.                *)
(***************************************************************************)
EXTENDS Adapters, TLAPS, SequenceTheorems

(* What of a call is in the open block, and what is committed.             *)
Mine(f) == {w \in pending : w[1] = f}
Ours(f) == {w \in kept : w[1] = f}

Ran(f, n) == {<<f, i, 1>> : i \in 1..n}

(* What a call that nobody disturbed has in the session and on the disk.   *)
Fine(f) ==
  /\ Mine(f) = IF f \in Openers /\ at[f] = "work" THEN Ran(f, k[f] - 1)
               ELSE IF f \in Openers /\ at[f] = "commit" THEN Ran(f, Length(f)) ELSE {}
  /\ f \in Openers /\ at[f] = "work" => block = "active"
  /\ at[f] \in {"route", "begin"} \cup Inside => Ours(f) = {}
  /\ at[f] = "sent" /\ f \notin unheard => Ours(f) = {}
  /\ told[f] = "error" /\ f \notin unheard => Ours(f) = {}
  /\ told[f] = "ok" => \E try \in {1, 2} : Whole(f, try)
  /\ \A try \in {1, 2} : Whole(f, try) \/ Untouched(f, try)

Alone == \A f \in Flows \ disturbed : Fine(f)

(* A statement that was given up is of a call that knows.                  *)
LateIsKnown ==
  \A i \in 1..Len(late) :
    late[i].verb = "STATEMENT" => late[i].write \in Writes /\ late[i].write[1] \in disturbed

(* A request that is on its way has lost its caller.                       *)
FlyingIsUnheard == \A r \in flying : r[1] \in unheard /\ at[r[1]] \in {"sent", "told"}

Staged ==
  \A f \in Flows :
    /\ told[f] = "none" <=> at[f] # "told"
    /\ at[f] \in {"begin", "commit", "rollback"} => f \in batches
    /\ at[f] = "work" => k[f] \in 1..Length(f)
    /\ at[f] = "sent" => k[f] \in {1, 2}

IInv == TypeOK /\ Staged /\ LateIsKnown /\ FlyingIsUnheard /\ Alone

(* On the calling thread no request is given up.                           *)
OpenInv == (transport = "main" => late = <<>>) /\ NothingLeftOpen

RouteInv ==
  /\ cache.adapter # "none" => cache.adapter = AdapterOf[cache.mode]
  /\ crossed = {} => \A f \in Flows :
       /\ acq[f].at \in Under => acq[f].want = mode
       /\ acq[f].at = "ping" /\ cache.adapter # "none" => cache.mode = mode

-----------------------------------------------------------------------------
(* The engine. *)

Requests == [verb : Verbs, write : Writes \cup {NoWrite}]

(* What a request of g may write bears its name.                           *)
Signed(r, g) == r.verb = "STATEMENT" => r.write[1] = g

LEMMA ExecutesBounds ==
  ASSUME NEW r \in Requests, NEW ok, Executes(r, ok)
  PROVE  /\ kept \subseteq kept'
         /\ pending' \subseteq pending \cup (IF r.verb = "STATEMENT" THEN {r.write} ELSE {})
         /\ kept' \subseteq kept \cup pending \cup (IF r.verb = "STATEMENT" THEN {r.write} ELSE {})
<1>1. CASE r.verb = "BEGIN" /\ Begin(ok)
  BY <1>1 DEF Begin
<1>2. CASE r.verb = "COMMIT" /\ Commit(ok)
  BY <1>2 DEF Commit
<1>3. CASE r.verb = "ROLLBACK" /\ Rollback(ok)
  BY <1>3 DEF Rollback
<1>4. CASE r.verb = "SELECT" /\ Select(ok)
  BY <1>4 DEF Select
<1>5. CASE r.verb = "STATEMENT" /\ Statement(r.write, ok)
  BY <1>5 DEF Statement
<1> QED
  BY <1>1, <1>2, <1>3, <1>4, <1>5 DEF Executes

LEMMA ExecutesTyped ==
  ASSUME EngineTypeOK, NEW r \in Requests, r.verb = "STATEMENT" => r.write \in Writes,
         NEW ok, Executes(r, ok)
  PROVE  /\ block' \in {"idle", "active", "aborted"}
         /\ pending' \subseteq Writes /\ kept' \subseteq Writes
<1>1. pending' \subseteq Writes /\ kept' \subseteq Writes
  BY ExecutesBounds DEF EngineTypeOK
<1>2. block' \in {"idle", "active", "aborted"}
  BY DEF Executes, Begin, Commit, Rollback, Select, Statement, EngineTypeOK
<1> QED
  BY <1>1, <1>2

LEMMA RequestIsRequest ==
  /\ \A verb \in Verbs : Request(verb, NoWrite) \in Requests /\ Request(verb, NoWrite).verb = verb
  /\ \A w \in Writes : /\ Request("STATEMENT", w) \in Requests
                       /\ Request("STATEMENT", w).verb = "STATEMENT" /\ Request("STATEMENT", w).write = w
BY DEF Request, Requests, Verbs

LEMMA AppendTyped ==
  ASSUME NEW q \in Seq(Requests), NEW r \in Requests
  PROVE  /\ Append(q, r) \in Seq(Requests)
         /\ Len(Append(q, r)) = Len(q) + 1 /\ Len(q) \in Nat
         /\ \A i \in 1..Len(q) : Append(q, r)[i] = q[i]
         /\ Append(q, r)[Len(q) + 1] = r
BY AppendProperties

-----------------------------------------------------------------------------
(* A call that is left alone. *)

Stays(f) ==
  /\ at'[f] = at[f] /\ k'[f] = k[f] /\ told'[f] = told[f] /\ (f \in unheard' <=> f \in unheard)
  /\ batches' = batches /\ Mine(f)' = Mine(f) /\ Ours(f)' = Ours(f)
  /\ f \in Openers => block' = block

LEMMA WholeIsOurs ==
  ASSUME NEW f \in Flows, NEW try \in {1, 2}
  PROVE  /\ Whole(f, try) <=> WritesOf(f, try) \subseteq Ours(f)
         /\ Untouched(f, try) <=> WritesOf(f, try) \cap Ours(f) = {}
<1>1. \A w \in WritesOf(f, try) : w[1] = f
  BY DEF WritesOf
<1> QED
  BY <1>1 DEF Whole, Untouched, Ours

LEMMA WholeIsOursNext ==
  ASSUME NEW f \in Flows, NEW try \in {1, 2}, batches' = batches
  PROVE  /\ WritesOf(f, try)' = WritesOf(f, try) /\ Length(f)' = Length(f)
         /\ Whole(f, try)' <=> WritesOf(f, try) \subseteq Ours(f)'
         /\ Untouched(f, try)' <=> WritesOf(f, try) \cap Ours(f)' = {}
<1>1. Length(f)' = Length(f)
  BY DEF Length
<1>2. WritesOf(f, try)' = WritesOf(f, try)
  BY <1>1 DEF WritesOf
<1>3. \A w \in WritesOf(f, try) : w[1] = f
  BY DEF WritesOf
<1> QED
  BY <1>1, <1>2, <1>3 DEF Whole, Untouched, Ours

LEMMA StaysFine ==
  ASSUME NEW f \in Flows, Fine(f), Stays(f)
  PROVE  Fine(f)'
<1>1. f \in Openers' <=> f \in Openers
  BY DEF Stays, Openers
<1>2. Length(f)' = Length(f) /\ \A try \in {1, 2} : (Whole(f, try)' <=> Whole(f, try)) /\ (Untouched(f, try)' <=> Untouched(f, try))
  BY WholeIsOurs, WholeIsOursNext DEF Stays
<1>3. Ran(f, k[f] - 1)' = Ran(f, k[f] - 1) /\ Ran(f, Length(f))' = Ran(f, Length(f))
  BY <1>2 DEF Stays, Ran
<1>4. Mine(f)' = IF f \in Openers' /\ at'[f] = "work" THEN Ran(f, k[f] - 1)'
               ELSE IF f \in Openers' /\ at'[f] = "commit" THEN Ran(f, Length(f))' ELSE {}
  BY <1>1, <1>3 DEF Stays, Fine
<1>5. f \in Openers' /\ at'[f] = "work" => block' = "active"
  BY <1>1 DEF Stays, Fine
<1>6. /\ at'[f] \in {"route", "begin"} \cup Inside => Ours(f)' = {}
      /\ at'[f] = "sent" /\ f \notin unheard' => Ours(f)' = {}
      /\ told'[f] = "error" /\ f \notin unheard' => Ours(f)' = {}
  BY DEF Stays, Fine
<1>7. told'[f] = "ok" => \E try \in {1, 2} : Whole(f, try)'
  BY <1>2 DEF Stays, Fine
<1>8. \A try \in {1, 2} : Whole(f, try)' \/ Untouched(f, try)'
  BY <1>2 DEF Fine
<1> QED
  BY <1>4, <1>5, <1>6, <1>7, <1>8 DEF Fine

(* A call inside a transaction is disturbed by a request of another, and   *)
(* one outside has nothing in the block.                                   *)
LEMMA AwaitsApart ==
  ASSUME IInv, NEW g \in Flows, NEW r \in Requests, Signed(r, g), NEW ok \in BOOLEAN, Awaits(g, r, ok),
         NEW f \in Flows \ {g}, f \notin disturbed'
  PROVE  /\ f \notin disturbed /\ Fine(f)
         /\ batches' = batches /\ Mine(f)' = Mine(f) /\ Ours(f)' = Ours(f)
         /\ f \in Openers => block' = block
<1>1. f \notin disturbed /\ Fine(f)
  BY DEF Awaits, Meets, IInv, Alone
<1>2. CASE Answers(r, ok) /\ Meets(g)
  <2>1. f \notin Openers
    BY <1>2 DEF Meets
  <2>2. Mine(f) = {}
    BY <1>1, <2>1 DEF Fine
  <2>3. /\ kept \subseteq kept'
        /\ pending' \subseteq pending \cup (IF r.verb = "STATEMENT" THEN {r.write} ELSE {})
        /\ kept' \subseteq kept \cup pending \cup (IF r.verb = "STATEMENT" THEN {r.write} ELSE {})
    BY <1>2, ExecutesBounds DEF Answers
  <2>4. r.verb = "STATEMENT" => r.write[1] # f
    BY DEF Signed
  <2>5. Mine(f)' = {} /\ Ours(f)' = Ours(f)
    BY <2>2, <2>3, <2>4 DEF Mine, Ours
  <2> QED
    BY <1>1, <1>2, <2>1, <2>2, <2>5 DEF Answers
<1>3. CASE GivesUp(r)
  BY <1>1, <1>3 DEF GivesUp, Mine, Ours
<1> QED
  BY <1>2, <1>3 DEF Awaits

LEMMA AwaitsTyped ==
  ASSUME IInv, NEW g \in Flows, NEW r \in Requests, Signed(r, g), r.verb = "STATEMENT" => r.write \in Writes,
         NEW ok \in BOOLEAN, Awaits(g, r, ok)
  PROVE  /\ EngineTypeOK' /\ LateIsKnown' /\ disturbed \subseteq disturbed' /\ disturbed' \subseteq Flows
         /\ spent' \in [timeouts : Nat, choices : Nat, reloads : Nat]
<1>1. Openers \subseteq Flows
  BY DEF Openers, IInv, TypeOK, EngineTypeOK
<1>2. late \in Seq(Requests) /\ EngineTypeOK
  BY DEF IInv, TypeOK, EngineTypeOK, Requests
<1>3. CASE Answers(r, ok) /\ Meets(g) /\ UNCHANGED spent
  <2>1. block' \in {"idle", "active", "aborted"} /\ pending' \subseteq Writes /\ kept' \subseteq Writes
    BY <1>2, <1>3, ExecutesTyped DEF Answers
  <2>2. late' = late /\ EngineTypeOK'
    BY <1>2, <1>3, <2>1 DEF Answers, EngineTypeOK
  <2>3. disturbed \subseteq disturbed' /\ disturbed' \subseteq Flows
    BY <1>1, <1>3 DEF Meets, IInv, TypeOK
  <2> QED
    BY <1>3, <2>2, <2>3 DEF IInv, TypeOK, LateIsKnown
<1>4. CASE GivesUp(r) /\ disturbed' = disturbed \cup {g} /\ Spends("timeouts", MaxTimeouts)
  <2>1. late' = Append(late, r) /\ UNCHANGED <<batches, transport, block, pending, kept>>
    BY <1>4 DEF GivesUp
  <2>2. /\ late' \in Seq(Requests) /\ Len(late') = Len(late) + 1 /\ Len(late) \in Nat
        /\ \A i \in 1..Len(late) : late'[i] = late[i]
        /\ late'[Len(late) + 1] = r
    BY <1>2, <2>1, AppendTyped
  <2>3. EngineTypeOK'
    BY <1>2, <2>1, <2>2 DEF EngineTypeOK, Requests
  <2>4. LateIsKnown'
    <3> SUFFICES ASSUME NEW i \in 1..Len(late'), late'[i].verb = "STATEMENT"
                 PROVE  late'[i].write \in Writes /\ late'[i].write[1] \in disturbed'
      BY DEF LateIsKnown, Writes
    <3>1. CASE i \in 1..Len(late)
      BY <1>4, <2>2, <3>1 DEF IInv, LateIsKnown
    <3>2. CASE i = Len(late) + 1
      BY <1>4, <2>2, <3>2 DEF Signed
    <3> QED
      BY <2>2, <3>1, <3>2
  <2>5. spent' \in [timeouts : Nat, choices : Nat, reloads : Nat]
    BY <1>4 DEF Spends, IInv, TypeOK
  <2> QED
    BY <1>4, <2>3, <2>4, <2>5 DEF IInv, TypeOK
<1> QED
  BY <1>3, <1>4 DEF Awaits

-----------------------------------------------------------------------------
(* One call takes a step. *)

TurnsTo(g, stage, n, what) ==
  /\ at' \in [Flows -> Stages] /\ k' \in [Flows -> Nat \ {0}]
  /\ told' \in [Flows -> {"none", "ok", "error", "cut"}]
  /\ at'[g] = stage /\ k'[g] = n /\ told'[g] = what
  /\ \A f \in Flows \ {g} : at'[f] = at[f] /\ k'[f] = k[f] /\ told'[f] = told[f]

LEMMA GoesTurns ==
  ASSUME IInv, NEW g \in Flows, at[g] # "told", NEW stage \in Stages, NEW n \in Nat \ {0}, Goes(g, stage, n)
  PROVE  TurnsTo(g, stage, n, "none")
BY DEF IInv, TypeOK, Staged, Goes, TurnsTo

LEMMA TellsTurns ==
  ASSUME IInv, NEW g \in Flows, NEW what \in {"ok", "error", "cut"}, Tells(g, what)
  PROVE  TurnsTo(g, "told", 1, what)
BY DEF IInv, TypeOK, Tells, TurnsTo, Stages

(* Where a call may turn to. *)
Sane(g, stage, n, what) ==
  /\ what = "none" <=> stage # "told"
  /\ stage \in {"begin", "commit", "rollback"} => g \in batches
  /\ stage = "work" => n \in 1..Length(g)
  /\ stage = "sent" => n \in {1, 2}

LEMMA TurnStaged ==
  ASSUME IInv, NEW g \in Flows, NEW stage, NEW n, NEW what, TurnsTo(g, stage, n, what),
         Sane(g, stage, n, what), batches' = batches
  PROVE  Staged'
<1>1. \A f \in Flows : Length(f)' = Length(f)
  BY DEF Length
<1> SUFFICES ASSUME NEW f \in Flows
             PROVE  /\ told'[f] = "none" <=> at'[f] # "told"
                    /\ at'[f] \in {"begin", "commit", "rollback"} => f \in batches'
                    /\ at'[f] = "work" => k'[f] \in 1..Length(f)'
                    /\ at'[f] = "sent" => k'[f] \in {1, 2}
  BY DEF Staged
<1>2. CASE f = g
  BY <1>1, <1>2 DEF TurnsTo, Sane
<1>3. CASE f # g
  BY <1>1, <1>3 DEF TurnsTo, IInv, Staged
<1> QED
  BY <1>2, <1>3

(* A request to PGlite is answered, or given up.                           *)
LEMMA SessionTurn ==
  ASSUME IInv, NEW g \in Flows, at[g] \notin {"sent", "told"},
         NEW r \in Requests, Signed(r, g), r.verb = "STATEMENT" => r.write \in Writes,
         NEW ok \in BOOLEAN, Awaits(g, r, ok),
         NEW stage, NEW n, NEW what, TurnsTo(g, stage, n, what), Sane(g, stage, n, what),
         UNCHANGED <<routes, flying, unheard>>,
         g \notin disturbed' => Fine(g)'
  PROVE  IInv'
<1>1. batches' = batches
  BY DEF Awaits, Answers, GivesUp
<1>2. EngineTypeOK' /\ LateIsKnown' /\ disturbed' \subseteq Flows
      /\ spent' \in [timeouts : Nat, choices : Nat, reloads : Nat]
  BY AwaitsTyped
<1>3. TypeOK'
  BY <1>2 DEF TypeOK, IInv, TurnsTo, RoutesTypeOK, routes
<1>4. FlyingIsUnheard'
  <2> SUFFICES ASSUME NEW q \in flying
               PROVE  q[1] \in unheard' /\ at'[q[1]] \in {"sent", "told"}
    BY DEF FlyingIsUnheard
  <2>1. q[1] \in unheard /\ at[q[1]] \in {"sent", "told"} /\ q[1] \in Flows
    BY DEF IInv, FlyingIsUnheard, TypeOK
  <2> QED
    BY <2>1 DEF TurnsTo
<1>5. Alone'
  <2> SUFFICES ASSUME NEW f \in Flows, f \notin disturbed'
               PROVE  Fine(f)'
    BY DEF Alone
  <2>1. CASE f = g
    BY <2>1
  <2>2. CASE f # g
    <3>1. Stays(f) /\ Fine(f)
      BY <2>2, AwaitsApart DEF Stays, TurnsTo
    <3> QED
      BY <3>1, StaysFine
  <2> QED
    BY <2>1, <2>2
<1> QED
  BY <1>1, <1>2, <1>3, <1>4, <1>5, TurnStaged DEF IInv

(* A call that has left nothing is fine wherever nothing is expected.      *)
LEMMA FineEmpty ==
  ASSUME NEW f \in Flows, Mine(f)' = {}, Ours(f)' = {}, told'[f] # "ok",
         at'[f] \notin {"work", "commit"}, batches' = batches
  PROVE  Fine(f)'
<1>1. \A try \in {1, 2} : Untouched(f, try)'
  BY WholeIsOursNext
<1> QED
  BY <1>1 DEF Fine, Openers

(* What a call that was not disturbed knows of its request.                *)
LEMMA AwaitsAlone ==
  ASSUME IInv, NEW g \in Flows, NEW r, NEW ok, Awaits(g, r, ok), g \notin disturbed'
  PROVE  /\ Fine(g) /\ Executes(r, ok) /\ batches' = batches
         /\ g \notin Openers => block = "idle"
BY DEF Awaits, Answers, Meets, IInv, Alone

LEMMA BeginStep ==
  ASSUME IInv, NEW g \in Flows, BeginBlock(g)
  PROVE  IInv'
<1> DEFINE r == Request("BEGIN", NoWrite)
<1>1. PICK ok \in BOOLEAN :
        Awaits(g, r, ok) /\ (IF ok THEN Goes(g, "work", 1) ELSE Tells(g, "error"))
  BY DEF BeginBlock
<1>2. at[g] = "begin" /\ g \in batches /\ UNCHANGED <<routes, flying, unheard>>
  BY DEF BeginBlock, IInv, Staged
<1>3. r \in Requests /\ r.verb = "BEGIN"
  BY RequestIsRequest DEF Verbs
<1> HIDE DEF r
<1>4. Signed(r, g) /\ Length(g) \in Nat \ {0}
  BY <1>3, StatementsAssumption DEF Signed, Length
<1>5. ASSUME g \notin disturbed'
      PROVE  Mine(g)' = {} /\ Ours(g)' = {} /\ batches' = batches /\ (ok => block' = "active")
  <2>1. Fine(g) /\ Executes(r, ok) /\ batches' = batches
    BY <1>1, <1>5, AwaitsAlone
  <2>2. Begin(ok)
    BY <1>3, <2>1 DEF Executes
  <2>3. Mine(g) = {} /\ Ours(g) = {}
    BY <1>2, <2>1 DEF Fine
  <2> QED
    BY <2>1, <2>2, <2>3 DEF Begin, Mine, Ours
<1>6. CASE ok
  <2>1. TurnsTo(g, "work", 1, "none") /\ Sane(g, "work", 1, "none")
    BY <1>1, <1>2, <1>4, <1>6, GoesTurns DEF Sane, Stages, Inside
  <2>2. ASSUME g \notin disturbed'
        PROVE  Fine(g)'
    <3>1. Mine(g)' = {} /\ Ours(g)' = {} /\ batches' = batches /\ block' = "active"
      BY <1>5, <1>6, <2>2
    <3>2. Ran(g, k[g] - 1)' = {}
      BY <2>1 DEF TurnsTo, Ran
    <3>3. g \in Openers'
      BY <1>2, <2>1, <3>1 DEF TurnsTo, Openers, Inside
    <3>4. \A try \in {1, 2} : Untouched(g, try)'
      BY <3>1, WholeIsOursNext
    <3> QED
      BY <2>1, <3>1, <3>2, <3>3, <3>4 DEF TurnsTo, Fine
  <2> QED
    BY <1>1, <1>2, <1>3, <1>4, <2>1, <2>2, SessionTurn
<1>7. CASE ~ok
  <2>1. TurnsTo(g, "told", 1, "error") /\ Sane(g, "told", 1, "error")
    BY <1>1, <1>7, TellsTurns DEF Sane
  <2>2. ASSUME g \notin disturbed'
        PROVE  Fine(g)'
    BY <1>5, <2>1, <2>2, FineEmpty DEF TurnsTo
  <2> QED
    BY <1>1, <1>2, <1>3, <1>4, <2>1, <2>2, SessionTurn
<1> QED
  BY <1>6, <1>7

LEMMA RollbackStep ==
  ASSUME IInv, NEW g \in Flows, RollbackBlock(g)
  PROVE  IInv'
<1> DEFINE r == Request("ROLLBACK", NoWrite)
<1>1. PICK ok \in BOOLEAN : Awaits(g, r, ok)
  BY DEF RollbackBlock
<1>2. at[g] = "rollback" /\ Tells(g, "error") /\ UNCHANGED <<routes, flying, unheard>>
  BY DEF RollbackBlock
<1>3. r \in Requests /\ r.verb = "ROLLBACK"
  BY RequestIsRequest DEF Verbs
<1> HIDE DEF r
<1>4. TurnsTo(g, "told", 1, "error") /\ Sane(g, "told", 1, "error") /\ Signed(r, g)
  BY <1>2, <1>3, TellsTurns DEF Sane, Signed
<1>5. ASSUME g \notin disturbed'
      PROVE  Fine(g)'
  <2>1. Fine(g) /\ Executes(r, ok) /\ batches' = batches
    BY <1>1, <1>5, AwaitsAlone
  <2>2. Rollback(ok)
    BY <1>3, <2>1 DEF Executes
  <2>3. Ours(g) = {}
    BY <1>2, <2>1 DEF Fine, Inside
  <2>4. Mine(g)' = {} /\ Ours(g)' = {}
    BY <2>2, <2>3 DEF Rollback, Mine, Ours
  <2> QED
    BY <1>4, <2>1, <2>4, FineEmpty DEF TurnsTo
<1> QED
  BY <1>1, <1>2, <1>3, <1>4, <1>5, SessionTurn

LEMMA CommitStep ==
  ASSUME IInv, NEW g \in Flows, CommitBlock(g)
  PROVE  IInv'
<1> DEFINE r == Request("COMMIT", NoWrite)
<1>1. PICK ok \in BOOLEAN :
        Awaits(g, r, ok) /\ (IF ok THEN Tells(g, "ok") ELSE Goes(g, "rollback", k[g]))
  BY DEF CommitBlock
<1>2. /\ at[g] = "commit" /\ g \in batches /\ k[g] \in Nat \ {0}
      /\ UNCHANGED <<routes, flying, unheard>>
  BY DEF CommitBlock, IInv, Staged, TypeOK
<1>3. r \in Requests /\ r.verb = "COMMIT"
  BY RequestIsRequest DEF Verbs
<1> HIDE DEF r
<1>4. Signed(r, g)
  BY <1>3 DEF Signed
<1>5. CASE ok
  <2>1. TurnsTo(g, "told", 1, "ok") /\ Sane(g, "told", 1, "ok")
    BY <1>1, <1>5, TellsTurns DEF Sane
  <2>2. ASSUME g \notin disturbed'
        PROVE  Fine(g)'
    <3>1. Fine(g) /\ Executes(r, ok) /\ batches' = batches
      BY <1>1, <2>2, AwaitsAlone
    <3>2. Commit(ok)
      BY <1>3, <3>1 DEF Executes
    <3>3. Ours(g) = {} /\ Mine(g) = Ran(g, Length(g))
      BY <1>2, <3>1 DEF Fine, Openers, Inside
    <3>4. Mine(g)' = {} /\ Ours(g)' = Ran(g, Length(g))
      BY <3>2, <3>3 DEF Commit, Mine, Ours
    <3>5. Whole(g, 1)' /\ Untouched(g, 2)'
      <4>1. Ran(g, Length(g)) = WritesOf(g, 1) /\ WritesOf(g, 2) \cap Ran(g, Length(g)) = {}
        BY DEF Ran, WritesOf
      <4> QED
        BY <3>1, <3>4, <4>1, WholeIsOursNext
    <3> QED
      BY <2>1, <3>4, <3>5 DEF TurnsTo, Fine, Openers, Inside
  <2> QED
    BY <1>1, <1>2, <1>3, <1>4, <2>1, <2>2, SessionTurn
<1>6. CASE ~ok
  <2>1. TurnsTo(g, "rollback", k[g], "none") /\ Sane(g, "rollback", k[g], "none")
    BY <1>1, <1>2, <1>6, GoesTurns DEF Sane, Stages, Inside
  <2>2. g \in disturbed'
    <3> SUFFICES ASSUME g \notin disturbed'
                 PROVE  FALSE
      OBVIOUS
    <3>1. Executes(r, ok)
      BY <1>1, AwaitsAlone
    <3> QED
      BY <1>3, <1>6, <3>1 DEF Executes, Commit
  <2> QED
    BY <1>1, <1>2, <1>3, <1>4, <2>1, <2>2, SessionTurn
<1> QED
  BY <1>5, <1>6

LEMMA StatementStep ==
  ASSUME IInv, NEW g \in Flows, RunStatement(g)
  PROVE  IInv'
<1> DEFINE w == <<g, k[g], 1>>
           r == Request("STATEMENT", w)
<1>1. PICK ok \in BOOLEAN :
        /\ Awaits(g, r, ok)
        /\ IF ok THEN IF k[g] < Length(g) THEN Goes(g, "work", k[g] + 1)
                      ELSE IF g \in batches THEN Goes(g, "commit", k[g]) ELSE Tells(g, "ok")
                 ELSE IF g \in batches THEN Goes(g, "rollback", k[g]) ELSE Tells(g, "error")
  BY DEF RunStatement
<1>2. /\ at[g] = "work" /\ UNCHANGED <<routes, flying, unheard>>
      /\ k[g] \in 1..Length(g) /\ k[g] \in Nat \ {0} /\ Length(g) \in Nat \ {0}
      /\ g \notin batches => Length(g) = 1
  BY StatementsAssumption DEF RunStatement, IInv, Staged, TypeOK, Length
<1>3. w \in Writes /\ w[1] = g
  BY <1>2 DEF Writes
<1>4. r \in Requests /\ r.verb = "STATEMENT" /\ r.write = w
  BY <1>3, RequestIsRequest
<1> HIDE DEF r
<1>5. Signed(r, g)
  BY <1>3, <1>4 DEF Signed
<1>6. ASSUME g \notin disturbed'
      PROVE  /\ batches' = batches
             /\ ~ok => Mine(g)' = {} /\ Ours(g)' = {}
             /\ ok /\ g \in batches => Mine(g)' = Ran(g, k[g]) /\ Ours(g)' = {} /\ block' = "active"
             /\ ok /\ g \notin batches => Mine(g)' = {} /\ Ours(g)' = {w}
  <2>1. Fine(g) /\ Executes(r, ok) /\ batches' = batches /\ (g \notin Openers => block = "idle")
    BY <1>1, <1>6, AwaitsAlone
  <2>2. Statement(w, ok)
    BY <1>4, <2>1 DEF Executes
  <2>3. Ours(g) = {} /\ (g \in Openers <=> g \in batches)
    BY <1>2, <2>1 DEF Fine, Inside, Openers
  <2>4. CASE ~ok
    BY <2>1, <2>2, <2>3, <2>4 DEF Statement, Mine, Ours
  <2>5. CASE ok /\ g \in batches
    <3>1. block = "active" /\ Mine(g) = Ran(g, k[g] - 1)
      BY <1>2, <2>1, <2>3, <2>5 DEF Fine
    <3>2. pending' = pending \cup {w} /\ kept' = kept /\ block' = "active"
      BY <2>2, <2>5, <3>1 DEF Statement
    <3>3. Mine(g)' = Mine(g) \cup {w} /\ Ours(g)' = {}
      BY <1>3, <2>3, <3>2 DEF Mine, Ours
    <3>4. Ran(g, k[g] - 1) \cup {w} = Ran(g, k[g])
      <4>1. 1..(k[g] - 1) \cup {k[g]} = 1..k[g]
        BY <1>2
      <4> QED
        BY <4>1 DEF Ran
    <3> QED
      BY <2>1, <2>5, <3>1, <3>2, <3>3, <3>4
  <2>6. CASE ok /\ g \notin batches
    <3>1. block = "idle" /\ Mine(g) = {}
      BY <2>1, <2>3, <2>6 DEF Fine
    <3>2. pending' = pending /\ kept' = kept \cup {w}
      BY <2>2, <2>6, <3>1 DEF Statement
    <3> QED
      BY <1>3, <2>1, <2>3, <2>6, <3>1, <3>2 DEF Mine, Ours
  <2> QED
    BY <2>1, <2>4, <2>5, <2>6
<1>7. CASE ok /\ k[g] < Length(g)
  <2>1. g \in batches
    BY <1>2, <1>7
  <2>2. TurnsTo(g, "work", k[g] + 1, "none") /\ Sane(g, "work", k[g] + 1, "none")
    <3>1. k[g] + 1 \in Nat \ {0} /\ k[g] + 1 \in 1..Length(g)
      BY <1>2, <1>7
    <3> QED
      BY <1>1, <1>2, <1>7, <3>1, GoesTurns DEF Sane, Stages, Inside
  <2>3. ASSUME g \notin disturbed'
        PROVE  Fine(g)'
    <3>1. Mine(g)' = Ran(g, k[g]) /\ Ours(g)' = {} /\ block' = "active" /\ batches' = batches
      BY <1>6, <1>7, <2>1, <2>3
    <3>2. Ran(g, k[g] - 1)' = Ran(g, k[g])
      BY <1>2, <2>2 DEF TurnsTo, Ran
    <3>3. g \in Openers'
      BY <2>1, <2>2, <3>1 DEF TurnsTo, Openers, Inside
    <3>4. \A try \in {1, 2} : Untouched(g, try)'
      BY <3>1, WholeIsOursNext
    <3> QED
      BY <2>2, <3>1, <3>2, <3>3, <3>4 DEF TurnsTo, Fine
  <2> QED
    BY <1>1, <1>2, <1>3, <1>4, <1>5, <2>2, <2>3, SessionTurn
<1>8. CASE ok /\ ~(k[g] < Length(g)) /\ g \in batches
  <2>1. TurnsTo(g, "commit", k[g], "none") /\ Sane(g, "commit", k[g], "none")
    BY <1>1, <1>2, <1>8, GoesTurns DEF Sane, Stages, Inside
  <2>2. ASSUME g \notin disturbed'
        PROVE  Fine(g)'
    <3>1. Mine(g)' = Ran(g, k[g]) /\ Ours(g)' = {} /\ batches' = batches
      BY <1>6, <1>8, <2>2
    <3>2. k[g] = Length(g)
      BY <1>2, <1>8
    <3>3. Ran(g, Length(g))' = Ran(g, k[g])
      BY <3>1, <3>2 DEF Ran, Length
    <3>4. g \in Openers'
      BY <1>8, <2>1, <3>1 DEF TurnsTo, Openers, Inside
    <3>5. \A try \in {1, 2} : Untouched(g, try)'
      BY <3>1, WholeIsOursNext
    <3> QED
      BY <2>1, <3>1, <3>3, <3>4, <3>5 DEF TurnsTo, Fine
  <2> QED
    BY <1>1, <1>2, <1>3, <1>4, <1>5, <2>1, <2>2, SessionTurn
<1>9. CASE ok /\ ~(k[g] < Length(g)) /\ g \notin batches
  <2>1. TurnsTo(g, "told", 1, "ok") /\ Sane(g, "told", 1, "ok")
    BY <1>1, <1>9, TellsTurns DEF Sane
  <2>2. ASSUME g \notin disturbed'
        PROVE  Fine(g)'
    <3>1. Mine(g)' = {} /\ Ours(g)' = {w} /\ batches' = batches
      BY <1>6, <1>9, <2>2
    <3>2. k[g] = 1 /\ Length(g) = 1
      BY <1>2, <1>9
    <3>3. WritesOf(g, 1) = {w} /\ WritesOf(g, 2) = {<<g, 1, 2>>}
      BY <3>2 DEF WritesOf
    <3>4. Whole(g, 1)' /\ Untouched(g, 2)'
      BY <3>1, <3>2, <3>3, WholeIsOursNext
    <3> QED
      BY <2>1, <3>1, <3>4 DEF TurnsTo, Fine, Openers, Inside
  <2> QED
    BY <1>1, <1>2, <1>3, <1>4, <1>5, <2>1, <2>2, SessionTurn
<1>10. CASE ~ok
  <2>1. PICK stage \in {"rollback", "told"}, n \in Nat \ {0}, what \in {"none", "error"} :
          TurnsTo(g, stage, n, what) /\ Sane(g, stage, n, what)
    <3>1. CASE g \in batches
      <4>1. TurnsTo(g, "rollback", k[g], "none")
        BY <1>1, <1>2, <1>10, <3>1, GoesTurns DEF Stages, Inside
      <4>2. Sane(g, "rollback", k[g], "none")
        BY <3>1 DEF Sane
      <4> QED
        BY <1>2, <4>1, <4>2
    <3>2. CASE g \notin batches
      <4>1. TurnsTo(g, "told", 1, "error")
        BY <1>1, <1>10, <3>2, TellsTurns
      <4>2. Sane(g, "told", 1, "error")
        BY DEF Sane
      <4> QED
        BY <4>1, <4>2
    <3> QED
      BY <3>1, <3>2
  <2>2. ASSUME g \notin disturbed'
        PROVE  Fine(g)'
    BY <1>6, <1>10, <2>1, <2>2, FineEmpty DEF TurnsTo
  <2> QED
    BY <1>1, <1>2, <1>3, <1>4, <1>5, <2>1, <2>2, SessionTurn
<1> QED
  BY <1>7, <1>8, <1>9, <1>10

-----------------------------------------------------------------------------
(* The other steps. *)

(* A late answer disturbs whoever is inside.                               *)
LEMMA LateStep ==
  ASSUME IInv, LateAnswer
  PROVE  IInv'
<1> DEFINE r == Head(late)
<1>1. late \in Seq(Requests) /\ late # <<>> /\ EngineTypeOK
  BY DEF IInv, TypeOK, EngineTypeOK, Requests, LateAnswer, AnswersLate
<1>2. /\ r = late[1] /\ r \in Requests /\ Len(late) \in Nat \ {0}
      /\ Tail(late) \in Seq(Requests) /\ Len(Tail(late)) = Len(late) - 1
      /\ \A i \in 1..Len(Tail(late)) : Tail(late)[i] = late[i + 1]
  BY <1>1, HeadTailProperties, ElementOfSeq, EmptySeq, LenProperties
<1>3. PICK ok \in BOOLEAN : Executes(r, ok)
  BY DEF LateAnswer, AnswersLate
<1>4. /\ late' = Tail(late) /\ disturbed' = disturbed \cup Openers
      /\ UNCHANGED <<batches, transport, routes, at, k, told, flying, unheard, spent>>
  BY DEF LateAnswer, AnswersLate
<1> HIDE DEF r
<1>5. r.verb = "STATEMENT" => r.write \in Writes /\ r.write[1] \in disturbed
  BY <1>2 DEF IInv, LateIsKnown
<1>6. kept \subseteq kept' /\ pending' \subseteq pending \cup (IF r.verb = "STATEMENT" THEN {r.write} ELSE {})
      /\ kept' \subseteq kept \cup pending \cup (IF r.verb = "STATEMENT" THEN {r.write} ELSE {})
  BY <1>2, <1>3, ExecutesBounds
<1>7. EngineTypeOK'
  <2>1. block' \in {"idle", "active", "aborted"}
    BY <1>1, <1>3 DEF Executes, Begin, Commit, Rollback, Select, Statement, EngineTypeOK
  <2>2. r.verb = "STATEMENT" => r.write \in Writes
    BY <1>5
  <2> QED
    BY <1>1, <1>2, <1>4, <1>6, <2>1, <2>2 DEF EngineTypeOK, Requests
<1>8. TypeOK'
  <2>1. disturbed' \subseteq Flows
    BY <1>4 DEF Openers, IInv, TypeOK, EngineTypeOK
  <2> QED
    BY <1>4, <1>7, <2>1 DEF IInv, TypeOK, RoutesTypeOK, routes
<1>9. Staged' /\ FlyingIsUnheard'
  BY <1>4 DEF IInv, Staged, FlyingIsUnheard, Length
<1>10. LateIsKnown'
  BY <1>2, <1>4 DEF IInv, LateIsKnown
<1>11. Alone'
  <2> SUFFICES ASSUME NEW f \in Flows, f \notin disturbed'
               PROVE  Fine(f)'
    BY DEF Alone
  <2>1. f \notin disturbed /\ f \notin Openers /\ Fine(f)
    BY <1>4 DEF IInv, Alone
  <2>2. Mine(f) = {}
    BY <2>1 DEF Fine
  <2>3. Mine(f)' = {} /\ Ours(f)' = Ours(f)
    BY <1>5, <1>6, <2>1, <2>2 DEF Mine, Ours
  <2>4. Stays(f)
    BY <1>4, <2>1, <2>2, <2>3 DEF Stays
  <2> QED
    BY <2>1, <2>4, StaysFine
<1> QED
  BY <1>8, <1>9, <1>10, <1>11 DEF IInv

-----------------------------------------------------------------------------
(* The routes. *)

Acquisitions == [at : {"start", "done"} \cup Under, want : Modes,
                 pinged : DbAdapters \cup {"none"}, got : DbAdapters \cup {"pending", "none", "failed"}]
Caches == [adapter : DbAdapters \cup {"none"}, mode : Modes, trusted : BOOLEAN]

RouteIInv == RoutesTypeOK /\ RouteInv

(* What a call is handed while nobody has chosen anew.                     *)
HandsOut == \A f \in Flows : Returned(f) /\ crossed' = {} => acq'[f].got = AdapterOf[mode']

(* An acquisition moves: a is where it is then. *)
LEMMA RouteTurn ==
  ASSUME RouteIInv, NEW f \in Flows, NEW a \in Acquisitions, Moves(f, a),
         server' = server, explicit' = explicit, fresh' = fresh,
         mode' \in Modes, cache' \in Caches, crossed \subseteq crossed', crossed' \subseteq Flows,
         cache'.adapter # "none" => cache'.adapter = AdapterOf[cache'.mode],
         crossed' = {} =>
           /\ mode' = mode
           /\ a.at \in Under => a.want = mode
           /\ a.at = "ping" /\ cache'.adapter # "none" => cache'.mode = mode
           /\ a.at = "done" /\ a.got \in DbAdapters => a.got = AdapterOf[mode]
           /\ cache'.adapter # "none" => \/ cache'.mode = mode
                                         \/ cache.adapter # "none" /\ cache'.mode = cache.mode
  PROVE  RouteIInv' /\ HandsOut
<1>1. acq \in [Flows -> Acquisitions]
  BY DEF RouteIInv, RoutesTypeOK, Acquisitions
<1>2. acq' \in [Flows -> Acquisitions] /\ acq'[f] = a /\ \A g \in Flows \ {f} : acq'[g] = acq[g]
  BY <1>1 DEF Moves
<1>3. RoutesTypeOK'
  BY <1>2 DEF RouteIInv, RoutesTypeOK, Acquisitions, Caches
<1>4. ASSUME crossed' = {}, NEW g \in Flows
      PROVE  /\ acq'[g].at \in Under => acq'[g].want = mode'
             /\ acq'[g].at = "ping" /\ cache'.adapter # "none" => cache'.mode = mode'
             /\ Returned(g) => acq'[g].got = AdapterOf[mode']
  <2>1. CASE g = f
    BY <1>2, <1>4, <2>1 DEF Returned
  <2>2. CASE g # f
    <3>1. acq'[g] = acq[g] /\ crossed = {} /\ mode' = mode
      BY <1>2, <1>4, <2>2
    <3>2. /\ acq[g].at \in Under => acq[g].want = mode
          /\ acq[g].at = "ping" /\ cache.adapter # "none" => cache.mode = mode
      BY <3>1 DEF RouteIInv, RouteInv
    <3> QED
      BY <1>4, <3>1, <3>2 DEF Returned
  <2> QED
    BY <2>1, <2>2
<1>5. RouteInv'
  BY <1>4 DEF RouteInv
<1> QED
  BY <1>3, <1>4, <1>5 DEF RouteIInv, HandsOut

(* No acquisition moves, or all of them end.                               *)
LEMMA RouteStands ==
  ASSUME RouteIInv, acq' = acq, server' = server, explicit' \in BOOLEAN, fresh' \in BOOLEAN,
         mode' \in Modes, cache' \in Caches, crossed' \subseteq Flows,
         cache'.adapter = cache.adapter, cache'.mode = cache.mode,
         \/ mode' = mode /\ crossed' = crossed
         \/ Crosses(mode')
  PROVE  RouteIInv' /\ HandsOut
<1>1. RoutesTypeOK' /\ HandsOut
  BY DEF RouteIInv, RoutesTypeOK, Caches, HandsOut, Returned
<1>2. ASSUME crossed' = {}, NEW g \in Flows, acq[g].at \in Under
      PROVE  crossed = {} /\ mode' = mode
  BY <1>2 DEF Crosses
<1>3. RouteInv'
  BY <1>2 DEF RouteInv, RouteIInv, Under
<1> QED
  BY <1>1, <1>3 DEF RouteIInv

(* The adapter in use serves its own mode.                                 *)
LEMMA ReuseMoves ==
  ASSUME RouteIInv, NEW f \in Flows, NEW m \in Modes, Reuse(f, m)
  PROVE  \E a \in Acquisitions :
           /\ Moves(f, a)
           /\ a.at \in Under => a.want = m
           /\ a.at = "ping" => cache.mode = m
           /\ a.at = "done" => a.got = AdapterOf[m]
<1> DEFINE ping == Acquisition("ping", m, cache.adapter, "pending")
           open == Acquisition("open", m, "none", "pending")
           done == Acquisition("done", "pglite", "none", cache.adapter)
<1>1. cache.adapter \in DbAdapters \cup {"none"}
  BY DEF RouteIInv, RoutesTypeOK
<1>2. ping \in Acquisitions /\ open \in Acquisitions /\ done \in Acquisitions
  BY <1>1 DEF Acquisition, Acquisitions, Under, DbAdapters, Modes
<1>3. /\ ping.at = "ping" /\ ping.want = m /\ open.at = "open" /\ open.want = m
      /\ done.at = "done" /\ done.got = cache.adapter
  BY DEF Acquisition
<1>4. \/ Moves(f, ping) /\ cache.mode = m
      \/ Moves(f, open)
      \/ Moves(f, done) /\ cache.adapter = AdapterOf[m]
  BY DEF Reuse, Returns, RouteIInv, RouteInv
<1> HIDE DEF ping, open, done
<1> QED
  BY <1>2, <1>3, <1>4 DEF Under

LEMMA StartRoutes ==
  ASSUME RouteIInv, NEW f \in Flows, StartAcquire(f)
  PROVE  RouteIInv' /\ HandsOut
<1>1. UNCHANGED <<server, mode, explicit, fresh, cache, crossed>>
  BY DEF StartAcquire
<1>2. /\ cache \in Caches /\ crossed \subseteq Flows /\ mode \in Modes
      /\ cache.adapter # "none" => cache.adapter = AdapterOf[cache.mode]
  BY DEF RouteIInv, RoutesTypeOK, RouteInv, Caches
<1>3. CASE Moves(f, Acquisition("probe", mode, "none", "pending"))
  <2> DEFINE a == Acquisition("probe", mode, "none", "pending")
  <2>1. a \in Acquisitions /\ a.at = "probe" /\ a.want = mode
    BY <1>2 DEF Acquisition, Acquisitions, Under
  <2> HIDE DEF a
  <2> QED
    BY <1>1, <1>2, <1>3, <2>1, RouteTurn DEF a
<1>4. CASE Reuse(f, mode)
  <2>1. PICK a \in Acquisitions :
           /\ Moves(f, a)
           /\ a.at \in Under => a.want = mode
           /\ a.at = "ping" => cache.mode = mode
           /\ a.at = "done" => a.got = AdapterOf[mode]
    BY <1>2, <1>4, ReuseMoves
  <2> QED
    BY <1>1, <1>2, <2>1, RouteTurn
<1> QED
  BY <1>3, <1>4 DEF StartAcquire

LEMMA ProbedRoutes ==
  ASSUME RouteIInv, NEW f \in Flows, Probed(f)
  PROVE  RouteIInv' /\ HandsOut
<1>1. PICK m \in Modes : /\ mode' = IF m = acq[f].want THEN mode ELSE m
                         /\ Crosses(mode') /\ Reuse(f, m)
  BY DEF Probed
<1>2. /\ UNCHANGED <<server, explicit, fresh, cache>> /\ acq[f].at = "probe"
      /\ cache \in Caches /\ crossed \subseteq Flows /\ mode \in Modes
      /\ cache.adapter # "none" => cache.adapter = AdapterOf[cache.mode]
  BY DEF Probed, RouteIInv, RoutesTypeOK, RouteInv, Caches
<1>3. mode' \in Modes /\ crossed \subseteq crossed' /\ crossed' \subseteq Flows
  BY <1>1, <1>2 DEF Crosses
<1>4. PICK a \in Acquisitions :
           /\ Moves(f, a)
           /\ a.at \in Under => a.want = m
           /\ a.at = "ping" => cache.mode = m
           /\ a.at = "done" => a.got = AdapterOf[m]
  BY <1>1, ReuseMoves
<1>5. ASSUME crossed' = {}
      PROVE  mode' = mode /\ m = mode
  <2>1. crossed = {} /\ mode' = mode
    BY <1>1, <1>2, <1>5 DEF Crosses, Under
  <2>2. acq[f].want = mode
    BY <1>2, <2>1 DEF RouteIInv, RouteInv, Under
  <2> QED
    BY <1>1, <2>1, <2>2
<1> QED
  BY <1>2, <1>3, <1>4, <1>5, RouteTurn

LEMMA PingedRoutes ==
  ASSUME RouteIInv, NEW f \in Flows, Pinged(f)
  PROVE  RouteIInv' /\ HandsOut
<1>1. /\ UNCHANGED <<server, mode, explicit, fresh, crossed>> /\ acq[f].at = "ping"
      /\ cache \in Caches /\ crossed \subseteq Flows /\ mode \in Modes /\ acq[f] \in Acquisitions
      /\ cache.adapter # "none" => cache.adapter = AdapterOf[cache.mode]
  BY DEF Pinged, RouteIInv, RoutesTypeOK, RouteInv, Caches, Acquisitions
<1>2. crossed = {} => acq[f].want = mode /\ (cache.adapter # "none" => cache.mode = mode)
  BY <1>1 DEF RouteIInv, RouteInv, Under
<1>3. CASE cache' = [cache EXCEPT !.trusted = TRUE] /\ Returns(f, cache.adapter)
  <2> DEFINE a == Acquisition("done", "pglite", "none", cache.adapter)
  <2>1. a \in Acquisitions /\ a.at = "done" /\ a.got = cache.adapter
    BY <1>1 DEF Acquisition, Acquisitions, Under, Modes, Caches
  <2>2. cache' \in Caches /\ cache'.adapter = cache.adapter /\ cache'.mode = cache.mode
    BY <1>1, <1>3 DEF Caches
  <2>3. Moves(f, a)
    BY <1>3 DEF Returns
  <2>4. "none" \notin DbAdapters
    BY DEF DbAdapters
  <2> HIDE DEF a
  <2> QED
    BY <1>1, <1>2, <2>1, <2>2, <2>3, <2>4, RouteTurn DEF Under
<1>4. CASE cache' = [cache EXCEPT !.adapter = "none"] /\ Moves(f, [acq[f] EXCEPT !.at = "open"])
  <2> DEFINE a == [acq[f] EXCEPT !.at = "open"]
  <2>1. a \in Acquisitions /\ a.at = "open" /\ a.want = acq[f].want
    BY <1>1 DEF Acquisitions, Under
  <2>2. cache' \in Caches /\ cache'.adapter = "none"
    BY <1>1, <1>4 DEF Caches
  <2> HIDE DEF a
  <2> QED
    BY <1>1, <1>2, <1>4, <2>1, <2>2, RouteTurn DEF a
<1> QED
  BY <1>3, <1>4 DEF Pinged

LEMMA OpenedRoutes ==
  ASSUME RouteIInv, NEW f \in Flows, Opened(f)
  PROVE  RouteIInv' /\ HandsOut
<1> DEFINE adapter == AdapterOf[acq[f].want]
<1>1. /\ UNCHANGED <<server, mode, explicit, fresh, crossed>> /\ acq[f].at = "open"
      /\ cache \in Caches /\ crossed \subseteq Flows /\ mode \in Modes /\ acq[f] \in Acquisitions
      /\ cache.adapter # "none" => cache.adapter = AdapterOf[cache.mode]
  BY DEF Opened, RouteIInv, RoutesTypeOK, RouteInv, Caches, Acquisitions
<1>2. crossed = {} => acq[f].want = mode
  BY <1>1 DEF RouteIInv, RouteInv, Under
<1>3. acq[f].want \in Modes /\ adapter \in DbAdapters
  BY <1>1 DEF Acquisitions, AdapterOf, DbAdapters
<1>4. CASE /\ cache' = [adapter |-> adapter, mode |-> acq[f].want, trusted |-> TRUE]
           /\ Returns(f, adapter)
  <2> DEFINE a == Acquisition("done", "pglite", "none", adapter)
  <2>1. a \in Acquisitions /\ a.at = "done" /\ a.got = adapter
    BY <1>3 DEF Acquisition, Acquisitions, Under, Modes
  <2>2. cache' \in Caches /\ cache'.adapter = adapter /\ cache'.mode = acq[f].want
    BY <1>3, <1>4 DEF Caches
  <2>3. Moves(f, a)
    BY <1>4 DEF Returns
  <2> HIDE DEF a
  <2> QED
    BY <1>1, <1>2, <2>1, <2>2, <2>3, RouteTurn DEF Under
<1>5. CASE (cache' = cache \/ cache' = [cache EXCEPT !.adapter = "none"]) /\ Fails(f)
  <2> DEFINE a == Acquisition("done", "pglite", "none", "failed")
  <2>1. a \in Acquisitions /\ a.at = "done" /\ a.got = "failed" /\ "failed" \notin DbAdapters
    BY DEF Acquisition, Acquisitions, Under, Modes, DbAdapters
  <2>2. cache' \in Caches /\ (cache'.adapter # "none" => cache' = cache)
    BY <1>1, <1>5 DEF Caches
  <2>3. Moves(f, a)
    BY <1>5 DEF Fails, Returns
  <2> HIDE DEF a
  <2> QED
    BY <1>1, <1>2, <2>1, <2>2, <2>3, RouteTurn DEF Under
<1> QED
  BY <1>4, <1>5 DEF Opened

LEMMA ReloadRoutes ==
  ASSUME RouteIInv, Reloads, fresh' \in BOOLEAN
  PROVE  RouteIInv' /\ HandsOut
<1> DEFINE done == Acquisition("done", "pglite", "none", "failed")
<1>1. /\ cache' = Empty /\ crossed' = {} /\ UNCHANGED <<server, mode, explicit>>
      /\ acq' = [f \in Flows |-> IF acq[f].at = "start" THEN NotAsked ELSE done]
  BY DEF Reloads, RoutesReload
<1>2. NotAsked \in Acquisitions /\ done \in Acquisitions
  BY DEF NotAsked, Acquisition, Acquisitions, Under, Modes
<1>3. /\ NotAsked.at = "start" /\ done.at = "done" /\ done.got = "failed"
      /\ Empty.adapter = "none" /\ Empty \in Caches
  BY DEF NotAsked, Acquisition, Empty, Caches, Modes
<1> HIDE DEF done
<1>4. RoutesTypeOK'
  BY <1>1, <1>2, <1>3 DEF RouteIInv, RoutesTypeOK, Caches, Acquisitions
<1>5. \A f \in Flows : acq'[f].at \notin Under /\ ~Returned(f)
  <2> SUFFICES ASSUME NEW f \in Flows PROVE acq'[f].at \notin Under /\ ~Returned(f)
    OBVIOUS
  <2>1. acq'[f] = NotAsked \/ acq'[f] = done
    BY <1>1
  <2> QED
    BY <1>3, <2>1 DEF Under, Returned, DbAdapters
<1>6. RouteInv'
  BY <1>1, <1>3, <1>5 DEF RouteInv, Under
<1> QED
  BY <1>4, <1>5, <1>6 DEF RouteIInv, HandsOut

LEMMA RoutesInitially ==
  Init => RouteIInv
<1> SUFFICES ASSUME Init PROVE RouteIInv
  OBVIOUS
<1>1. /\ NotAsked \in Acquisitions /\ NotAsked.at = "start"
      /\ Empty.adapter = "none" /\ Empty \in Caches
  BY DEF NotAsked, Acquisition, Acquisitions, Modes, Empty, Caches
<1>2. RoutesTypeOK
  BY <1>1 DEF Init, RoutesInit, RoutesTypeOK, Acquisitions, Caches
<1>3. \A f \in Flows : acq[f].at = "start"
  BY <1>1 DEF Init, RoutesInit
<1>4. RouteInv
  BY <1>1, <1>3 DEF Init, RoutesInit, RouteInv, Under
<1> QED
  BY <1>2, <1>4 DEF RouteIInv

(* Every step of a call that is not an acquisition leaves the routes.      *)
LEMMA RoutesNext ==
  ASSUME RouteIInv, [Next]_vars
  PROVE  RouteIInv' /\ HandsOut
<1>1. CASE UNCHANGED routes
  <2>1. /\ acq' = acq /\ server' = server /\ mode' = mode /\ explicit' = explicit /\ fresh' = fresh
        /\ cache' = cache /\ crossed' = crossed
    BY <1>1 DEF routes
  <2>2. RouteIInv'
    BY <2>1 DEF RouteIInv, RoutesTypeOK, RouteInv
  <2> QED
    BY <2>1, <2>2 DEF HandsOut, Returned
<1>2. CASE Acquiring
  <2>1. CASE TrustExpires
    <3>1. cache' = [cache EXCEPT !.trusted = FALSE] /\ cache \in Caches
      BY <2>1 DEF TrustExpires, RouteIInv, RoutesTypeOK, Caches
    <3>2. cache' \in Caches /\ cache'.adapter = cache.adapter /\ cache'.mode = cache.mode
      BY <3>1 DEF Caches
    <3> QED
      BY <2>1, <3>2, RouteStands DEF TrustExpires, RouteIInv, RoutesTypeOK
  <2> QED
    BY <1>2, <2>1, StartRoutes, ProbedRoutes, PingedRoutes, OpenedRoutes DEF Acquiring
<1>3. CASE Picks
  <2>1. PICK m \in Modes : mode' = m /\ Crosses(m)
    BY <1>3 DEF Picks, Choose, TestLocal, Modes
  <2>2. /\ acq' = acq /\ server' = server /\ cache' = cache /\ fresh' = fresh /\ explicit' \in BOOLEAN
        /\ fresh \in BOOLEAN /\ cache \in Caches /\ crossed \subseteq Flows
    BY <1>3 DEF Picks, Choose, TestLocal, RouteIInv, RoutesTypeOK, Caches
  <2>3. crossed' \subseteq Flows
    BY <2>1, <2>2 DEF Crosses
  <2> QED
    BY <2>1, <2>2, <2>3, RouteStands
<1>4. CASE Reload \/ Onboards
  <2>1. fresh' \in BOOLEAN
    BY <1>4 DEF Reload, Onboards, RouteIInv, RoutesTypeOK
  <2> QED
    BY <1>4, <2>1, ReloadRoutes DEF Reload, Onboards
<1>5. CASE \E f \in Flows : Deadline(f) \/ Enter(f)
  BY <1>1, <1>5 DEF Deadline, Enter
<1>6. CASE \E f \in Flows : BeginBlock(f) \/ RunStatement(f) \/ CommitBlock(f) \/ RollbackBlock(f)
  BY <1>1, <1>6 DEF BeginBlock, RunStatement, CommitBlock, RollbackBlock
<1>7. CASE LateAnswer
  BY <1>1, <1>7 DEF LateAnswer
<1>8. CASE \E f \in Flows : Served(f) \/ Unheard(f)
  BY <1>1, <1>8 DEF Served, Unheard
<1>9. CASE \E r \in flying : Lands(r)
  BY <1>1, <1>9 DEF Lands
<1>10. CASE UNCHANGED vars
  BY <1>1, <1>10 DEF vars
<1> QED
  BY <1>2, <1>3, <1>4, <1>5, <1>6, <1>7, <1>8, <1>9, <1>10 DEF Next

LEMMA RoutesAlways ==
  Spec => []RouteIInv
<1>1. RouteIInv /\ [Next]_vars => RouteIInv'
  BY RoutesNext
<1> QED
  BY RoutesInitially, <1>1, PTL DEF Spec

(* A call is never handed the adapter of a backend that is not the stored  *)
(* one, whatever its probes, pings and reloads, while the user's choice    *)
(* changes under no acquisition (acquireDbAdapter in index.ts).            *)
THEOREM RoutesAreHonoured ==
  Spec => RoutesWhileSettled
<1>1. RouteIInv /\ [Next]_vars => [\A f \in Flows : Returned(f) /\ crossed' = {} => acq'[f].got = AdapterOf[mode']]_vars
  BY RoutesNext DEF HandsOut
<1> QED
  BY RoutesAlways, <1>1, PTL DEF Spec, RoutesWhileSettled

-----------------------------------------------------------------------------
(* The steps that leave the session alone. *)

(* What a step of g that is no request to PGlite may touch.                *)
Apart(g, stage) ==
  /\ UNCHANGED <<batches, transport, block, pending, late, disturbed, spent>>
  /\ kept' \subseteq Writes /\ \A f \in Flows \ {g} : Ours(f)' = Ours(f)
  /\ unheard \subseteq unheard' /\ unheard' \subseteq unheard \cup {g}
  /\ flying' \subseteq Flows \X {1, 2}
  /\ \A q \in flying' : q \in flying \/ (q[1] = g /\ g \in unheard')
  /\ (\E q \in flying' : q[1] = g) => stage \in {"sent", "told"}

LEMMA PlainTurn ==
  ASSUME IInv, RoutesTypeOK', NEW g \in Flows,
         NEW stage, NEW n, NEW what, TurnsTo(g, stage, n, what), Sane(g, stage, n, what),
         Apart(g, stage), g \notin disturbed => Fine(g)'
  PROVE  IInv'
<1> USE DEF Apart
<1>1. TypeOK'
  <2>1. unheard' \subseteq Flows
    BY DEF IInv, TypeOK
  <2> QED
    BY <2>1 DEF IInv, TypeOK, EngineTypeOK, TurnsTo
<1>2. LateIsKnown' /\ Staged'
  BY TurnStaged DEF IInv, LateIsKnown, Writes
<1>3. FlyingIsUnheard'
  <2> SUFFICES ASSUME NEW q \in flying'
               PROVE  q[1] \in unheard' /\ at'[q[1]] \in {"sent", "told"}
    BY DEF FlyingIsUnheard
  <2>1. CASE q[1] = g
    BY <2>1 DEF IInv, FlyingIsUnheard, TurnsTo
  <2>2. CASE q[1] # g
    <3>1. q \in flying /\ q[1] \in Flows
      BY <2>2
    <3> QED
      BY <2>2, <3>1 DEF IInv, FlyingIsUnheard, TurnsTo
  <2> QED
    BY <2>1, <2>2
<1>4. Alone'
  <2> SUFFICES ASSUME NEW f \in Flows, f \notin disturbed'
               PROVE  Fine(f)'
    BY DEF Alone
  <2>1. CASE f = g
    BY <2>1
  <2>2. CASE f # g
    <3>1. Fine(f) /\ Ours(f)' = Ours(f) /\ Mine(f)' = Mine(f)
      BY <2>2 DEF IInv, Alone, Mine
    <3>2. Stays(f)
      BY <2>2, <3>1 DEF Stays, TurnsTo
    <3> QED
      BY <3>1, <3>2, StaysFine
  <2> QED
    BY <2>1, <2>2
<1> QED
  BY <1>1, <1>2, <1>3, <1>4 DEF IInv

LEMMA RouteIsEmpty ==
  ASSUME IInv, NEW g \in Flows, at[g] = "route"
  PROVE  /\ g \notin disturbed => Mine(g) = {} /\ Ours(g) = {}
         /\ \A q \in flying : q[1] # g
         /\ g \in batches => g \notin Openers
BY DEF IInv, Alone, Fine, Openers, Inside, FlyingIsUnheard

LEMMA DeadlineStep ==
  ASSUME IInv, RoutesTypeOK', NEW g \in Flows, Deadline(g)
  PROVE  IInv'
<1>1. /\ at[g] = "route" /\ Tells(g, "error")
      /\ UNCHANGED <<engine, routes, flying, unheard, disturbed, spent>>
  BY DEF Deadline
<1>2. TurnsTo(g, "told", 1, "error") /\ Sane(g, "told", 1, "error")
  BY <1>1, TellsTurns DEF Sane
<1>3. UNCHANGED <<batches, transport, block, pending, kept, late>> /\ \A f \in Flows : Ours(f)' = Ours(f) /\ Mine(f)' = Mine(f)
  BY <1>1 DEF engine, Ours, Mine
<1>4. g \notin disturbed => Fine(g)'
  BY <1>1, <1>2, <1>3, RouteIsEmpty, FineEmpty DEF TurnsTo
<1>5. Apart(g, "told")
  BY <1>1, <1>3 DEF IInv, TypeOK, EngineTypeOK, Apart
<1> QED
  BY <1>2, <1>3, <1>4, <1>5, PlainTurn

LEMMA EnterStep ==
  ASSUME IInv, RoutesTypeOK', NEW g \in Flows, Enter(g)
  PROVE  IInv'
<1>1. /\ at[g] = "route"
      /\ UNCHANGED <<engine, routes, flying, unheard, disturbed, spent>>
  BY DEF Enter
<1>2. \/ g \in batches /\ Goes(g, "begin", 1)
      \/ g \notin batches /\ Goes(g, "work", 1)
      \/ Goes(g, "sent", 1)
      \/ Tells(g, "error")
  BY DEF Enter
<1>3. PICK stage \in {"begin", "work", "sent", "told"}, what \in {"none", "error"} :
        TurnsTo(g, stage, 1, what) /\ Sane(g, stage, 1, what) /\ (stage = "work" => g \notin batches)
  <2>1. CASE g \in batches /\ Goes(g, "begin", 1)
    <3>1. TurnsTo(g, "begin", 1, "none")
      BY <1>1, <2>1, GoesTurns DEF Stages
    <3> QED
      BY <2>1, <3>1 DEF Sane
  <2>2. CASE g \notin batches /\ Goes(g, "work", 1)
    <3>1. TurnsTo(g, "work", 1, "none")
      BY <1>1, <2>2, GoesTurns DEF Stages, Inside
    <3>2. 1 \in 1..Length(g)
      BY <2>2 DEF Length
    <3> QED
      BY <2>2, <3>1, <3>2 DEF Sane
  <2>3. CASE Goes(g, "sent", 1)
    <3>1. TurnsTo(g, "sent", 1, "none")
      BY <1>1, <2>3, GoesTurns DEF Stages
    <3> QED
      BY <2>3, <3>1 DEF Sane
  <2>4. CASE Tells(g, "error")
    <3>1. TurnsTo(g, "told", 1, "error")
      BY <2>4, TellsTurns
    <3> QED
      BY <3>1 DEF Sane
  <2> QED
    BY <1>2, <2>1, <2>2, <2>3, <2>4
<1>4. UNCHANGED <<batches, transport, block, pending, kept, late>> /\ \A f \in Flows : Ours(f)' = Ours(f) /\ Mine(f)' = Mine(f)
  BY <1>1 DEF engine, Ours, Mine
<1>5. ASSUME g \notin disturbed
      PROVE  Fine(g)'
  <2>1. Mine(g)' = {} /\ Ours(g)' = {} /\ batches' = batches
    BY <1>1, <1>4, <1>5, RouteIsEmpty
  <2>2. \A try \in {1, 2} : Untouched(g, try)'
    BY <2>1, WholeIsOursNext
  <2>3. stage = "work" => g \notin Openers'
    BY <1>3, <2>1 DEF Openers
  <2> QED
    BY <1>3, <2>1, <2>2, <2>3 DEF Fine, TurnsTo, Inside
<1>6. Apart(g, stage)
  BY <1>1, <1>4, RouteIsEmpty DEF IInv, TypeOK, EngineTypeOK, Apart
<1> QED
  BY <1>3, <1>5, <1>6, PlainTurn

(* A server carries a request out.                                         *)
LEMMA KeptGrows ==
  ASSUME IInv, NEW g \in Flows, NEW done \in {1, 2}, kept' = kept \cup WritesOf(g, done), batches' = batches
  PROVE  /\ kept' \subseteq Writes
         /\ \A f \in Flows \ {g} : Ours(f)' = Ours(f)
         /\ Whole(g, done)'
         /\ \A try \in {1, 2} : /\ Whole(g, try) => Whole(g, try)'
                                /\ Whole(g, try) \/ Untouched(g, try) => Whole(g, try)' \/ Untouched(g, try)'
<1>1. \A w \in WritesOf(g, done) : w[1] = g /\ w[3] = done /\ w \in Writes
  <2>1. Length(g) \in Nat
    BY StatementsAssumption DEF Length
  <2> QED
    BY <2>1 DEF WritesOf, Writes
<1>2. kept' \subseteq Writes /\ \A f \in Flows \ {g} : Ours(f)' = Ours(f)
  BY <1>1 DEF IInv, TypeOK, EngineTypeOK, Ours
<1>3. \A try \in {1, 2} : WritesOf(g, try)' = WritesOf(g, try)
  BY WholeIsOursNext
<1>4. Whole(g, done)' /\ \A try \in {1, 2} : Whole(g, try) => Whole(g, try)'
  BY <1>3 DEF Whole
<1>5. ASSUME NEW try \in {1, 2}, Untouched(g, try), try # done
      PROVE  Untouched(g, try)'
  <2>1. \A w \in WritesOf(g, try) : w[3] = try
    BY DEF WritesOf
  <2> QED
    BY <1>1, <1>3, <1>5, <2>1 DEF Untouched
<1> QED
  BY <1>2, <1>4, <1>5

LEMMA ServedStep ==
  ASSUME IInv, RoutesTypeOK', NEW g \in Flows, Served(g)
  PROVE  IInv'
<1>1. /\ at[g] = "sent" /\ k[g] \in {1, 2} /\ told[g] = "none"
      /\ UNCHANGED <<batches, transport, block, pending, late, flying, unheard, disturbed, spent>>
  BY DEF Served, IInv, Staged
<1>2. \A f \in Flows : Mine(f)' = Mine(f)
  BY <1>1 DEF Mine
<1>3. ASSUME g \notin disturbed
      PROVE  /\ Mine(g)' = {} /\ (g \notin unheard => Ours(g) = {})
             /\ \A try \in {1, 2} : Whole(g, try) \/ Untouched(g, try)
  BY <1>1, <1>2, <1>3 DEF IInv, Alone, Fine, Openers, Inside
<1>4. PICK done \in {1, 2} : done = k[g]
  BY <1>1
<1>5. CASE kept' = kept \cup WritesOf(g, k[g]) /\ Tells(g, "ok")
  <2>1. TurnsTo(g, "told", 1, "ok") /\ Sane(g, "told", 1, "ok")
    BY <1>5, TellsTurns DEF Sane
  <2>2. /\ kept' \subseteq Writes /\ \A f \in Flows \ {g} : Ours(f)' = Ours(f)
        /\ Whole(g, done)'
        /\ \A try \in {1, 2} : Whole(g, try) \/ Untouched(g, try) => Whole(g, try)' \/ Untouched(g, try)'
    BY <1>1, <1>4, <1>5, KeptGrows
  <2>3. g \notin disturbed => Fine(g)'
    BY <1>1, <1>3, <2>1, <2>2 DEF Fine, TurnsTo, Inside
  <2>4. Apart(g, "told")
    BY <1>1, <2>2 DEF IInv, TypeOK, Apart
  <2> QED
    BY <2>1, <2>3, <2>4, PlainTurn
<1>6. CASE UNCHANGED kept /\ (Tells(g, "error") \/ (Replays(g) /\ Goes(g, "sent", k[g] + 1)))
  <2>1. PICK stage \in {"sent", "told"}, n \in {1, 2}, what \in {"none", "error"} :
          TurnsTo(g, stage, n, what) /\ Sane(g, stage, n, what)
    <3>1. CASE Tells(g, "error")
      <4>1. TurnsTo(g, "told", 1, "error")
        BY <3>1, TellsTurns
      <4> QED
        BY <4>1 DEF Sane
    <3>2. CASE Replays(g) /\ Goes(g, "sent", k[g] + 1)
      <4>1. k[g] + 1 = 2
        BY <3>2 DEF Replays
      <4>2. TurnsTo(g, "sent", 2, "none")
        BY <1>1, <3>2, <4>1, GoesTurns DEF Stages
      <4> QED
        BY <4>2 DEF Sane
    <3> QED
      BY <1>6, <3>1, <3>2
  <2>2. /\ kept' \subseteq Writes
        /\ \A f \in Flows : Ours(f)' = Ours(f)
    BY <1>6 DEF Ours, IInv, TypeOK, EngineTypeOK
  <2>3. \A try \in {1, 2} : Whole(g, try) \/ Untouched(g, try) => Whole(g, try)' \/ Untouched(g, try)'
    BY <1>1, <2>2, WholeIsOurs, WholeIsOursNext
  <2>4. g \notin disturbed => Fine(g)'
    BY <1>1, <1>3, <2>1, <2>2, <2>3 DEF Fine, TurnsTo, Inside
  <2>5. Apart(g, stage)
    BY <1>1, <2>2 DEF IInv, TypeOK, Apart
  <2> QED
    BY <2>1, <2>4, <2>5, PlainTurn
<1>7. \/ kept' = kept \cup WritesOf(g, k[g]) /\ Tells(g, "ok")
      \/ kept' = kept /\ Tells(g, "error")
      \/ kept' = kept /\ Replays(g) /\ Goes(g, "sent", k[g] + 1)
  BY DEF Served
<1> QED
  BY <1>5, <1>6, <1>7

LEMMA UnheardStep ==
  ASSUME IInv, RoutesTypeOK', NEW g \in Flows, Unheard(g)
  PROVE  IInv'
<1>1. /\ at[g] = "sent" /\ told[g] = "none" /\ unheard' = unheard \cup {g}
      /\ UNCHANGED <<batches, transport, block, pending, late, disturbed, spent>>
  BY DEF Unheard, IInv, Staged
<1>2. PICK done \in {1, 2} : done = k[g]
  BY <1>1 DEF IInv, Staged
<1>3. \A f \in Flows : Mine(f)' = Mine(f)
  BY <1>1 DEF Mine
<1>4. ASSUME g \notin disturbed
      PROVE  Mine(g)' = {} /\ \A try \in {1, 2} : Whole(g, try) \/ Untouched(g, try)
  BY <1>1, <1>3, <1>4 DEF IInv, Alone, Fine, Openers, Inside
<1>5. PICK stage \in {"sent", "told"}, n \in {1, 2}, what \in {"none", "error"} :
        TurnsTo(g, stage, n, what) /\ Sane(g, stage, n, what)
  <2>1. CASE Replays(g) /\ Goes(g, "sent", k[g] + 1)
    <3>1. k[g] + 1 = 2
      BY <2>1 DEF Replays
    <3>2. TurnsTo(g, "sent", 2, "none")
      BY <1>1, <2>1, <3>1, GoesTurns DEF Stages
    <3> QED
      BY <3>2 DEF Sane
  <2>2. CASE Tells(g, "error")
    <3>1. TurnsTo(g, "told", 1, "error")
      BY <2>2, TellsTurns
    <3> QED
      BY <3>1 DEF Sane
  <2> QED
    BY <2>1, <2>2 DEF Unheard
<1>6. /\ kept' \subseteq Writes /\ \A f \in Flows \ {g} : Ours(f)' = Ours(f)
      /\ \A try \in {1, 2} : Whole(g, try) \/ Untouched(g, try) => Whole(g, try)' \/ Untouched(g, try)'
  <2>1. CASE kept' = kept \cup WritesOf(g, k[g])
    BY <1>1, <1>2, <2>1, KeptGrows
  <2>2. CASE kept' = kept
    <3>1. /\ kept' \subseteq Writes /\ \A f \in Flows : Ours(f)' = Ours(f)
      BY <2>2 DEF Ours, IInv, TypeOK, EngineTypeOK
    <3>2. \A try \in {1, 2} : (Whole(g, try) \/ Untouched(g, try)) => (Whole(g, try)' \/ Untouched(g, try)')
      BY <1>1, <3>1, WholeIsOurs, WholeIsOursNext
    <3> QED
      BY <3>1, <3>2
  <2> QED
    BY <2>1, <2>2 DEF Unheard
<1>7. flying' \subseteq flying \cup {<<g, done>>}
  BY <1>2 DEF Unheard
<1>8. g \notin disturbed => Fine(g)'
  BY <1>1, <1>4, <1>5, <1>6 DEF Fine, TurnsTo, Inside
<1>9. Apart(g, stage)
  BY <1>1, <1>5, <1>6, <1>7 DEF IInv, TypeOK, Apart
<1> QED
  BY <1>5, <1>8, <1>9, PlainTurn

LEMMA LandsStep ==
  ASSUME IInv, NEW r \in flying, Lands(r)
  PROVE  IInv'
<1>1. PICK g \in Flows, done \in {1, 2} : r = <<g, done>> /\ g \in unheard /\ at[g] \in {"sent", "told"}
  BY DEF IInv, TypeOK, FlyingIsUnheard
<1>2. /\ kept' = kept \cup WritesOf(g, done) /\ flying' \subseteq flying
      /\ UNCHANGED <<batches, transport, block, pending, late, routes, at, k, told, unheard, disturbed, spent>>
  BY <1>1 DEF Lands
<1>3. /\ kept' \subseteq Writes
      /\ \A f \in Flows \ {g} : Ours(f)' = Ours(f)
      /\ \A try \in {1, 2} : Whole(g, try) => Whole(g, try)'
      /\ \A try \in {1, 2} : Whole(g, try) \/ Untouched(g, try) => Whole(g, try)' \/ Untouched(g, try)'
  BY <1>1, <1>2, KeptGrows
<1>4. TypeOK'
  BY <1>2, <1>3 DEF IInv, TypeOK, EngineTypeOK, RoutesTypeOK, routes
<1>5. Staged' /\ LateIsKnown' /\ FlyingIsUnheard'
  BY <1>2 DEF IInv, Staged, LateIsKnown, FlyingIsUnheard, Length
<1>6. Alone'
  <2> SUFFICES ASSUME NEW f \in Flows, f \notin disturbed'
               PROVE  Fine(f)'
    BY DEF Alone
  <2>1. Fine(f) /\ Mine(f)' = Mine(f)
    BY <1>2 DEF IInv, Alone, Mine
  <2>2. CASE f = g
    <3>1. g \notin Openers
      BY <1>1 DEF Openers, Inside
    <3> QED
      BY <1>1, <1>2, <1>3, <2>1, <2>2, <3>1 DEF Fine, Openers, Inside
  <2>3. CASE f # g
    BY <1>2, <1>3, <2>1, <2>3, StaysFine DEF Stays
  <2> QED
    BY <2>2, <2>3
<1> QED
  BY <1>4, <1>5, <1>6 DEF IInv

(* A ping writes nothing.                                                  *)
LEMMA PingsQuietly ==
  ASSUME NEW adapter, NEW ok, Pings(adapter, ok)
  PROVE  /\ UNCHANGED <<batches, transport, block, pending, kept>>
         /\ \/ late' = late
            \/ transport = "worker" /\ late' = Append(late, Request("SELECT", NoWrite))
<1> DEFINE r == Request("SELECT", NoWrite)
<1>1. r.verb = "SELECT"
  BY DEF Request
<1> HIDE DEF r
<1>2. CASE Answers(r, ok)
  BY <1>1, <1>2 DEF Answers, Executes, Select
<1>3. CASE GivesUp(r)
  BY <1>3 DEF GivesUp, r
<1>4. CASE UNCHANGED engine
  BY <1>4 DEF engine
<1> QED
  BY <1>2, <1>3, <1>4 DEF Pings, r

LEMMA AcquiringQuietly ==
  ASSUME Acquiring
  PROVE  /\ UNCHANGED <<batches, transport, block, pending, kept>>
         /\ \/ late' = late
            \/ transport = "worker" /\ late' = Append(late, Request("SELECT", NoWrite))
         /\ UNCHANGED calls
<1>1. CASE TrustExpires \/ \E f \in Flows : StartAcquire(f) \/ Probed(f)
  BY <1>1 DEF TrustExpires, StartAcquire, Probed, engine, Acquiring
<1>2. ASSUME NEW f \in Flows, Pinged(f) \/ Opened(f)
      PROVE  \E adapter, ok : Pings(adapter, ok)
  BY <1>2 DEF Pinged, Opened
<1> QED
  BY <1>1, <1>2, PingsQuietly DEF Acquiring

LEMMA AcquiringStep ==
  ASSUME IInv, RoutesTypeOK', Acquiring
  PROVE  IInv'
<1> DEFINE r == Request("SELECT", NoWrite)
<1>1. /\ UNCHANGED <<batches, transport, block, pending, kept>>
      /\ UNCHANGED <<at, k, told, flying, unheard, disturbed, spent>>
      /\ late' = late \/ late' = Append(late, r)
  BY AcquiringQuietly DEF calls
<1>2. r \in Requests /\ r.verb = "SELECT"
  BY RequestIsRequest DEF Verbs
<1> HIDE DEF r
<1>3. late \in Seq(Requests) /\ LateIsKnown
  BY DEF IInv, TypeOK, EngineTypeOK, Requests
<1>4. late' \in Seq(Requests) /\ LateIsKnown'
  <2>1. CASE late' = late
    BY <1>1, <1>3, <2>1 DEF LateIsKnown, Writes
  <2>2. CASE late' = Append(late, r)
    <3>1. /\ late' \in Seq(Requests) /\ Len(late') = Len(late) + 1 /\ Len(late) \in Nat
          /\ \A i \in 1..Len(late) : late'[i] = late[i]
          /\ late'[Len(late) + 1] = r
      BY <1>2, <1>3, <2>2, AppendTyped
    <3> SUFFICES ASSUME NEW i \in 1..Len(late'), late'[i].verb = "STATEMENT"
                 PROVE  late'[i].write \in Writes /\ late'[i].write[1] \in disturbed'
      BY <3>1 DEF LateIsKnown, Writes
    <3>2. i \in 1..Len(late)
      BY <1>2, <3>1
    <3> QED
      BY <1>1, <1>3, <3>1, <3>2 DEF LateIsKnown
  <2> QED
    BY <1>1, <2>1, <2>2
<1>5. TypeOK' /\ Staged' /\ FlyingIsUnheard'
  BY <1>1, <1>4 DEF IInv, TypeOK, EngineTypeOK, Requests, Staged, FlyingIsUnheard, Length
<1>6. Alone'
  <2> SUFFICES ASSUME NEW f \in Flows, f \notin disturbed'
               PROVE  Fine(f)'
    BY DEF Alone
  <2> QED
    BY <1>1, StaysFine DEF IInv, Alone, Stays, Mine, Ours
<1> QED
  BY <1>4, <1>5, <1>6 DEF IInv

LEMMA PicksStep ==
  ASSUME IInv, RoutesTypeOK', Picks
  PROVE  IInv'
<1>1. /\ UNCHANGED <<batches, transport, block, pending, kept, late>>
      /\ UNCHANGED <<at, k, told, flying, unheard, disturbed>>
      /\ Spends("choices", MaxChoices)
  <2>1. UNCHANGED engine
    BY DEF Picks, Choose, TestLocal
  <2>2. UNCHANGED <<at, k, told, flying, unheard, disturbed>>
    BY DEF Picks
  <2>3. Spends("choices", MaxChoices)
    BY DEF Picks
  <2> QED
    BY <2>1, <2>2, <2>3 DEF engine
<1>2. TypeOK' /\ Staged' /\ FlyingIsUnheard' /\ LateIsKnown'
  <2>1. spent' \in [timeouts : Nat, choices : Nat, reloads : Nat]
    BY <1>1 DEF Spends, IInv, TypeOK
  <2>2. TypeOK'
    BY <1>1, <2>1 DEF IInv, TypeOK, EngineTypeOK
  <2> QED
    BY <1>1, <2>2 DEF IInv, Staged, FlyingIsUnheard, LateIsKnown, Writes, Length
<1>3. Alone'
  <2> SUFFICES ASSUME NEW f \in Flows, f \notin disturbed'
               PROVE  Fine(f)'
    BY DEF Alone
  <2> QED
    BY <1>1, StaysFine DEF IInv, Alone, Stays, Mine, Ours
<1> QED
  BY <1>2, <1>3 DEF IInv

(* A reload ends the block, and every call that may have been in it.       *)
LEMMA ReloadsStep ==
  ASSUME IInv, RoutesTypeOK', Reloads, spent' \in [timeouts : Nat, choices : Nat, reloads : Nat]
  PROVE  IInv'
<1> DEFINE cut == {f \in Flows : told[f] = "none" /\ ~(at[f] = "route" /\ acq[f].at = "start")}
           sent == {f \in Flows : at[f] = "sent"}
<1>1. /\ block' = "idle" /\ pending' = {} /\ late' = <<>>
      /\ UNCHANGED <<batches, transport, kept, k, disturbed>>
      /\ at' = [f \in Flows |-> IF f \in cut THEN "told" ELSE at[f]]
      /\ told' = [f \in Flows |-> IF f \in cut THEN "cut" ELSE told[f]]
      /\ flying' = flying \cup {<<f, k[f]>> : f \in sent}
      /\ unheard' = unheard \cup sent
  BY DEF Reloads, EngineReload
<1>2. \A f \in Flows : f \in cut => told[f] = "none" /\ at'[f] = "told" /\ told'[f] = "cut"
  BY <1>1
<1>3. \A f \in Flows : f \notin cut => at'[f] = at[f] /\ told'[f] = told[f] /\ at[f] \in {"route", "told"}
  BY <1>1 DEF IInv, Staged
<1>4. sent \subseteq cut /\ \A f \in sent : k[f] \in {1, 2}
  BY DEF IInv, Staged
<1>5. TypeOK'
  <2>1. /\ at' \in [Flows -> Stages] /\ told' \in [Flows -> {"none", "ok", "error", "cut"}]
        /\ unheard' \subseteq Flows
    BY <1>1 DEF IInv, TypeOK, Stages
  <2>2. flying' \subseteq Flows \X {1, 2}
    BY <1>1, <1>4 DEF IInv, TypeOK
  <2>3. EngineTypeOK'
    BY <1>1, EmptySeq DEF IInv, TypeOK, EngineTypeOK
  <2> QED
    BY <1>1, <2>1, <2>2, <2>3 DEF IInv, TypeOK
<1>6. Staged'
  <2> SUFFICES ASSUME NEW f \in Flows
               PROVE  /\ told'[f] = "none" <=> at'[f] # "told"
                      /\ at'[f] \in {"begin", "commit", "rollback"} => f \in batches'
                      /\ at'[f] = "work" => k'[f] \in 1..Length(f)'
                      /\ at'[f] = "sent" => k'[f] \in {1, 2}
    BY DEF Staged
  <2>1. CASE f \in cut
    BY <1>2, <2>1
  <2>2. CASE f \notin cut
    BY <1>3, <2>2 DEF IInv, Staged
  <2> QED
    BY <2>1, <2>2
<1>7. LateIsKnown'
  BY <1>1 DEF LateIsKnown
<1>8. FlyingIsUnheard'
  <2> SUFFICES ASSUME NEW q \in flying'
               PROVE  q[1] \in unheard' /\ at'[q[1]] \in {"sent", "told"}
    BY DEF FlyingIsUnheard
  <2>1. CASE q \in flying
    <3>1. q[1] \in Flows /\ q[1] \in unheard /\ at[q[1]] \in {"sent", "told"}
      BY <2>1 DEF IInv, TypeOK, FlyingIsUnheard
    <3> QED
      BY <1>1, <3>1
  <2>2. CASE q \in {<<f, k[f]>> : f \in sent}
    <3>1. PICK f \in sent : q = <<f, k[f]>>
      BY <2>2
    <3>2. f \in cut /\ f \in Flows /\ f \in unheard'
      BY <1>1, <1>4, <3>1
    <3> QED
      BY <1>2, <3>1, <3>2
  <2> QED
    BY <1>1, <2>1, <2>2
<1>9. Alone'
  <2> SUFFICES ASSUME NEW f \in Flows, f \notin disturbed'
               PROVE  Fine(f)'
    BY DEF Alone
  <2>1. Fine(f) /\ Mine(f)' = {} /\ Ours(f)' = Ours(f) /\ batches' = batches
    BY <1>1 DEF IInv, Alone, Mine, Ours
  <2>2. \A try \in {1, 2} : Whole(f, try)' \/ Untouched(f, try)'
    BY <2>1, WholeIsOurs, WholeIsOursNext DEF Fine
  <2>3. CASE f \in cut
    BY <1>2, <2>1, <2>2, <2>3 DEF Fine, Inside, Openers
  <2>4. CASE f \notin cut
    <3>1. f \notin Openers /\ at[f] # "sent"
      BY <1>3, <2>4 DEF Openers, Inside
    <3>2. Mine(f) = {}
      BY <2>1, <3>1 DEF Fine
    <3>3. f \in unheard' <=> f \in unheard
      BY <1>1, <3>1
    <3> QED
      BY <1>1, <1>3, <2>1, <2>4, <3>1, <3>2, <3>3, StaysFine DEF Stays
  <2> QED
    BY <2>3, <2>4
<1> QED
  BY <1>5, <1>6, <1>7, <1>8, <1>9 DEF IInv

LEMMA Initially ==
  ASSUME Init
  PROVE  IInv
<1>1. EngineTypeOK
  BY EmptySeq DEF Init, EngineInit, EngineTypeOK
<1>2. RoutesTypeOK
  BY RoutesInitially DEF RouteIInv
<1>3. TypeOK
  BY <1>1, <1>2 DEF Init, TypeOK, Stages
<1>4. Staged /\ LateIsKnown /\ FlyingIsUnheard
  BY DEF Init, EngineInit, Staged, LateIsKnown, FlyingIsUnheard
<1>5. Alone
  <2> SUFFICES ASSUME NEW f \in Flows PROVE Fine(f)
    BY DEF Alone
  <2>1. /\ at[f] = "route" /\ told[f] = "none" /\ Mine(f) = {} /\ Ours(f) = {} /\ f \notin Openers
    BY DEF Init, EngineInit, Mine, Ours, Openers, Inside
  <2>2. \A try \in {1, 2} : Untouched(f, try)
    BY <2>1, WholeIsOurs
  <2> QED
    BY <2>1, <2>2 DEF Fine, Inside
<1> QED
  BY <1>3, <1>4, <1>5 DEF IInv

LEMMA Inductively ==
  ASSUME IInv, RoutesTypeOK', [Next]_vars
  PROVE  IInv'
<1>1. CASE Acquiring
  BY <1>1, AcquiringStep
<1>2. CASE \E f \in Flows : Deadline(f) \/ Enter(f)
  BY <1>2, DeadlineStep, EnterStep
<1>3. CASE \E f \in Flows : BeginBlock(f) \/ RunStatement(f) \/ CommitBlock(f) \/ RollbackBlock(f)
  BY <1>3, BeginStep, StatementStep, CommitStep, RollbackStep
<1>4. CASE LateAnswer
  BY <1>4, LateStep
<1>5. CASE \E f \in Flows : Served(f) \/ Unheard(f)
  BY <1>5, ServedStep, UnheardStep
<1>6. CASE \E r \in flying : Lands(r)
  BY <1>6, LandsStep
<1>7. CASE Picks
  BY <1>7, PicksStep
<1>8. CASE Reload \/ Onboards
  <2>1. spent' \in [timeouts : Nat, choices : Nat, reloads : Nat]
    BY <1>8 DEF Reload, Onboards, Spends, IInv, TypeOK
  <2> QED
    BY <1>8, <2>1, ReloadsStep DEF Reload, Onboards
<1>9. CASE UNCHANGED vars
  <2>1. /\ UNCHANGED <<batches, transport, block, pending, kept, late>>
        /\ UNCHANGED <<at, k, told, flying, unheard, disturbed, spent>>
    BY <1>9 DEF vars, engine, calls
  <2>2. TypeOK' /\ Staged' /\ FlyingIsUnheard' /\ LateIsKnown'
    BY <2>1 DEF IInv, TypeOK, EngineTypeOK, Staged, FlyingIsUnheard, LateIsKnown, Writes, Length
  <2>3. Alone'
    <3> SUFFICES ASSUME NEW f \in Flows, f \notin disturbed'
                 PROVE  Fine(f)'
      BY DEF Alone
    <3> QED
      BY <2>1, StaysFine DEF IInv, Alone, Stays, Mine, Ours
  <2> QED
    BY <2>2, <2>3 DEF IInv
<1> QED
  BY <1>1, <1>2, <1>3, <1>4, <1>5, <1>6, <1>7, <1>8, <1>9 DEF Next

LEMMA Always ==
  Spec => []IInv
<1>1. Init => IInv
  BY Initially
<1>2. RouteIInv => RoutesTypeOK
  BY DEF RouteIInv
<1>3. IInv /\ RoutesTypeOK' /\ [Next]_vars => IInv'
  BY Inductively
<1> QED
  BY RoutesAlways, <1>1, <1>2, <1>3, PTL DEF Spec

-----------------------------------------------------------------------------
(* What it comes to. *)

(* Every call, request and acquisition is one the code knows.              *)
THEOREM AdaptersTypeCorrect ==
  Spec => []TypeOK
<1>1. IInv => TypeOK
  BY DEF IInv
<1> QED
  BY Always, <1>1, PTL

(* What a transaction writes is kept whole or not at all, for any number   *)
(* of calls and through any reloads, unless it was not alone in the        *)
(* session (transaction() of pgliteAdapter and of the servers' adapters).  *)
THEOREM TransactionsAreAtomic ==
  Spec => []AllOrNone
<1>1. IInv => AllOrNone
  BY DEF IInv, TypeOK, EngineTypeOK, Alone, Fine, AllOrNone
<1> QED
  BY Always, <1>1, PTL

(* The caller is told the truth: success has left every write, an error    *)
(* whose cause was heard has left none (query() and transaction()).        *)
THEOREM AnswersAreTrue ==
  Spec => []AnswerIsTrue
<1>1. IInv => AnswerIsTrue
  <2> SUFFICES ASSUME IInv, NEW f \in Flows \ disturbed
               PROVE  /\ told[f] = "ok" => \E try \in {1, 2} : Whole(f, try)
                      /\ told[f] = "error" /\ f \notin unheard => \A try \in {1, 2} : Untouched(f, try)
    BY DEF AnswerIsTrue
  <2>1. Fine(f)
    BY DEF IInv, Alone
  <2>2. Ours(f) = {} => \A try \in {1, 2} : Untouched(f, try)
    BY WholeIsOurs
  <2> QED
    BY <2>1, <2>2 DEF Fine
<1> QED
  BY Always, <1>1, PTL

-----------------------------------------------------------------------------
(* The block. *)

(* On the calling thread every request is answered at once.                *)
LEMMA MainAwaits ==
  ASSUME IInv, transport = "main", late = <<>>, NEW g \in Flows, NEW r, NEW ok, Awaits(g, r, ok)
  PROVE  Executes(r, ok) /\ UNCHANGED <<batches, transport, late>>
BY DEF Awaits, Answers, GivesUp

(* A call that is not in its block neither opens one nor ends one.         *)
LEMMA OpenTurn ==
  ASSUME OpenInv, NEW g \in Flows, g \notin Openers,
         \A f \in Flows \ {g} : at'[f] = at[f], batches \subseteq Flows,
         UNCHANGED <<batches, transport, late>>, block' # "idle" => block # "idle"
  PROVE  OpenInv'
BY DEF OpenInv, NothingLeftOpen, Openers

LEMMA OpenStands ==
  ASSUME OpenInv, UNCHANGED <<batches, transport, block, at>>,
         transport = "main" => late' = late
  PROVE  OpenInv'
BY DEF OpenInv, NothingLeftOpen, Openers

LEMMA SessionKeepsOpen ==
  ASSUME IInv, IInv', OpenInv, NEW g \in Flows,
         BeginBlock(g) \/ RunStatement(g) \/ CommitBlock(g) \/ RollbackBlock(g)
  PROVE  OpenInv'
<1> USE DEF Inside
<1>1. CASE transport = "worker"
  <2>1. transport' = "worker"
    BY <1>1 DEF BeginBlock, RunStatement, CommitBlock, RollbackBlock, Awaits, Answers, GivesUp
  <2> QED
    BY <2>1 DEF OpenInv, NothingLeftOpen
<1>2. CASE transport = "main"
  <2>1. late = <<>> /\ (block # "idle" => Openers # {}) /\ g \in Flows /\ batches \subseteq Flows
    BY <1>2 DEF OpenInv, NothingLeftOpen, IInv, TypeOK, EngineTypeOK
  <2>2. \A f \in Flows \ {g} : at'[f] = at[f]
    BY DEF BeginBlock, RunStatement, CommitBlock, RollbackBlock, Goes, Tells, IInv, TypeOK
  <2>3. CASE BeginBlock(g)
    <3> DEFINE r == Request("BEGIN", NoWrite)
    <3>1. PICK ok \in BOOLEAN : Awaits(g, r, ok) /\ (IF ok THEN Goes(g, "work", 1) ELSE Tells(g, "error"))
      BY <2>3 DEF BeginBlock
    <3>2. r.verb = "BEGIN" /\ at[g] = "begin" /\ g \in batches
      BY <2>3 DEF Request, BeginBlock, IInv, Staged
    <3> HIDE DEF r
    <3>3. Executes(r, ok) /\ UNCHANGED <<batches, transport, late>>
      BY <1>2, <2>1, <3>1, MainAwaits
    <3>4. Begin(ok)
      BY <3>2, <3>3 DEF Executes
    <3>5. CASE ok
      <4>1. at'[g] = "work" /\ g \in Openers'
        BY <3>1, <3>2, <3>3, <3>5 DEF Goes, IInv, TypeOK, Openers
      <4> QED
        BY <2>1, <3>3, <4>1 DEF OpenInv, NothingLeftOpen
    <3>6. CASE ~ok
      <4>1. g \notin Openers /\ block' = block
        BY <3>2, <3>4, <3>6 DEF Begin, Openers
      <4> QED
        BY <2>1, <2>2, <3>3, <4>1, OpenTurn
    <3> QED
      BY <3>5, <3>6
  <2>4. CASE RunStatement(g)
    <3> DEFINE w == <<g, k[g], 1>>
               r == Request("STATEMENT", w)
    <3>1. PICK ok \in BOOLEAN :
        /\ Awaits(g, r, ok)
        /\ IF ok THEN IF k[g] < Length(g) THEN Goes(g, "work", k[g] + 1)
                      ELSE IF g \in batches THEN Goes(g, "commit", k[g]) ELSE Tells(g, "ok")
                 ELSE IF g \in batches THEN Goes(g, "rollback", k[g]) ELSE Tells(g, "error")
      BY <2>4 DEF RunStatement
    <3>2. r.verb = "STATEMENT" /\ r.write = w /\ at[g] = "work"
      BY <2>4 DEF Request, RunStatement
    <3> HIDE DEF r
    <3>3. Executes(r, ok) /\ UNCHANGED <<batches, transport, late>>
      BY <1>2, <2>1, <3>1, MainAwaits
    <3>4. Statement(w, ok)
      BY <3>2, <3>3 DEF Executes
    <3>5. CASE g \in batches
      <4>1. Length(g) \in Nat /\ k[g] \in 1..Length(g) /\ at \in [Flows -> Stages]
        BY <3>2, StatementsAssumption DEF Length, IInv, Staged, TypeOK
      <4>2. at'[g] \in Inside
        BY <3>1, <3>5, <4>1 DEF Goes
      <4>3. g \in Openers'
        BY <3>3, <3>5, <4>2 DEF Openers
      <4> QED
        BY <2>1, <3>3, <4>3 DEF OpenInv, NothingLeftOpen
    <3>6. CASE g \notin batches
      <4>1. g \notin Openers /\ (block' # "idle" => block # "idle")
        BY <3>4, <3>6 DEF Statement, Openers
      <4> QED
        BY <2>1, <2>2, <3>3, <4>1, OpenTurn
    <3> QED
      BY <3>5, <3>6
  <2>5. CASE CommitBlock(g) \/ RollbackBlock(g)
    <3>1. PICK verb \in {"COMMIT", "ROLLBACK"}, ok \in BOOLEAN : Awaits(g, Request(verb, NoWrite), ok)
      BY <2>5 DEF CommitBlock, RollbackBlock
    <3> DEFINE r == Request(verb, NoWrite)
    <3>2. r.verb = verb
      BY DEF Request
    <3> HIDE DEF r
    <3>3. Executes(r, ok) /\ UNCHANGED <<batches, transport, late>>
      BY <1>2, <2>1, <3>1, MainAwaits DEF r
    <3>4. block' = "idle"
      BY <3>2, <3>3 DEF Executes, Commit, Rollback
    <3> QED
      BY <2>1, <3>3, <3>4 DEF OpenInv, NothingLeftOpen
  <2> QED
    BY <2>3, <2>4, <2>5
<1> QED
  BY <1>1, <1>2 DEF IInv, TypeOK, EngineTypeOK

LEMMA OpenNext ==
  ASSUME IInv, IInv', OpenInv, [Next]_vars
  PROVE  OpenInv'
<1>0. at \in [Flows -> Stages] /\ batches \subseteq Flows
  BY DEF IInv, TypeOK, EngineTypeOK
<1>1. CASE Acquiring
  <2>1. UNCHANGED <<batches, transport, block, at>> /\ (transport = "main" => late' = late)
    BY <1>1, AcquiringQuietly DEF calls
  <2> QED
    BY <2>1, OpenStands
<1>2. ASSUME NEW g \in Flows, Deadline(g) \/ Enter(g) \/ Served(g) \/ Unheard(g)
      PROVE  OpenInv'
  <2>1. /\ at[g] \in {"route", "sent"}
        /\ UNCHANGED <<batches, transport, block, late>>
    BY <1>2 DEF Deadline, Enter, Served, Unheard, engine
  <2>2. \A f \in Flows \ {g} : at'[f] = at[f]
    <3>1. \A stage, n : Goes(g, stage, n) => \A f \in Flows \ {g} : at'[f] = at[f]
      BY <1>0 DEF Goes
    <3>2. \A what : Tells(g, what) => \A f \in Flows \ {g} : at'[f] = at[f]
      BY <1>0 DEF Tells
    <3> QED
      BY <1>2, <3>1, <3>2 DEF Deadline, Enter, Served, Unheard
  <2>3. g \notin Openers
    BY <2>1 DEF Openers, Inside
  <2> QED
    BY <1>0, <2>1, <2>2, <2>3, OpenTurn
<1>3. CASE \E f \in Flows : BeginBlock(f) \/ RunStatement(f) \/ CommitBlock(f) \/ RollbackBlock(f)
  BY <1>3, SessionKeepsOpen
<1>4. CASE LateAnswer
  <2>1. late # <<>> /\ transport' = transport
    BY <1>4 DEF LateAnswer, AnswersLate
  <2>2. transport' # "main"
    BY <2>1 DEF OpenInv
  <2> QED
    BY <2>2 DEF OpenInv, NothingLeftOpen
<1>5. CASE \E r \in flying : Lands(r)
  BY <1>5, OpenStands DEF Lands
<1>6. CASE Picks
  BY <1>6, OpenStands DEF Picks, Choose, TestLocal, engine
<1>7. CASE Reload \/ Onboards
  BY <1>7 DEF Reload, Onboards, Reloads, EngineReload, OpenInv, NothingLeftOpen
<1>8. CASE UNCHANGED vars
  BY <1>8, OpenStands DEF vars, engine, calls
<1> QED
  BY <1>1, <1>2, <1>3, <1>4, <1>5, <1>6, <1>7, <1>8 DEF Next

(* On the calling thread the session is never left in a block that no      *)
(* transaction will end, whatever fails (transaction() of pgliteAdapter).  *)
THEOREM NothingIsLeftOpen ==
  Spec => []NothingLeftOpen
<1>1. Init => OpenInv
  BY DEF Init, EngineInit, OpenInv, NothingLeftOpen
<1>2. IInv /\ IInv' /\ OpenInv /\ [Next]_vars => OpenInv'
  BY OpenNext
<1>3. OpenInv => NothingLeftOpen
  BY DEF OpenInv
<1> QED
  BY Always, <1>1, <1>2, <1>3, PTL DEF Spec
=============================================================================
