----------------------------- MODULE ChatProofs -----------------------------
(***************************************************************************)
(* For any number of lanes, calls, turns and mishaps: a write takes effect *)
(* only as the user approved it, a call that waits can be answered, a lane *)
(* writes into its own conversation, and a request is whole.               *)
(***************************************************************************)
EXTENDS Chat, TLAPS, FiniteSetTheorems, SequenceTheorems, WellFoundedInduction

(* A lane that has calls whose writes may still be made.                   *)
Holding == {"reading", "vetting", "checking", "executing"}
Holds(l, c) == lane[l].at \in Holding /\ c \in lane[l].calls

(* A call is in one pair of hands, and takes effect once.                  *)
CallInv ==
  \A c \in Calls :
    /\ c \in pending \/ (\E l \in Lanes : Holds(l, c)) => effects[c] = <<>> /\ card[c] \notin {"new", "rejected"}
    /\ c \in pending => \A l \in Lanes : ~Holds(l, c)
    /\ \A l, m \in Lanes : Holds(l, c) /\ Holds(m, c) => l = m
    /\ card[c] \in {"new", "rejected"} => effects[c] = <<>>
    /\ Len(effects[c]) <= 1

CardInv == "replaced" \notin mishaps => \A c \in pending : card[c] = "pending"

LaneInv == busy => Live # {}

(* Where a lane will go on, it is in the conversation on the screen.       *)
Untouched == {"switched", "replaced"} \cap mishaps = {}
GoesOn(l) == lane[l].at \in Unguarded \/ (lane[l].at # "idle" /\ Fresh(l))

ConvInv ==
  /\ scoped \in {0, conv.of}
  /\ \A l \in Lanes : lane[l].epoch <= epoch
  /\ Untouched =>
       /\ scoped = 0 => pending = {} /\ Live = {} /\ history = <<>>
       /\ \A l \in Lanes : GoesOn(l) => lane[l].conv = conv
       /\ \A i \in 1..Len(history) : history[i].of = conv
       /\ \A c \in pending : offered[c] = conv.of
       /\ \A l \in Lanes : lane[l].at = "checking" =>
            conv.of = company /\ \A c \in lane[l].calls : offered[c] = company
       /\ \A l \in Lanes : lane[l].at = "executing" => \A c \in lane[l].calls : offered[c] = lane[l].into
       /\ \A c \in Calls : effects[c] # <<>> => effects[c][1] = offered[c]

(* Without mishaps one lane is at work.                                    *)
AloneInv ==
  mishaps = {} =>
    /\ \A l, m \in Live : l = m
    /\ \A l \in Live : busy /\ Fresh(l)

(* Only the calls of S are still without an answer in h, and D has all the *)
(* calls that were made.                                                   *)
Whole(h, S, D) ==
  /\ h # <<>> => h[1].kind = "system"
  /\ \A i \in 1..Len(h) :
       /\ h[i].kind # "stray" /\ h[i].answered \subseteq h[i].calls
       /\ h[i].calls # {} => h[i].kind = "calls"
       /\ h[i].calls \subseteq D /\ h[i].calls \ h[i].answered \subseteq S
       /\ \A j \in 1..Len(h) : i # j => h[i].calls \cap h[j].calls = {}

(* What is not answered yet is in the hands of the lane, or waits for the  *)
(* user; a lane asks when there is no such call.                           *)
Asks == {"preamble", "asking", "pausing"}
Busied == Holding \cup {"running"}
Busying(a, C) == IF a \in Busied THEN C ELSE {}

Fine(a, C, p, h, D) ==
  /\ Whole(h, p \cup Busying(a, C), D)
  /\ \A c \in p : Partners(h, {c}) # {}
  /\ a \in Asks \cup {"reading", "vetting"} => p = {}
  /\ a \in Asks \ {"preamble"} => h # <<>>
  /\ a \in Busied => C # {} /\ Partners(h, C) # {}
  /\ a = "reading" => Last(h).kind = "calls" /\ Last(h).calls = C

Used == {c \in Calls : card[c] # "new"}

WholeInv ==
  mishaps = {} =>
    /\ \A l \in Live : Fine(lane[l].at, lane[l].calls, pending, history, Used)
    /\ Live = {} => Fine("idle", {}, pending, history, Used)

(* What has succeeded in the conversation is in the ledger.                *)
LedgerInv ==
  /\ conv.of <= company
  /\ \A l \in Lanes : lane[l].conv.of <= conv.of
  /\ \A c \in Calls : offered[c] <= conv.of
  /\ mishaps = {} =>
       /\ \A c \in Calls : card[c] = "success" /\ offered[c] = conv.of => Key[c] \in done
       /\ \A l \in Lanes : lane[l].at = "vetting" => \A c \in lane[l].calls : Key[c] \notin done

-----------------------------------------------------------------------------
(* Conversations. *)

Turns == [kind : Kinds, calls : SUBSET Calls, answered : SUBSET Calls, of : Conversations]

AllOf(h, v) == \A i \in 1..Len(h) : h[i].of = v

LEMMA TurnIsTurn ==
  ASSUME NEW kind \in Kinds, NEW v \in Conversations
  PROVE  /\ Turn(kind, v) \in Turns
         /\ Turn(kind, v).kind = kind /\ Turn(kind, v).of = v
         /\ Turn(kind, v).calls = {} /\ Turn(kind, v).answered = {}
BY DEF Turn, Turns

LEMMA CallsTurnIsTurn ==
  ASSUME NEW C \in SUBSET Calls, NEW v \in Conversations
  PROVE  /\ CallsTurn(C, v) \in Turns
         /\ CallsTurn(C, v).kind = "calls" /\ CallsTurn(C, v).of = v
         /\ CallsTurn(C, v).calls = C /\ CallsTurn(C, v).answered = {}
BY DEF CallsTurn, Turn, Turns, Kinds

LEMMA StrayIsTurn ==
  ASSUME NEW C \in SUBSET Calls, NEW v \in Conversations
  PROVE  Stray(C, v) \in Turns /\ Stray(C, v).of = v
BY DEF Stray, Turn, Turns, Kinds

LEMMA AppendTurn ==
  ASSUME NEW h \in Seq(Turns), NEW t \in Turns
  PROVE  /\ Append(h, t) \in Seq(Turns) /\ Append(h, t) # <<>>
         /\ Len(Append(h, t)) = Len(h) + 1 /\ Len(h) \in Nat
         /\ \A i \in 1..Len(h) : Append(h, t)[i] = h[i]
         /\ Append(h, t)[Len(h) + 1] = t
         /\ \A v : AllOf(h, v) /\ t.of = v => AllOf(Append(h, t), v)
<1>1. /\ Append(h, t) \in Seq(Turns) /\ Append(h, t) # <<>>
      /\ Len(Append(h, t)) = Len(h) + 1 /\ Len(h) \in Nat
      /\ \A i \in 1..Len(h) : Append(h, t)[i] = h[i]
      /\ Append(h, t)[Len(h) + 1] = t
  BY AppendProperties, LenProperties
<1>2. ASSUME NEW v, AllOf(h, v), t.of = v
      PROVE  AllOf(Append(h, t), v)
  <2> SUFFICES ASSUME NEW i \in 1..Len(Append(h, t)) PROVE Append(h, t)[i].of = v
    BY DEF AllOf
  <2>1. CASE i \in 1..Len(h)
    BY <1>1, <1>2, <2>1 DEF AllOf
  <2>2. CASE i = Len(h) + 1
    BY <1>1, <1>2, <2>2
  <2> QED
    BY <1>1, <2>1, <2>2
<1> QED
  BY <1>1, <1>2

(* What an answer makes of a turn whose calls it answers.                  *)
Answered(t, C) == [t EXCEPT !.answered = @ \cup C]

LEMMA AnsweredIsTurn ==
  ASSUME NEW t \in Turns, NEW C \in SUBSET Calls
  PROVE  /\ Answered(t, C) \in Turns
         /\ Answered(t, C).kind = t.kind /\ Answered(t, C).of = t.of
         /\ Answered(t, C).calls = t.calls /\ Answered(t, C).answered = t.answered \cup C
BY DEF Answered, Turns

LEMMA AnswerAtTailTyped ==
  ASSUME NEW h \in Seq(Turns), NEW C \in SUBSET Calls, NEW v \in Conversations
  PROVE  /\ AnswerAtTail(h, C, v) \in Seq(Turns)
         /\ AllOf(h, v) => AllOf(AnswerAtTail(h, C, v), v)
<1>1. Len(h) \in Nat /\ (h # <<>> => Len(h) \in 1..Len(h))
  BY EmptySeq, LenProperties
<1>2. CASE C # {} /\ h # <<>> /\ Last(h).kind = "calls" /\ C \subseteq Last(h).calls
  <2> DEFINE t == Answered(h[Len(h)], C)
  <2>1. h[Len(h)] \in Turns
    BY <1>1, <1>2, ElementOfSeq
  <2>2. t \in Turns /\ t.of = h[Len(h)].of
    BY <2>1, AnsweredIsTurn
  <2>3. AnswerAtTail(h, C, v) = [h EXCEPT ![Len(h)] = t]
    BY <1>2 DEF AnswerAtTail, Answered
  <2> HIDE DEF t
  <2>4. /\ [h EXCEPT ![Len(h)] = t] \in Seq(Turns)
        /\ Len([h EXCEPT ![Len(h)] = t]) = Len(h)
        /\ \A j \in 1..Len(h) : [h EXCEPT ![Len(h)] = t][j] = IF j = Len(h) THEN t ELSE h[j]
    BY <1>1, <1>2, <2>2, ExceptSeq
  <2>5. \A j \in 1..Len(h) : [h EXCEPT ![Len(h)] = t][j].of = h[j].of
    BY <2>2, <2>4
  <2> QED
    BY <2>3, <2>4, <2>5 DEF AllOf
<1>3. CASE ~(C # {} /\ h # <<>> /\ Last(h).kind = "calls" /\ C \subseteq Last(h).calls)
  <2>1. AnswerAtTail(h, C, v) = h \/ AnswerAtTail(h, C, v) = Append(h, Stray(C, v))
    BY <1>3 DEF AnswerAtTail
  <2> QED
    BY <2>1, StrayIsTurn, AppendTurn
<1> QED
  BY <1>2, <1>3

LEMMA AnswerAtPartner ==
  ASSUME NEW h \in Seq(Turns), NEW C \in SUBSET Calls, NEW v, C # {}, Partners(h, C) # {}
  PROVE  /\ Answer(h, C, v) \in Seq(Turns) /\ Len(Answer(h, C, v)) = Len(h) /\ Len(h) \in Nat
         /\ \A i \in 1..Len(h) :
              Answer(h, C, v)[i] = IF i \in Partners(h, C) THEN Answered(h[i], C) ELSE h[i]
<1> DEFINE g == [i \in 1..Len(h) |-> IF i \in Partners(h, C) THEN Answered(h[i], C) ELSE h[i]]
<1>1. Len(h) \in Nat
  BY LenProperties
<1>2. g \in [1..Len(h) -> Turns]
  BY ElementOfSeq, AnsweredIsTurn
<1>3. g \in Seq(Turns)
  BY <1>1, <1>2, SeqDef
<1>4. Len(g) = Len(h)
  <2>1. DOMAIN g = 1..Len(g) /\ Len(g) \in Nat
    BY <1>3, LenProperties
  <2>2. DOMAIN g = 1..Len(h)
    OBVIOUS
  <2> HIDE DEF g
  <2> QED
    BY <1>1, <2>1, <2>2
<1>5. Answer(h, C, v) = g
  BY DEF Answer, Answered
<1> QED
  BY <1>1, <1>3, <1>4, <1>5

LEMMA AnswerTyped ==
  ASSUME NEW h \in Seq(Turns), NEW C \in SUBSET Calls, NEW v \in Conversations
  PROVE  /\ Answer(h, C, v) \in Seq(Turns)
         /\ AllOf(h, v) => AllOf(Answer(h, C, v), v)
<1>1. CASE C = {} \/ Partners(h, C) = {}
  BY <1>1, AnswerAtTailTyped DEF Answer
<1>2. CASE ~(C = {} \/ Partners(h, C) = {})
  <2>1. /\ Answer(h, C, v) \in Seq(Turns) /\ Len(Answer(h, C, v)) = Len(h)
        /\ \A i \in 1..Len(h) :
              Answer(h, C, v)[i] = IF i \in Partners(h, C) THEN Answered(h[i], C) ELSE h[i]
    BY <1>2, AnswerAtPartner
  <2>2. \A i \in 1..Len(h) : h[i] \in Turns
    BY ElementOfSeq
  <2>3. \A i \in 1..Len(h) : Answer(h, C, v)[i].of = h[i].of
    BY <2>1, <2>2, AnsweredIsTurn
  <2> QED
    BY <2>1, <2>3 DEF AllOf
<1> QED
  BY <1>1, <1>2

LEMMA WithSystemTyped ==
  ASSUME NEW h \in Seq(Turns), NEW v \in Conversations
  PROVE  /\ WithSystem(h, v) \in Seq(Turns) /\ WithSystem(h, v) # <<>> /\ Len(h) \in Nat
         /\ AllOf(h, v) => AllOf(WithSystem(h, v), v)
         /\ WithSystem(h, v)[1] = Turn("system", v)
         /\ \/ /\ h # <<>> /\ h[1].kind = "system" /\ Len(WithSystem(h, v)) = Len(h)
               /\ \A i \in 2..Len(h) : WithSystem(h, v)[i] = h[i]
            \/ /\ ~(h # <<>> /\ h[1].kind = "system") /\ Len(WithSystem(h, v)) = Len(h) + 1
               /\ \A i \in 1..Len(h) : WithSystem(h, v)[i + 1] = h[i]
<1> DEFINE t == Turn("system", v)
           g == WithSystem(h, v)
<1>1. t \in Turns /\ t.of = v
  BY TurnIsTurn DEF Kinds
<1> HIDE DEF t
<1>2. Len(h) \in Nat /\ (h # <<>> => 1 \in 1..Len(h))
  BY EmptySeq, LenProperties
<1>3. CASE h # <<>> /\ h[1].kind = "system"
  <2>1. g = [h EXCEPT ![1] = t]
    BY <1>3 DEF WithSystem, t
  <2>2. /\ g \in Seq(Turns) /\ Len(g) = Len(h)
        /\ \A j \in 1..Len(h) : g[j] = IF j = 1 THEN t ELSE h[j]
    BY <1>1, <1>2, <1>3, <2>1, ExceptSeq
  <2>3. g # <<>> /\ g[1] = t /\ \A i \in 2..Len(h) : g[i] = h[i]
    BY <1>2, <1>3, <2>2, EmptySeq
  <2>4. AllOf(h, v) => AllOf(g, v)
    BY <1>1, <2>2 DEF AllOf
  <2> HIDE DEF g
  <2> QED
    BY <1>2, <1>3, <2>2, <2>3, <2>4 DEF t, g
<1>4. CASE ~(h # <<>> /\ h[1].kind = "system")
  <2> DEFINE one == <<t>>
  <2>1. g = one \o h
    BY <1>4 DEF WithSystem, t
  <2>2. one \in Seq(Turns) /\ Len(one) = 1 /\ one[1] = t
    BY <1>1
  <2> HIDE DEF one
  <2> HIDE DEF g
  <2>3. /\ g \in Seq(Turns) /\ Len(g) = 1 + Len(h)
        /\ \A i \in 1..(1 + Len(h)) : g[i] = IF i <= 1 THEN one[i] ELSE h[i - 1]
    <3>1. /\ one \o h \in Seq(Turns) /\ Len(one \o h) = Len(one) + Len(h)
          /\ \A i \in 1..(Len(one) + Len(h)) :
               (one \o h)[i] = IF i <= Len(one) THEN one[i] ELSE h[i - Len(one)]
      BY <2>2, ConcatProperties
    <3> QED
      BY <2>1, <2>2, <3>1
  <2>4. g # <<>> /\ g[1] = t /\ \A i \in 1..Len(h) : g[i + 1] = h[i]
    BY <1>2, <2>2, <2>3, EmptySeq
  <2>5. AllOf(h, v) => AllOf(g, v)
    BY <1>1, <1>2, <2>2, <2>3 DEF AllOf
  <2> QED
    BY <1>2, <1>4, <2>3, <2>4, <2>5 DEF t, g
<1> QED
  BY <1>3, <1>4

LEMMA Highest ==
  ASSUME NEW n \in Nat, NEW S, S \subseteq 1..n, S # {}
  PROVE  \E i \in S : \A j \in S : j <= i
<1> DEFINE T == {m \in Nat : m <= n /\ n - m \in S}
           R == OpToRel(<, Nat)
<1>1. PICK s \in S : s \in 1..n
  OBVIOUS
<1>2. n - s \in T
  BY <1>1
<1>3. T \subseteq Nat
  OBVIOUS
<1>4. IsWellFoundedOn(R, Nat)
  BY NatLessThanWellFounded
<1>5. \A x, y \in Nat : x < y => <<x, y>> \in R
  BY DEF OpToRel
<1> HIDE DEF R
<1>6. PICK x \in T : \A y \in T : ~(<<y, x>> \in R)
  <2> HIDE DEF T
  <2>1. T # {}
    BY <1>2
  <2> QED
    BY <1>3, <1>4, <2>1, WFMin, Zenon
<1>7. ASSUME NEW j \in S
      PROVE  j <= n - x
  <2>1. n - j \in T /\ j \in 1..n
    BY <1>7
  <2>2. x \in Nat /\ n - j \in Nat
    BY <2>1
  <2>3. ~(<<n - j, x>> \in R)
    BY <1>6, <2>1
  <2>4. ~(n - j < x)
    BY <1>5, <2>2, <2>3
  <2> QED
    BY <2>1, <2>2, <2>4
<1>8. n - x \in S
  OBVIOUS
<1> QED
  BY <1>7, <1>8

LEMMA BeforeLastUserIsPrefix ==
  ASSUME NEW h \in Seq(Turns), UserTurns(h) # {}
  PROVE  \E cut \in UserTurns(h) :
           /\ BeforeLastUser(h) \in Seq(Turns) /\ Len(BeforeLastUser(h)) = cut - 1
           /\ cut \in 1..Len(h) /\ Len(h) \in Nat
           /\ \A i \in 1..(cut - 1) : BeforeLastUser(h)[i] = h[i]
<1> DEFINE cut == CHOOSE i \in UserTurns(h) : \A j \in UserTurns(h) : j <= i
           g == SubSeq(h, 1, cut - 1)
<1>1. Len(h) \in Nat /\ UserTurns(h) \subseteq 1..Len(h)
  BY LenProperties DEF UserTurns
<1>2. \E i \in UserTurns(h) : \A j \in UserTurns(h) : j <= i
  BY <1>1, Highest
<1>3. cut \in UserTurns(h)
  BY <1>2
<1>4. BeforeLastUser(h) = g
  BY DEF BeforeLastUser
<1> HIDE DEF cut
<1>5. cut \in 1..Len(h) /\ cut - 1 \in Int /\ \A i \in 1..(cut - 1) : h[i] \in Turns
  BY <1>1, <1>3, ElementOfSeq
<1>6. /\ g \in Seq(Turns) /\ Len(g) = IF 1 <= cut - 1 THEN (cut - 1) - 1 + 1 ELSE 0
      /\ \A i \in 1..(cut - 1) - 1 + 1 : g[i] = h[1 + i - 1]
  BY <1>5, SubSeqProperties
<1> HIDE DEF g
<1> QED
  BY <1>1, <1>3, <1>4, <1>5, <1>6

-----------------------------------------------------------------------------
(* Lanes. *)

Records == [at : Waiting \cup {"idle"}, epoch : Nat, conv : Conversations,
            calls : SUBSET Calls, into : Companies, retried : BOOLEAN]

(* What is put before the guard are writes.                                *)
Written == \A l \in Lanes : lane[l].at = "vetting" => lane[l].calls \cap Reads = {}

(* The company changes with a mishap only.                                 *)
TypeIInv == TypeOK /\ Written /\ company <= spent + 1 /\ spent <= MaxMishaps

(* Where lane l is after a step.                                           *)
To(l, a, e, v, C) ==
  /\ lane' \in [Lanes -> Records]
  /\ lane'[l].at = a /\ lane'[l].epoch = e /\ lane'[l].conv = v /\ lane'[l].calls = C
  /\ \A m \in Lanes \ {l} : lane'[m] = lane[m]

Halts(l) == To(l, "idle", 0, Idle.conv, {}) /\ busy' = FALSE

LoopsOn(l, e, v, C, shown) ==
  /\ iteration' \in Int /\ iteration' <= MaxIterations /\ abort' \in BOOLEAN
  /\ Halts(l) \/ (To(l, "asking", e, v, C) /\ busy' = shown)

LEMMA IdleIsRecord ==
  /\ Idle \in Records /\ Idle.at = "idle" /\ Idle.epoch = 0 /\ Idle.calls = {} /\ Idle.conv \in Conversations
  /\ Idle.conv.of = 0
BY ChatAssumption DEF Idle, Records, Conversations, Companies

LEMMA LaneTo ==
  ASSUME TypeOK, NEW l \in Lanes, NEW r \in Records, lane' = [lane EXCEPT ![l] = r]
  PROVE  To(l, r.at, r.epoch, r.conv, r.calls) /\ lane'[l] = r
<1>1. lane \in [Lanes -> Records]
  BY DEF TypeOK, Records
<1> QED
  BY <1>1 DEF To

LEMMA EndsTo ==
  ASSUME TypeOK, NEW l \in Lanes, Ends(l)
  PROVE  Halts(l)
BY LaneTo, IdleIsRecord DEF Ends, Halts

LEMMA LaneIsRecord ==
  ASSUME TypeOK, NEW l \in Lanes
  PROVE  lane[l] \in Records
BY DEF TypeOK, Records

LEMMA LoopsTo ==
  ASSUME TypeOK, NEW l \in Lanes, NEW r \in Records, NEW n \in Int, n <= MaxIterations,
         NEW stop \in BOOLEAN, NEW shown, Loops(l, r, n, stop, shown)
  PROVE  LoopsOn(l, r.epoch, r.conv, r.calls, shown)
<1>0. MaxIterations \in Int /\ abort' \in BOOLEAN
  BY ChatAssumption DEF Loops
<1>1. CASE n >= MaxIterations \/ stop
  <2>1. Ends(l) /\ iteration' = n
    BY <1>1 DEF Loops
  <2> QED
    BY <1>0, <2>1, EndsTo DEF LoopsOn
<1>2. CASE ~(n >= MaxIterations \/ stop)
  <2> DEFINE s == [r EXCEPT !.at = "asking"]
  <2>1. lane' = [lane EXCEPT ![l] = s] /\ iteration' = n + 1 /\ busy' = shown
    BY <1>2 DEF Loops
  <2>2. s \in Records /\ s.at = "asking" /\ s.epoch = r.epoch /\ s.conv = r.conv /\ s.calls = r.calls
    BY DEF Records, Waiting
  <2> HIDE DEF s
  <2>3. To(l, "asking", r.epoch, r.conv, r.calls)
    BY <2>1, <2>2, LaneTo
  <2>4. n + 1 \in Int /\ n + 1 <= MaxIterations
    BY <1>0, <1>2
  <2> QED
    BY <1>0, <2>1, <2>3, <2>4 DEF LoopsOn
<1> QED
  BY <1>1, <1>2

LEMMA EntersTo ==
  ASSUME TypeOK, NEW l \in Lanes, NEW n \in Int, n <= MaxIterations,
         NEW stop \in BOOLEAN, NEW shown, Enters(l, n, stop, shown)
  PROVE  LoopsOn(l, epoch, lane[l].conv, {}, shown)
<1> DEFINE r == [lane[l] EXCEPT !.epoch = epoch, !.calls = {}, !.retried = FALSE]
<1>1. lane[l] \in Records /\ epoch \in Nat
  BY LaneIsRecord DEF TypeOK
<1>2. r \in Records /\ r.epoch = epoch /\ r.conv = lane[l].conv /\ r.calls = {}
  BY <1>1 DEF Records
<1>3. Loops(l, r, n, stop, shown)
  BY DEF Enters
<1> HIDE DEF r
<1> QED
  BY <1>2, <1>3, LoopsTo

LEMMA Entrance ==
  ASSUME TypeOK
  PROVE  0 \in Int /\ 0 <= MaxIterations /\ FALSE \in BOOLEAN /\ abort \in BOOLEAN /\ busy \in BOOLEAN
BY ChatAssumption DEF TypeOK

LEMMA ResumesTo ==
  ASSUME TypeOK, NEW l \in Lanes, NEW shown, Resumes(l, shown)
  PROVE  \/ pending' = {} /\ LoopsOn(l, epoch, lane[l].conv, {}, shown)
         \/ pending' # {} /\ Halts(l) /\ UNCHANGED <<abort, iteration>>
BY EntersTo, EndsTo, Entrance DEF Resumes

LEMMA StartsTo ==
  ASSUME TypeOK, Free # {}, NEW stage \in Waiting, NEW v \in Conversations, NEW C \in SUBSET Calls,
         Starts(Slot, stage, v, C)
  PROVE  Slot \in Lanes /\ lane[Slot].at = "idle" /\ To(Slot, stage, epoch, v, C)
<1>1. Slot \in Lanes /\ lane[Slot].at = "idle"
  BY DEF Slot, Free
<1> DEFINE r == [Idle EXCEPT !.at = stage, !.conv = v, !.calls = C, !.epoch = epoch]
<1>2. epoch \in Nat
  BY DEF TypeOK
<1>3. r \in Records /\ r.at = stage /\ r.epoch = epoch /\ r.conv = v /\ r.calls = C
  BY <1>2, IdleIsRecord DEF Records
<1>4. lane' = [lane EXCEPT ![Slot] = r]
  BY DEF Starts
<1> HIDE DEF r
<1> QED
  BY <1>1, <1>3, <1>4, LaneTo

LEMMA FailsTyped ==
  ASSUME TypeOK, NEW C \in SUBSET Calls, Fails(C)
  PROVE  failures' \in [Keys -> Nat]
<1>1. \A k \in Keys : Cardinality({c \in C : Key[c] = k}) \in Nat
  <2> TAKE k \in Keys
  <2>1. IsFiniteSet({c \in C : Key[c] = k})
    BY ChatAssumption, FS_Subset
  <2> QED
    BY <2>1, FS_CardinalityType
<1> QED
  BY <1>1 DEF Fails, TypeOK

LEMMA ShowsTyped ==
  ASSUME TypeOK, NEW C, NEW status \in Cards, Shows(C, status)
  PROVE  /\ card' \in [Calls -> Cards]
         /\ \A c \in Calls : card'[c] = card[c] \/ (c \in C /\ card[c] # "gone" /\ card'[c] = status)
BY DEF Shows, TypeOK

(* What a reply with writes comes to.                                      *)
TakenUp(l, h, W) ==
  \/ /\ W = {} /\ history' = h /\ pending' = pending
     /\ LoopsOn(l, lane[l].epoch, lane[l].conv, {}, busy)
  \/ /\ W # {} /\ pending' = {} /\ UNCHANGED <<abort, iteration>>
     /\ \E refused \in SUBSET W :
          /\ history' = Answer(h, refused, lane[l].conv)
          /\ \A c \in W \ refused : Key[c] \notin done
          /\ \/ W = refused /\ Halts(l)
             \/ /\ W # refused /\ busy' = busy
                /\ To(l, "vetting", lane[l].epoch, lane[l].conv, W \ refused)

LEMMA TakesUpTo ==
  ASSUME TypeOK, NEW l \in Lanes, NEW h \in Seq(Turns), NEW W \in SUBSET (Calls \ Reads), TakesUp(l, h, W)
  PROVE  TakenUp(l, h, W)
<1> USE DEF TakenUp
<1>1. lane[l] \in Records
  BY LaneIsRecord
<1>2. CASE W = {}
  <2> DEFINE r == [lane[l] EXCEPT !.calls = {}, !.retried = FALSE]
  <2>1. history' = h /\ pending' = pending /\ Loops(l, r, iteration, abort, busy)
    BY <1>2 DEF TakesUp
  <2>2. r \in Records /\ r.epoch = lane[l].epoch /\ r.conv = lane[l].conv /\ r.calls = {}
    BY <1>1 DEF Records
  <2>3. iteration \in Int /\ iteration <= MaxIterations /\ abort \in BOOLEAN
    BY DEF TypeOK
  <2> HIDE DEF r
  <2>4. LoopsOn(l, lane[l].epoch, lane[l].conv, {}, busy)
    BY <2>1, <2>2, <2>3, LoopsTo
  <2> QED
    BY <1>2, <2>1, <2>4
<1>3. CASE W # {}
  <2> DEFINE refused == Exhausted(W) \cup AlreadyDone(W)
             asked == W \ refused
  <2>1. /\ pending' = {} /\ history' = Answer(h, refused, lane[l].conv) /\ UNCHANGED <<abort, iteration>>
        /\ IF asked = {} THEN Ends(l)
           ELSE /\ lane' = [lane EXCEPT ![l].at = "vetting", ![l].calls = asked, ![l].retried = FALSE]
                /\ UNCHANGED busy
    BY <1>3 DEF TakesUp
  <2>2. refused \subseteq W /\ asked \subseteq Calls /\ \A c \in asked : Key[c] \notin done
    BY DEF Exhausted, AlreadyDone
  <2> HIDE DEF refused
  <2>3. CASE asked = {}
    <3>1. Halts(l) /\ W = refused
      BY <2>1, <2>2, <2>3, EndsTo
    <3> QED
      BY <1>3, <2>1, <2>2, <3>1
  <2>4. CASE asked # {}
    <3> DEFINE r == [lane[l] EXCEPT !.at = "vetting", !.calls = asked, !.retried = FALSE]
    <3>1. lane' = [lane EXCEPT ![l] = r] /\ busy' = busy
      BY <2>1, <2>4
    <3>2. r \in Records /\ r.at = "vetting" /\ r.epoch = lane[l].epoch /\ r.conv = lane[l].conv /\ r.calls = asked
      BY <1>1, <2>2 DEF Records, Waiting
    <3> HIDE DEF r
    <3>3. To(l, "vetting", lane[l].epoch, lane[l].conv, W \ refused)
      BY <3>1, <3>2, LaneTo
    <3> QED
      BY <1>3, <2>1, <2>2, <2>4, <3>1, <3>3
  <2> QED
    BY <2>3, <2>4
<1> QED
  BY <1>2, <1>3

-----------------------------------------------------------------------------
(* What each step does. *)

MishapKinds == {"overtaken", "crowded", "switched", "replaced"}

LEMMA BoundsAreNat ==
  /\ WriteRetryLimit \in Nat /\ MaxIterations \in Nat /\ MaxCorrections \in Nat
  /\ MaxSends \in Nat /\ MaxMishaps \in Nat
BY ChatAssumption

LEMMA TypesNow ==
  ASSUME TypeIInv
  PROVE  /\ TypeOK /\ lane \in [Lanes -> Records] /\ Written /\ history \in Seq(Turns)
         /\ busy \in BOOLEAN /\ abort \in BOOLEAN /\ landed \in BOOLEAN /\ loading \in BOOLEAN
         /\ epoch \in Nat /\ corrections \in Nat /\ sends \in Nat
         /\ spent \in Nat /\ spent <= MaxMishaps /\ MaxMishaps \in Nat
         /\ iteration \in Int /\ iteration <= MaxIterations /\ MaxIterations \in Nat
         /\ pending \subseteq Calls \ Reads /\ card \in [Calls -> Cards]
         /\ failures \in [Keys -> Nat] /\ done \subseteq Keys
         /\ company \in Nat /\ company > 0 /\ company <= spent + 1
         /\ scoped \in Companies /\ conv \in Conversations
         /\ offered \in [Calls -> Companies] /\ effects \in [Calls -> Seq(Companies)]
         /\ mishaps \subseteq MishapKinds
<1>1. company \in Companies \ {0}
  BY DEF TypeIInv, TypeOK
<1>2. company \in Nat /\ company > 0
  BY <1>1, BoundsAreNat DEF Companies
<1> QED
  BY <1>2, BoundsAreNat DEF TypeIInv, TypeOK, Records, Turns, MishapKinds

LEMMA TypesNext ==
  ASSUME lane' \in [Lanes -> Records], Written', history' \in Seq(Turns),
         busy' \in BOOLEAN, abort' \in BOOLEAN, landed' \in BOOLEAN, loading' \in BOOLEAN,
         epoch' \in Nat, corrections' \in Nat, sends' \in Nat,
         spent' \in Nat, spent' <= MaxMishaps,
         iteration' \in Int, iteration' <= MaxIterations,
         pending' \subseteq Calls \ Reads, card' \in [Calls -> Cards],
         failures' \in [Keys -> Nat], done' \subseteq Keys,
         company' \in Nat, company' > 0, company' <= spent' + 1,
         scoped' \in Companies, conv' \in Conversations,
         offered' \in [Calls -> Companies], effects' \in [Calls -> Seq(Companies)],
         mishaps' \subseteq MishapKinds
  PROVE  TypeIInv'
<1>1. company' \in Companies \ {0}
  <2>1. \A c, n \in Nat : c > 0 /\ c <= n + 1 /\ n <= MaxMishaps => c \in Companies \ {0}
    BY BoundsAreNat DEF Companies
  <2> QED
    BY <2>1
<1> QED
  BY <1>1 DEF TypeIInv, TypeOK, Records, Turns, MishapKinds

LEMMA ToTyped ==
  ASSUME Written, NEW l \in Lanes, NEW a, NEW e, NEW v, NEW C, To(l, a, e, v, C),
         a = "vetting" => C \cap Reads = {}
  PROVE  lane' \in [Lanes -> Records] /\ Written'
BY DEF To, Written

LEMMA HaltsTyped ==
  ASSUME Written, NEW l \in Lanes, Halts(l)
  PROVE  lane' \in [Lanes -> Records] /\ Written' /\ busy' \in BOOLEAN
BY ToTyped DEF Halts

LEMMA LoopsOnTyped ==
  ASSUME Written, NEW l \in Lanes, NEW e, NEW v, NEW C, NEW shown \in BOOLEAN, LoopsOn(l, e, v, C, shown)
  PROVE  /\ lane' \in [Lanes -> Records] /\ Written' /\ busy' \in BOOLEAN /\ abort' \in BOOLEAN
         /\ iteration' \in Int /\ iteration' <= MaxIterations
BY ToTyped, HaltsTyped DEF LoopsOn

LEMMA AdmitDoes ==
  ASSUME TypeIInv, NEW l \in Lanes, Admit(l)
  PROVE  /\ TypeIInv' /\ lane[l].at = "preamble"
         /\ UNCHANGED <<epoch, pending, card, done, company, scoped, conv, loading, offered, effects, mishaps>>
         /\ \/ history' = WithSystem(history, lane[l].conv) /\ Halts(l)
            \/ /\ history' = Append(WithSystem(history, lane[l].conv), Turn("user", lane[l].conv))
               /\ LoopsOn(l, epoch, lane[l].conv, {}, busy)
<1> USE DEF scope, facts
<1>1. lane[l] \in Records /\ lane[l].conv \in Conversations
  BY TypesNow, LaneIsRecord DEF Records
<1>2. WithSystem(history, lane[l].conv) \in Seq(Turns)
  BY <1>1, TypesNow, WithSystemTyped
<1>3. Append(WithSystem(history, lane[l].conv), Turn("user", lane[l].conv)) \in Seq(Turns)
  BY <1>1, <1>2, TurnIsTurn, AppendTurn DEF Kinds
<1>4. NoFailures \in [Keys -> Nat]
  BY DEF NoFailures
<1>5. CASE /\ history' = WithSystem(history, lane[l].conv) /\ Ends(l)
           /\ UNCHANGED <<abort, iteration, corrections, failures, landed>>
  <2>1. Halts(l)
    BY <1>5, TypesNow, EndsTo
  <2>2. TypeIInv'
    BY <1>2, <1>5, <2>1, TypesNow, TypesNext, HaltsTyped DEF Admit
  <2> QED
    BY <1>5, <2>1, <2>2 DEF Admit
<1>6. CASE /\ history' = Append(WithSystem(history, lane[l].conv), Turn("user", lane[l].conv))
           /\ corrections' = 0 /\ landed' = FALSE /\ failures' = NoFailures
           /\ Enters(l, 0, FALSE, busy)
  <2>1. LoopsOn(l, epoch, lane[l].conv, {}, busy)
    BY <1>6, TypesNow, Entrance, EntersTo
  <2>2. /\ lane' \in [Lanes -> Records] /\ Written' /\ busy' \in BOOLEAN /\ abort' \in BOOLEAN
        /\ iteration' \in Int /\ iteration' <= MaxIterations
    BY <2>1, TypesNow, LoopsOnTyped
  <2>3. UNCHANGED <<epoch, pending, card, done, scope, facts, sends, spent>>
    BY DEF Admit
  <2>4. TypeIInv'
    BY <1>3, <1>4, <1>6, <2>2, <2>3, TypesNow, TypesNext
  <2> QED
    BY <1>6, <2>1, <2>3, <2>4 DEF Admit
<1> QED
  BY <1>5, <1>6 DEF Admit

(* The steps that leave everything but the lane.                           *)
Quiet(l) == Stopped(l) \/ Orphan(l) \/ Error(l) \/ AskAgain(l)

LEMMA QuietDoes ==
  ASSUME TypeIInv, NEW l \in Lanes, Quiet(l)
  PROVE  /\ TypeIInv' /\ lane[l].at \in {"asking", "pausing", "reading"}
         /\ UNCHANGED <<epoch, history, pending, card, done, company, scoped, conv, loading>>
         /\ UNCHANGED <<offered, effects, mishaps>>
         /\ \/ Halts(l) /\ (lane[l].at # "reading" \/ ~Fresh(l))
            \/ /\ Fresh(l) /\ lane[l].at \in {"asking", "pausing"} /\ busy' = busy
               /\ To(l, "pausing", lane[l].epoch, lane[l].conv, lane[l].calls)
                  \/ To(l, "asking", lane[l].epoch, lane[l].conv, lane[l].calls)
<1> USE DEF scope, facts, talk
<1>0. TypeOK
  BY DEF TypeIInv
<1>1. lane[l] \in Records
  BY <1>0, LaneIsRecord
<1>2. CASE (Stopped(l) \/ Orphan(l) \/ Error(l)) /\ Ends(l)
  <2>1. Halts(l)
    BY <1>2, TypesNow, EndsTo
  <2>2. abort' \in BOOLEAN
    BY <1>2, TypesNow DEF Stopped, Orphan, Error
  <2>3. /\ UNCHANGED <<epoch, iteration, corrections, talk, scope, facts, sends, spent>>
    BY <1>2 DEF Stopped, Orphan, Error
  <2>4. TypeIInv'
    BY <2>1, <2>2, <2>3, TypesNow, TypesNext, HaltsTyped
  <2> QED
    BY <1>2, <2>1, <2>3, <2>4 DEF Stopped, Orphan, Error, Replied
<1>3. CASE Error(l) /\ ~Ends(l)
  <2> DEFINE r == [lane[l] EXCEPT !.at = "pausing", !.retried = TRUE]
  <2>1. /\ lane' = [lane EXCEPT ![l] = r] /\ Fresh(l) /\ lane[l].at = "asking"
        /\ UNCHANGED <<busy, abort, epoch, iteration, corrections, talk, scope, facts, sends, spent>>
    BY <1>3 DEF Error, Replied
  <2>2. r \in Records /\ r.at = "pausing" /\ r.epoch = lane[l].epoch /\ r.conv = lane[l].conv /\ r.calls = lane[l].calls
    BY <1>1 DEF Records, Waiting
  <2> HIDE DEF r
  <2>3. To(l, "pausing", lane[l].epoch, lane[l].conv, lane[l].calls)
    BY <1>0, <2>1, <2>2, LaneTo
  <2>4. TypeIInv'
    BY <2>1, <2>3, TypesNow, TypesNext, ToTyped
  <2> QED
    BY <2>1, <2>3, <2>4
<1>4. CASE AskAgain(l)
  <2>1. /\ lane[l].at = "pausing" /\ Fresh(l) /\ Loops(l, lane[l], iteration - 1, abort, busy)
        /\ UNCHANGED <<epoch, corrections, talk, scope, facts, sends, spent>>
    BY <1>4 DEF AskAgain
  <2>2. iteration - 1 \in Int /\ iteration - 1 <= MaxIterations /\ abort \in BOOLEAN
    BY TypesNow
  <2>3. LoopsOn(l, lane[l].epoch, lane[l].conv, lane[l].calls, busy)
    BY <1>1, <2>1, <2>2, TypesNow, LoopsTo
  <2>4. TypeIInv'
    BY <2>1, <2>3, TypesNow, TypesNext, LoopsOnTyped
  <2> QED
    BY <2>1, <2>3, <2>4 DEF LoopsOn
<1> QED
  BY <1>2, <1>3, <1>4 DEF Quiet, Stopped, Orphan

LEMMA TextDoes ==
  ASSUME TypeIInv, NEW l \in Lanes, Text(l)
  PROVE  /\ TypeIInv' /\ lane[l].at = "asking" /\ Fresh(l)
         /\ UNCHANGED <<epoch, pending, card, done, company, scoped, conv, loading, offered, effects, mishaps>>
         /\ LET said == Append(history, Turn("text", lane[l].conv)) IN
            \/ history' = said /\ Halts(l)
            \/ history' = Append(said, Turn("user", lane[l].conv)) /\ LoopsOn(l, epoch, lane[l].conv, {}, busy)
<1> USE DEF scope, facts
<1> DEFINE said == Append(history, Turn("text", lane[l].conv))
           asked == Append(said, Turn("user", lane[l].conv))
<1>1. lane[l] \in Records /\ lane[l].conv \in Conversations
  BY TypesNow, LaneIsRecord DEF Records
<1>2. said \in Seq(Turns)
  BY <1>1, TypesNow, TurnIsTurn, AppendTurn DEF Kinds
<1>3. asked \in Seq(Turns)
  BY <1>1, <1>2, TurnIsTurn, AppendTurn DEF Kinds
<1>4. CASE /\ history' = said /\ Ends(l)
           /\ corrections' \in {corrections, corrections + 1} /\ UNCHANGED <<abort, iteration, sends>>
  <2>1. Halts(l)
    BY <1>4, TypesNow, EndsTo
  <2>2. corrections' \in Nat /\ UNCHANGED <<epoch, pending, card, failures, done, landed, scope, facts, spent>>
    BY <1>4, TypesNow DEF Text
  <2>3. lane' \in [Lanes -> Records] /\ Written' /\ busy' \in BOOLEAN
    BY <2>1, TypesNow, HaltsTyped
  <2>4. TypeIInv'
    BY <1>2, <1>4, <2>2, <2>3, TypesNow, TypesNext
  <2> QED
    BY <1>4, <2>1, <2>4 DEF Text, Replied
<1>5. CASE /\ corrections' = corrections + 1 /\ sends' = sends + 1
           /\ history' = asked /\ Enters(l, iteration, abort, busy)
  <2>1. LoopsOn(l, epoch, lane[l].conv, {}, busy)
    BY <1>5, TypesNow, EntersTo
  <2>2. /\ history' \in Seq(Turns) /\ corrections' \in Nat /\ sends' \in Nat
        /\ UNCHANGED <<epoch, pending, card, failures, done, landed, scope, facts, spent>>
    BY <1>3, <1>5, TypesNow DEF Text
  <2>3. /\ lane' \in [Lanes -> Records] /\ Written' /\ busy' \in BOOLEAN /\ abort' \in BOOLEAN
        /\ iteration' \in Int /\ iteration' <= MaxIterations
    BY <2>1, TypesNow, LoopsOnTyped
  <2>4. TypeIInv'
    BY <2>2, <2>3, TypesNow, TypesNext
  <2> QED
    BY <1>5, <2>1, <2>4 DEF Text, Replied
<1> QED
  BY <1>4, <1>5 DEF Text

LEMMA TakenUpTyped ==
  ASSUME TypeIInv, NEW l \in Lanes, NEW h \in Seq(Turns), NEW W \in SUBSET (Calls \ Reads), TakenUp(l, h, W)
  PROVE  /\ lane' \in [Lanes -> Records] /\ Written' /\ history' \in Seq(Turns)
         /\ busy' \in BOOLEAN /\ abort' \in BOOLEAN
         /\ iteration' \in Int /\ iteration' <= MaxIterations /\ pending' \subseteq Calls \ Reads
<1>0. lane[l] \in Records /\ lane[l].conv \in Conversations
  BY TypesNow, LaneIsRecord DEF Records
<1>1. CASE /\ W = {} /\ history' = h /\ pending' = pending
           /\ LoopsOn(l, lane[l].epoch, lane[l].conv, {}, busy)
  BY <1>1, TypesNow, LoopsOnTyped
<1>2. CASE /\ W # {} /\ pending' = {} /\ UNCHANGED <<abort, iteration>>
           /\ \E refused \in SUBSET W :
                /\ history' = Answer(h, refused, lane[l].conv)
                /\ \A c \in W \ refused : Key[c] \notin done
                /\ \/ W = refused /\ Halts(l)
                   \/ /\ W # refused /\ busy' = busy
                      /\ To(l, "vetting", lane[l].epoch, lane[l].conv, W \ refused)
  <2>1. PICK refused \in SUBSET W :
                /\ history' = Answer(h, refused, lane[l].conv)
                /\ \/ W = refused /\ Halts(l)
                   \/ /\ W # refused /\ busy' = busy
                      /\ To(l, "vetting", lane[l].epoch, lane[l].conv, W \ refused)
    BY <1>2
  <2>2. history' \in Seq(Turns)
    <3>1. refused \in SUBSET Calls
      OBVIOUS
    <3> QED
      BY <1>0, <2>1, <3>1, AnswerTyped
  <2>3. (W \ refused) \cap Reads = {}
    OBVIOUS
  <2>4. lane' \in [Lanes -> Records] /\ Written' /\ busy' \in BOOLEAN
    BY <2>1, <2>3, TypesNow, ToTyped, HaltsTyped
  <2> QED
    BY <1>2, <2>2, <2>4, TypesNow
<1> QED
  BY <1>1, <1>2 DEF TakenUp

LEMMA CallDoes ==
  ASSUME TypeIInv, NEW l \in Lanes, Call(l)
  PROVE  /\ TypeIInv' /\ lane[l].at = "asking" /\ Fresh(l)
         /\ UNCHANGED <<epoch, done, company, scoped, conv, loading, offered, effects, mishaps>>
         /\ \E C \in SUBSET Calls :
              /\ C # {} /\ \A c \in C : card[c] = "new"
              /\ \A c \in Calls : card'[c] = IF c \in C THEN "called" ELSE card[c]
              /\ \/ C \cap Reads = {} /\ TakenUp(l, Append(history, CallsTurn(C, lane[l].conv)), C)
                 \/ /\ history' = Append(history, CallsTurn(C, lane[l].conv))
                    /\ To(l, "reading", lane[l].epoch, lane[l].conv, C) /\ UNCHANGED <<busy, pending>>
<1> USE DEF scope, facts
<1>1. lane[l] \in Records /\ lane[l].conv \in Conversations
  BY TypesNow, LaneIsRecord DEF Records
<1>2. PICK C \in SUBSET Calls :
       /\ C # {} /\ \A c \in C : card[c] = "new"
       /\ card' = [c \in Calls |-> IF c \in C THEN "called" ELSE card[c]]
       /\ IF C \cap Reads = {} THEN TakesUp(l, Append(history, CallsTurn(C, lane[l].conv)), C)
          ELSE /\ history' = Append(history, CallsTurn(C, lane[l].conv))
               /\ lane' = [lane EXCEPT ![l].at = "reading", ![l].calls = C, ![l].retried = FALSE]
               /\ UNCHANGED <<busy, abort, iteration, pending>>
  BY DEF Call
<1> DEFINE h == Append(history, CallsTurn(C, lane[l].conv))
<1>3. h \in Seq(Turns)
  BY <1>1, TypesNow, CallsTurnIsTurn, AppendTurn
<1>4. UNCHANGED <<epoch, corrections, failures, done, landed, scope, facts, sends, spent>>
  BY DEF Call
<1>5. card' \in [Calls -> Cards] /\ \A c \in Calls : card'[c] = IF c \in C THEN "called" ELSE card[c]
  BY <1>2, TypesNow DEF Cards
<1>6. lane[l].at = "asking" /\ Fresh(l)
  BY DEF Call, Replied
<1>7. CASE C \cap Reads = {}
  <2>1. TakesUp(l, h, C) /\ C \in SUBSET (Calls \ Reads)
    BY <1>2, <1>7
  <2> HIDE DEF h
  <2>2. TakenUp(l, h, C)
    BY <1>3, <2>1, TypesNow, TakesUpTo
  <2>3. TypeIInv'
    BY <1>3, <1>4, <1>5, <2>1, <2>2, TypesNow, TypesNext, TakenUpTyped
  <2> QED
    BY <1>2, <1>4, <1>5, <1>6, <1>7, <2>2, <2>3 DEF h
<1>8. CASE C \cap Reads # {}
  <2> DEFINE r == [lane[l] EXCEPT !.at = "reading", !.calls = C, !.retried = FALSE]
  <2>1. lane' = [lane EXCEPT ![l] = r] /\ history' = h /\ UNCHANGED <<busy, abort, iteration, pending>>
    BY <1>2, <1>8
  <2>2. r \in Records /\ r.at = "reading" /\ r.epoch = lane[l].epoch /\ r.conv = lane[l].conv /\ r.calls = C
    BY <1>1 DEF Records, Waiting
  <2> HIDE DEF r, h
  <2>3. To(l, "reading", lane[l].epoch, lane[l].conv, C)
    BY <2>1, <2>2, TypesNow, LaneTo
  <2>4. lane' \in [Lanes -> Records] /\ Written'
    BY <2>3, TypesNow, ToTyped
  <2>5. TypeIInv'
    BY <1>3, <1>4, <1>5, <2>1, <2>4, TypesNow, TypesNext
  <2> QED
    BY <1>2, <1>4, <1>5, <1>6, <2>1, <2>3, <2>5 DEF h
<1> QED
  BY <1>7, <1>8

LEMMA ReadDoneDoes ==
  ASSUME TypeIInv, NEW l \in Lanes, ReadDone(l)
  PROVE  /\ TypeIInv' /\ lane[l].at = "reading" /\ Fresh(l)
         /\ UNCHANGED <<epoch, card, done, company, scoped, conv, loading, offered, effects, mishaps>>
         /\ TakenUp(l, AnswerAtTail(history, lane[l].calls \cap Reads, lane[l].conv), lane[l].calls \ Reads)
<1> USE DEF scope, facts
<1> DEFINE h == AnswerAtTail(history, lane[l].calls \cap Reads, lane[l].conv)
<1>1. lane[l] \in Records /\ lane[l].conv \in Conversations /\ lane[l].calls \subseteq Calls
  BY TypesNow, LaneIsRecord DEF Records
<1>2. h \in Seq(Turns)
  <2>1. lane[l].calls \cap Reads \in SUBSET Calls
    BY <1>1
  <2> QED
    BY <1>1, <2>1, TypesNow, AnswerAtTailTyped
<1>3. /\ lane[l].at = "reading" /\ Fresh(l) /\ TakesUp(l, h, lane[l].calls \ Reads)
      /\ UNCHANGED <<epoch, corrections, card, failures, done, landed, scope, facts, sends, spent>>
  BY DEF ReadDone
<1>4. lane[l].calls \ Reads \in SUBSET (Calls \ Reads)
  BY <1>1
<1> HIDE DEF h
<1>5. TakenUp(l, h, lane[l].calls \ Reads)
  BY <1>2, <1>3, <1>4, TypesNow, TakesUpTo
<1>6. TypeIInv'
  BY <1>2, <1>3, <1>4, <1>5, TypesNow, TypesNext, TakenUpTyped
<1> QED
  BY <1>3, <1>5, <1>6 DEF h

LEMMA OfferDoes ==
  ASSUME TypeIInv, NEW l \in Lanes, Offer(l)
  PROVE  /\ TypeIInv' /\ lane[l].at = "vetting" /\ Halts(l)
         /\ UNCHANGED <<epoch, done, company, scoped, conv, loading, effects, mishaps>>
         /\ \E blocked \in SUBSET lane[l].calls :
              /\ history' = Answer(history, blocked, lane[l].conv)
              /\ pending' = pending \cup (lane[l].calls \ blocked)
              /\ \A c \in Calls : /\ c \in lane[l].calls \ blocked =>
                                       card'[c] = "pending" /\ offered'[c] = lane[l].conv.of
                                  /\ c \notin lane[l].calls \ blocked => offered'[c] = offered[c]
                                  /\ c \in blocked => card'[c] = "error"
                                  /\ c \notin lane[l].calls => card'[c] = card[c]
<1> USE DEF scope
<1>1. /\ lane[l] \in Records /\ lane[l].conv \in Conversations /\ lane[l].calls \subseteq Calls
      /\ lane[l].conv.of \in Companies
  BY TypesNow, LaneIsRecord DEF Records, Conversations
<1>2. PICK blocked \in SUBSET lane[l].calls :
       /\ history' = Answer(history, blocked, lane[l].conv)
       /\ Fails(blocked)
       /\ pending' = pending \cup (lane[l].calls \ blocked)
       /\ card' = [c \in Calls |-> CASE c \in lane[l].calls \ blocked -> "pending" [] c \in blocked -> "error"
                                      [] OTHER -> card[c]]
       /\ offered' = [c \in Calls |-> IF c \in lane[l].calls \ blocked THEN lane[l].conv.of ELSE offered[c]]
  BY DEF Offer
<1>3. /\ lane[l].at = "vetting" /\ Ends(l)
      /\ UNCHANGED <<abort, epoch, iteration, corrections, done, landed, scope, effects, mishaps, sends, spent>>
  BY DEF Offer
<1>4. Halts(l)
  BY <1>3, TypesNow, EndsTo
<1>5. blocked \in SUBSET Calls
  BY <1>1
<1>6. /\ card' \in [Calls -> Cards]
      /\ \A c \in Calls : /\ c \in lane[l].calls \ blocked => card'[c] = "pending"
                          /\ c \in blocked => card'[c] = "error"
                          /\ c \notin lane[l].calls => card'[c] = card[c]
  <2> DEFINE new(c) == CASE c \in lane[l].calls \ blocked -> "pending" [] c \in blocked -> "error"
                                      [] OTHER -> card[c]
  <2>1. \A c \in Calls : /\ c \in lane[l].calls \ blocked => new(c) = "pending"
                         /\ c \in blocked => new(c) = "error"
                         /\ c \notin lane[l].calls => new(c) = card[c]
    BY Zenon
  <2>2. card' = [c \in Calls |-> new(c)]
    BY <1>2
  <2> HIDE DEF new
  <2>3. \A c \in Calls : new(c) \in Cards
    BY <2>1, TypesNow DEF Cards
  <2> QED
    BY <2>1, <2>2, <2>3
<1>7. /\ offered' \in [Calls -> Companies]
      /\ \A c \in Calls : offered'[c] = IF c \in lane[l].calls \ blocked THEN lane[l].conv.of ELSE offered[c]
  BY <1>1, <1>2, TypesNow
<1>8. history' \in Seq(Turns)
  BY <1>1, <1>2, <1>5, TypesNow, AnswerTyped
<1>9. failures' \in [Keys -> Nat]
  BY <1>2, <1>5, TypesNow, FailsTyped
<1>10. lane[l].calls \cap Reads = {}
  BY <1>3, TypesNow DEF Written
<1>11. pending' \subseteq Calls \ Reads
  BY <1>1, <1>2, <1>10, TypesNow
<1>12. lane' \in [Lanes -> Records] /\ Written' /\ busy' \in BOOLEAN
  BY <1>4, TypesNow, HaltsTyped
<1>13. TypeIInv'
  BY <1>3, <1>6, <1>7, <1>8, <1>9, <1>11, <1>12, TypesNow, TypesNext
<1> QED
  BY <1>2, <1>3, <1>4, <1>6, <1>7, <1>13

(* Which cards a step turns over.                                          *)
Shown(C, status) ==
  \A c \in Calls : card'[c] = IF c \in C /\ card[c] # "gone" THEN status ELSE card[c]

LEMMA ShowsShown ==
  ASSUME TypeOK, NEW C, NEW status \in Cards, Shows(C, status)
  PROVE  card' \in [Calls -> Cards] /\ Shown(C, status)
BY DEF Shows, TypeOK, Shown

(* How a lane goes on once its card is answered.                           *)
Resumed(l) ==
  \/ pending' = {} /\ LoopsOn(l, epoch, lane[l].conv, {}, busy)
  \/ pending' # {} /\ Halts(l)

LEMMA ResumedTyped ==
  ASSUME TypeIInv, NEW l \in Lanes, Resumes(l, busy)
  PROVE  /\ Resumed(l) /\ lane' \in [Lanes -> Records] /\ Written'
         /\ busy' \in BOOLEAN /\ abort' \in BOOLEAN /\ iteration' \in Int /\ iteration' <= MaxIterations
<1>1. CASE pending' = {} /\ LoopsOn(l, epoch, lane[l].conv, {}, busy)
  BY <1>1, TypesNow, LoopsOnTyped DEF Resumed
<1>2. CASE pending' # {} /\ Halts(l) /\ UNCHANGED <<abort, iteration>>
  BY <1>2, TypesNow, HaltsTyped DEF Resumed
<1> QED
  BY <1>1, <1>2, TypesNow, ResumesTo

(* A write that is made while another lane is at work crowds.              *)
Crowded == mishaps \subseteq mishaps' /\ (Live # {} => mishaps' # {})

LEMMA CrowdsTyped ==
  ASSUME TypeIInv, Crowds
  PROVE  mishaps' \subseteq MishapKinds /\ Crowded
BY TypesNow DEF Crowds, MishapKinds, Crowded

LEMMA ApproveDoes ==
  ASSUME TypeIInv, NEW c \in Calls, Approve(c)
  PROVE  /\ TypeIInv' /\ Present /\ c \in pending /\ pending' = pending \ {c} /\ busy' = TRUE
         /\ UNCHANGED <<epoch, history, card, done, company, scoped, conv, loading, offered, effects>>
         /\ \E s \in Lanes : lane[s].at = "idle" /\ To(s, "checking", epoch, conv, {c})
         /\ Crowded /\ card[c] = "pending"
<1> USE DEF scope
<1>1. /\ Present /\ c \in pending /\ card[c] = "pending" /\ pending' = pending \ {c}
      /\ Free # {} /\ Starts(Slot, "checking", conv, {c})
      /\ busy' = TRUE /\ Crowds
      /\ UNCHANGED <<abort, epoch, iteration, corrections, history, card, failures, done, landed>>
      /\ UNCHANGED <<scope, offered, effects, sends, spent>>
  BY DEF Approve, Takes
<1>2. "checking" \in Waiting /\ conv \in Conversations /\ {c} \in SUBSET Calls
  BY TypesNow DEF Waiting
<1>3. Slot \in Lanes /\ lane[Slot].at = "idle" /\ To(Slot, "checking", epoch, conv, {c})
  BY <1>1, <1>2, TypesNow, StartsTo
<1>4. lane' \in [Lanes -> Records] /\ Written'
  BY <1>3, TypesNow, ToTyped
<1>5. mishaps' \subseteq MishapKinds /\ Crowded
  BY <1>1, CrowdsTyped
<1>6. pending' \subseteq Calls \ Reads
  BY <1>1, TypesNow
<1>7. TypeIInv'
  BY <1>1, <1>4, <1>5, <1>6, TypesNow, TypesNext
<1> QED
  BY <1>1, <1>3, <1>5, <1>7

LEMMA RejectDoes ==
  ASSUME TypeIInv, NEW c \in Calls, Reject(c)
  PROVE  /\ TypeIInv' /\ Present /\ c \in pending /\ pending' = pending \ {c}
         /\ history' = Answer(history, {c}, conv) /\ Shown({c}, "rejected")
         /\ UNCHANGED <<epoch, done, company, scoped, conv, loading, offered, effects>>
         /\ \/ /\ pending' = {}
               /\ \E s \in Lanes : lane[s].at = "idle" /\ LoopsOn(s, epoch, conv, {}, TRUE)
            \/ pending' # {} /\ busy' = FALSE /\ lane' = lane
         /\ Crowded /\ card[c] = "pending"
<1> USE DEF scope
<1>1. /\ Present /\ c \in pending /\ card[c] = "pending" /\ pending' = pending \ {c}
      /\ Shows({c}, "rejected") /\ history' = Answer(history, {c}, conv)
      /\ Crowds
      /\ UNCHANGED <<epoch, corrections, failures, done, landed, scope, offered, effects, sends, spent>>
  BY DEF Reject, Takes
<1>2. /\ pending' = {} => /\ Free # {}
                          /\ Loops(Slot, [Idle EXCEPT !.conv = conv, !.epoch = epoch], 0, abort, TRUE)
      /\ pending' # {} => busy' = FALSE /\ UNCHANGED <<lane, abort, iteration>>
  BY DEF Reject
<1>3. card' \in [Calls -> Cards] /\ Shown({c}, "rejected")
  BY <1>1, TypesNow, ShowsShown DEF Cards
<1>4. history' \in Seq(Turns)
  <2>1. {c} \in SUBSET Calls
    OBVIOUS
  <2> QED
    BY <1>1, <2>1, TypesNow, AnswerTyped
<1>5. mishaps' \subseteq MishapKinds /\ Crowded
  BY <1>1, CrowdsTyped
<1>6. pending' \subseteq Calls \ Reads
  BY <1>1, TypesNow
<1>7. CASE pending' = {}
  <2> DEFINE r == [Idle EXCEPT !.conv = conv, !.epoch = epoch]
  <2>1. r \in Records /\ r.conv = conv /\ r.epoch = epoch /\ r.calls = {}
    BY TypesNow, IdleIsRecord DEF Records
  <2>2. Slot \in Lanes /\ lane[Slot].at = "idle"
    BY <1>2, <1>7 DEF Slot, Free
  <2> DEFINE open == TRUE
  <2>3. Loops(Slot, r, 0, abort, open)
    BY <1>2, <1>7
  <2> HIDE DEF r
  <2>4. LoopsOn(Slot, epoch, conv, {}, TRUE)
    <3> HIDE DEF open
    <3>1. LoopsOn(Slot, r.epoch, r.conv, r.calls, open)
      BY <2>1, <2>2, <2>3, TypesNow, Entrance, LoopsTo
    <3> QED
      BY <2>1, <3>1 DEF open
  <2>5. TRUE \in BOOLEAN
    OBVIOUS
  <2>6. TypeIInv'
    BY <1>1, <1>3, <1>4, <1>5, <1>6, <2>2, <2>4, <2>5, TypesNow, TypesNext, LoopsOnTyped
  <2> QED
    BY <1>1, <1>3, <1>5, <1>7, <2>2, <2>4, <2>6
<1>8. CASE pending' # {}
  <2>1. busy' = FALSE /\ UNCHANGED <<lane, abort, iteration>>
    BY <1>2, <1>8
  <2>2. Written'
    BY <2>1, TypesNow DEF Written
  <2>3. TypeIInv'
    BY <1>1, <1>3, <1>4, <1>5, <1>6, <2>1, <2>2, TypesNow, TypesNext
  <2> QED
    BY <1>1, <1>3, <1>5, <1>8, <2>1, <2>3
<1> QED
  BY <1>7, <1>8

LEMMA CheckDoes ==
  ASSUME TypeIInv, NEW l \in Lanes, Check(l)
  PROVE  /\ TypeIInv' /\ lane[l].at = "checking"
         /\ UNCHANGED <<epoch, pending, done, company, scoped, conv, loading, offered, effects, mishaps>>
         /\ \/ /\ Shown(lane[l].calls, "executing") /\ UNCHANGED <<busy, history>>
               /\ To(l, "executing", lane[l].epoch, lane[l].conv, lane[l].calls) /\ lane'[l].into = company
            \/ /\ Shown(lane[l].calls, "error") /\ history' = Answer(history, lane[l].calls, lane[l].conv)
               /\ Resumed(l)
<1> USE DEF scope, facts
<1>1. lane[l] \in Records /\ lane[l].conv \in Conversations /\ lane[l].calls \in SUBSET Calls
  BY TypesNow, LaneIsRecord DEF Records
<1>2. /\ lane[l].at = "checking"
      /\ UNCHANGED <<epoch, corrections, done, landed, scope, facts, sends, spent>>
  BY DEF Check
<1>3. CASE /\ Shows(lane[l].calls, "executing")
           /\ lane' = [lane EXCEPT ![l].at = "executing", ![l].into = company]
           /\ UNCHANGED <<busy, abort, iteration, history, pending, failures>>
  <2> DEFINE r == [lane[l] EXCEPT !.at = "executing", !.into = company]
  <2>1. lane' = [lane EXCEPT ![l] = r]
    BY <1>3
  <2>2. company \in Companies
    BY DEF TypeIInv, TypeOK
  <2>3. /\ r \in Records /\ r.at = "executing" /\ r.epoch = lane[l].epoch /\ r.conv = lane[l].conv
        /\ r.calls = lane[l].calls /\ r.into = company
    BY <1>1, <2>2 DEF Records, Waiting
  <2> HIDE DEF r
  <2>4. To(l, "executing", lane[l].epoch, lane[l].conv, lane[l].calls) /\ lane'[l].into = company
    BY <2>1, <2>3, TypesNow, LaneTo
  <2>5. card' \in [Calls -> Cards] /\ Shown(lane[l].calls, "executing")
    BY <1>3, TypesNow, ShowsShown DEF Cards
  <2>6. lane' \in [Lanes -> Records] /\ Written'
    BY <2>4, TypesNow, ToTyped
  <2>7. TypeIInv'
    BY <1>2, <1>3, <2>5, <2>6, TypesNow, TypesNext
  <2> QED
    BY <1>2, <1>3, <2>4, <2>5, <2>7
<1>4. CASE /\ Shows(lane[l].calls, "error") /\ Fails(lane[l].calls)
           /\ history' = Answer(history, lane[l].calls, lane[l].conv)
           /\ UNCHANGED pending /\ Resumes(l, busy)
  <2>1. card' \in [Calls -> Cards] /\ Shown(lane[l].calls, "error")
    BY <1>4, TypesNow, ShowsShown DEF Cards
  <2>2. history' \in Seq(Turns) /\ failures' \in [Keys -> Nat]
    BY <1>1, <1>4, TypesNow, AnswerTyped, FailsTyped
  <2>3. TypeIInv' /\ Resumed(l)
    BY <1>2, <1>4, <2>1, <2>2, TypesNow, TypesNext, ResumedTyped
  <2> QED
    BY <1>2, <1>4, <2>1, <2>3
<1> QED
  BY <1>3, <1>4 DEF Check

(* A write that was made.                                                  *)
Made(l) ==
  \A c \in Calls : effects'[c] = IF c \in lane[l].calls THEN Append(effects[c], lane[l].into) ELSE effects[c]

LEMMA TakesEffectTyped ==
  ASSUME TypeIInv, NEW l \in Lanes, TakesEffect(l)
  PROVE  effects' \in [Calls -> Seq(Companies)] /\ Made(l)
<1>1. effects \in [Calls -> Seq(Companies)] /\ lane[l].into \in Companies
  BY TypesNow, LaneIsRecord DEF Records
<1>2. \A c \in Calls : Append(effects[c], lane[l].into) \in Seq(Companies)
  BY <1>1, AppendProperties
<1> QED
  BY <1>1, <1>2 DEF TakesEffect, Made

LEMMA SucceedDoes ==
  ASSUME TypeIInv, NEW l \in Lanes, Succeed(l)
  PROVE  /\ TypeIInv' /\ lane[l].at = "executing" /\ Made(l) /\ Shown(lane[l].calls, "success")
         /\ UNCHANGED <<epoch, pending, company, scoped, conv, loading, offered, mishaps>>
         /\ done' = done \cup {Key[c] : c \in lane[l].calls}
         /\ \/ /\ To(l, "running", epoch, lane[l].conv, lane[l].calls) /\ UNCHANGED <<busy, history>>
            \/ history' = Answer(history, lane[l].calls, lane[l].conv) /\ Resumed(l)
<1> USE DEF scope
<1>1. lane[l] \in Records /\ lane[l].conv \in Conversations /\ lane[l].calls \in SUBSET Calls
  BY TypesNow, LaneIsRecord DEF Records
<1>2. /\ lane[l].at = "executing"
      /\ TakesEffect(l) /\ Shows(lane[l].calls, "success")
      /\ landed' = TRUE /\ done' = done \cup {Key[c] : c \in lane[l].calls}
      /\ UNCHANGED pending
      /\ UNCHANGED <<epoch, corrections, failures, scope, offered, mishaps, sends, spent>>
  BY DEF Succeed
<1>3. card' \in [Calls -> Cards] /\ Shown(lane[l].calls, "success")
  BY <1>2, TypesNow, ShowsShown DEF Cards
<1>4. effects' \in [Calls -> Seq(Companies)] /\ Made(l)
  BY <1>2, TakesEffectTyped
<1>5. done' \subseteq Keys
  BY <1>1, <1>2, TypesNow, ChatAssumption
<1>6. landed' \in BOOLEAN
  BY <1>2
<1>7. CASE /\ lane' = [lane EXCEPT ![l].at = "running", ![l].epoch = epoch]
           /\ UNCHANGED <<busy, abort, iteration, history>>
  <2> DEFINE r == [lane[l] EXCEPT !.at = "running", !.epoch = epoch]
  <2>1. lane' = [lane EXCEPT ![l] = r]
    BY <1>7
  <2>2. r \in Records /\ r.at = "running" /\ r.epoch = epoch /\ r.conv = lane[l].conv /\ r.calls = lane[l].calls
    BY <1>1, TypesNow DEF Records, Waiting
  <2> HIDE DEF r
  <2>3. To(l, "running", epoch, lane[l].conv, lane[l].calls)
    BY <2>1, <2>2, TypesNow, LaneTo
  <2>4. lane' \in [Lanes -> Records] /\ Written'
    BY <2>3, TypesNow, ToTyped
  <2>5. TypeIInv'
    BY <1>2, <1>3, <1>4, <1>5, <1>6, <1>7, <2>4, TypesNow, TypesNext
  <2> QED
    BY <1>2, <1>3, <1>4, <1>7, <2>3, <2>5
<1>8. CASE history' = Answer(history, lane[l].calls, lane[l].conv) /\ Resumes(l, busy)
  <2>1. history' \in Seq(Turns)
    BY <1>1, <1>8, TypesNow, AnswerTyped
  <2>2. TypeIInv' /\ Resumed(l)
    BY <1>2, <1>3, <1>4, <1>5, <1>6, <1>8, <2>1, TypesNow, TypesNext, ResumedTyped
  <2> QED
    BY <1>2, <1>3, <1>4, <1>8, <2>2
<1> QED
  BY <1>7, <1>8 DEF Succeed

LEMMA FailDoes ==
  ASSUME TypeIInv, NEW l \in Lanes, Fail(l)
  PROVE  /\ TypeIInv' /\ lane[l].at = "executing" /\ Shown(lane[l].calls, "error")
         /\ Made(l) \/ effects' = effects
         /\ UNCHANGED <<epoch, pending, done, company, scoped, conv, loading, offered, mishaps>>
         /\ history' = Answer(history, lane[l].calls, lane[l].conv) /\ Resumed(l)
<1> USE DEF scope
<1>1. lane[l] \in Records /\ lane[l].conv \in Conversations /\ lane[l].calls \in SUBSET Calls
  BY TypesNow, LaneIsRecord DEF Records
<1>2. /\ lane[l].at = "executing"
      /\ TakesEffect(l) \/ effects' = effects
      /\ Shows(lane[l].calls, "error") /\ Fails(lane[l].calls)
      /\ history' = Answer(history, lane[l].calls, lane[l].conv)
      /\ UNCHANGED pending /\ Resumes(l, busy)
      /\ UNCHANGED <<epoch, corrections, done, landed, scope, offered, mishaps, sends, spent>>
  BY DEF Fail
<1>3. card' \in [Calls -> Cards] /\ Shown(lane[l].calls, "error")
  BY <1>2, TypesNow, ShowsShown DEF Cards
<1>4. effects' \in [Calls -> Seq(Companies)] /\ (Made(l) \/ effects' = effects)
  BY <1>2, TypesNow, TakesEffectTyped
<1>5. history' \in Seq(Turns) /\ failures' \in [Keys -> Nat]
  BY <1>1, <1>2, TypesNow, AnswerTyped, FailsTyped
<1>6. TypeIInv' /\ Resumed(l)
  BY <1>2, <1>3, <1>4, <1>5, TypesNow, TypesNext, ResumedTyped
<1> QED
  BY <1>2, <1>3, <1>4, <1>6

LEMMA BatchDoneDoes ==
  ASSUME TypeIInv, NEW l \in Lanes, BatchDone(l)
  PROVE  /\ TypeIInv' /\ lane[l].at = "running" /\ Resumed(l)
         /\ UNCHANGED <<epoch, pending, card, done, company, scoped, conv, loading, offered, effects, mishaps>>
         /\ \/ history' = Answer(history, lane[l].calls, lane[l].conv)
            \/ /\ Fresh(l)
               /\ history' = Answer(Append(history, Turn("text", lane[l].conv)), lane[l].calls, lane[l].conv)
<1> USE DEF scope, facts
<1>1. lane[l] \in Records /\ lane[l].conv \in Conversations /\ lane[l].calls \in SUBSET Calls
  BY TypesNow, LaneIsRecord DEF Records
<1>2. /\ lane[l].at = "running" /\ UNCHANGED pending /\ Resumes(l, busy)
      /\ UNCHANGED <<epoch, corrections, card, failures, done, landed, scope, facts, sends, spent>>
      /\ history' = Answer(IF Fresh(l) THEN Append(history, Turn("text", lane[l].conv)) ELSE history,
                           lane[l].calls, lane[l].conv)
  BY DEF BatchDone
<1>3. Append(history, Turn("text", lane[l].conv)) \in Seq(Turns)
  BY <1>1, TypesNow, TurnIsTurn, AppendTurn DEF Kinds
<1>4. history' \in Seq(Turns)
  BY <1>1, <1>2, <1>3, TypesNow, AnswerTyped
<1>5. TypeIInv' /\ Resumed(l)
  BY <1>2, <1>4, TypesNow, TypesNext, ResumedTyped
<1> QED
  BY <1>2, <1>5

LEMMA SpeaksDoes ==
  ASSUME TypeIInv, Send \/ Regenerate
  PROVE  /\ TypeIInv' /\ busy = FALSE /\ busy' = TRUE /\ pending = {} /\ Present
         /\ scoped' = company /\ conv' = [no |-> conv.no, of |-> company]
         /\ UNCHANGED <<epoch, pending, done, company, loading, offered, effects, mishaps>>
         /\ \E s \in Lanes : lane[s].at = "idle" /\ To(s, "preamble", epoch, conv', {})
         /\ \/ UNCHANGED <<history, card>>
            \/ /\ UserTurns(history) # {} /\ history' = BeforeLastUser(history)
               /\ \E D : Shown(D, "gone")
<1> USE DEF facts
<1>1. /\ sends' = sends + 1 /\ ~busy /\ pending = {} /\ Present
      /\ scoped' = company /\ conv' = [conv EXCEPT !.of = company]
      /\ Free # {} /\ Starts(Slot, "preamble", conv', {})
      /\ busy' = TRUE
      /\ UNCHANGED <<abort, epoch, iteration, corrections, pending, failures, done, landed>>
      /\ UNCHANGED <<company, loading, facts, spent>>
  BY DEF Send, Regenerate, Speaks
<1>2. company \in Companies /\ conv \in Conversations
  BY DEF TypeIInv, TypeOK
<1>3. conv' \in Conversations /\ conv' = [no |-> conv.no, of |-> company]
  BY <1>1, <1>2 DEF Conversations
<1>4. "preamble" \in Waiting /\ {} \in SUBSET Calls
  BY DEF Waiting
<1>5. Slot \in Lanes /\ lane[Slot].at = "idle" /\ To(Slot, "preamble", epoch, conv', {})
  BY <1>1, <1>3, <1>4, TypesNow, StartsTo
<1>6. lane' \in [Lanes -> Records] /\ Written'
  BY <1>5, TypesNow, ToTyped
<1>7. \/ UNCHANGED <<history, card>>
      \/ /\ UserTurns(history) # {} /\ history' = BeforeLastUser(history) /\ history' \in Seq(Turns)
         /\ card' \in [Calls -> Cards] /\ \E D : Shown(D, "gone")
  <2>1. CASE Send
    BY <2>1 DEF Send
  <2>2. CASE Regenerate
    <3>1. /\ UserTurns(history) # {} /\ history' = BeforeLastUser(history)
          /\ \E D : Shows(D, "gone")
      BY <2>2 DEF Regenerate
    <3>2. "gone" \in Cards
      BY DEF Cards
    <3> QED
      BY <3>1, <3>2, TypesNow, BeforeLastUserIsPrefix, ShowsShown
  <2> QED
    BY <2>1, <2>2
<1>8. history' \in Seq(Turns) /\ card' \in [Calls -> Cards] /\ busy \in BOOLEAN /\ busy' \in BOOLEAN
  BY <1>1, <1>7, TypesNow
<1>9. scoped' \in Companies
  BY <1>1, <1>2
<1>10. TypeIInv'
  BY <1>1, <1>3, <1>6, <1>8, <1>9, TypesNow, TypesNext
<1> QED
  BY <1>1, <1>3, <1>5, <1>7, <1>8, <1>10

LEMMA StopDoes ==
  ASSUME TypeIInv, Stop
  PROVE  /\ TypeIInv'
         /\ UNCHANGED <<busy, epoch, history, pending, card, done, company, scoped, conv, lane>>
         /\ UNCHANGED <<offered, effects, mishaps>>
<1>1. /\ spent < MaxMishaps /\ spent' = spent + 1 /\ abort' = TRUE
      /\ UNCHANGED <<busy, epoch, iteration, corrections, talk, scope, lane, facts, sends>>
  BY DEF Stop, Spends
<1>2. spent' \in Nat /\ spent' <= MaxMishaps /\ company <= spent' + 1 /\ abort' \in BOOLEAN
  BY <1>1, TypesNow
<1>3. /\ UNCHANGED <<busy, epoch, iteration, corrections, history, pending, card, failures, done, landed>>
      /\ UNCHANGED <<company, scoped, conv, loading, lane, offered, effects, mishaps, sends>>
  BY <1>1 DEF talk, scope, facts
<1>4. Written'
  BY <1>3, TypesNow DEF Written
<1>5. TypeIInv'
  BY <1>2, <1>3, <1>4, TypesNow, TypesNext
<1> QED
  BY <1>3, <1>5

LEMMA RecoverDoes ==
  ASSUME TypeIInv, Recover
  PROVE  /\ TypeIInv' /\ busy' = FALSE /\ epoch' = epoch + 1 /\ mishaps' = mishaps \cup {"overtaken"}
         /\ UNCHANGED <<history, pending, card, done, company, scoped, conv, lane, offered, effects>>
<1>1. /\ spent < MaxMishaps /\ spent' = spent + 1
      /\ abort' = TRUE /\ failures' = NoFailures /\ epoch' = epoch + 1 /\ busy' = FALSE
      /\ mishaps' = mishaps \cup {"overtaken"}
      /\ UNCHANGED <<iteration, corrections, history, pending, card, done, landed, scope, lane, sends>>
      /\ UNCHANGED <<offered, effects>>
  BY DEF Recover, Spends
<1>2. /\ spent' \in Nat /\ spent' <= MaxMishaps /\ company <= spent' + 1
      /\ abort' \in BOOLEAN /\ busy' \in BOOLEAN /\ epoch' \in Nat
  <2>1. spent' \in Nat /\ spent' <= MaxMishaps /\ company <= spent' + 1 /\ epoch' \in Nat
    BY <1>1, TypesNow
  <2>2. abort' \in BOOLEAN /\ busy' \in BOOLEAN
    BY <1>1
  <2> QED
    BY <2>1, <2>2
<1>3. failures' \in [Keys -> Nat]
  BY <1>1 DEF NoFailures
<1>4. mishaps' \subseteq MishapKinds
  BY <1>1, TypesNow DEF MishapKinds
<1>5. Written'
  BY <1>1, TypesNow DEF Written
<1>6. UNCHANGED <<company, scoped, conv, loading>>
  BY <1>1 DEF scope
<1>7. TypeIInv'
  BY <1>1, <1>2, <1>3, <1>4, <1>5, <1>6, TypesNow, TypesNext
<1> QED
  BY <1>1, <1>6, <1>7

(* What is put on record when the lanes are overtaken.                     *)
Overtaken ==
  /\ mishaps \subseteq mishaps' /\ (Live # {} => mishaps' # {})
  /\ (\E l \in Live : lane[l].at \in Unguarded) => "switched" \in mishaps'

LEMMA OvertakesTyped ==
  ASSUME TypeIInv, Overtakes
  PROVE  mishaps' \subseteq MishapKinds /\ Overtaken
BY TypesNow DEF Overtakes, Overtaken, MishapKinds

LEMMA SwitchDoes ==
  ASSUME TypeIInv, Switch
  PROVE  /\ TypeIInv' /\ company' = company + 1 /\ Overtaken
         /\ UNCHANGED <<busy, epoch, history, pending, card, done, scoped, conv, lane, offered, effects>>
<1>1. /\ spent < MaxMishaps /\ spent' = spent + 1 /\ company' = company + 1 /\ Overtakes
      /\ UNCHANGED <<flags, talk, scoped, conv, loading, lane, offered, effects, sends>>
  BY DEF Switch, Spends
<1>2. /\ spent' \in Nat /\ spent' <= MaxMishaps /\ company' \in Nat /\ company' > 0 /\ company' <= spent' + 1
  BY <1>1, TypesNow
<1>3. mishaps' \subseteq MishapKinds /\ Overtaken
  BY <1>1, OvertakesTyped
<1>4. /\ UNCHANGED <<busy, abort, epoch, iteration, corrections, history, pending, card, failures, done, landed>>
      /\ UNCHANGED <<scoped, conv, loading, lane, offered, effects, sends>>
  BY <1>1 DEF talk, flags
<1>5. Written'
  BY <1>4, TypesNow DEF Written
<1>6. TypeIInv'
  BY <1>2, <1>3, <1>4, <1>5, TypesNow, TypesNext
<1> QED
  BY <1>1, <1>3, <1>4, <1>6

LEMMA NothingTyped ==
  ASSUME TypeIInv
  PROVE  /\ <<>> \in Seq(Turns) /\ {} \subseteq Calls \ Reads /\ NoFailures \in [Keys -> Nat] /\ {} \subseteq Keys
         /\ FALSE \in BOOLEAN /\ 0 \in Int /\ 0 <= MaxIterations /\ company \in Companies /\ 0 \in Companies
         /\ [no |-> conv.no + 1, of |-> company] \in Conversations
         /\ [no |-> conv.no, of |-> company] \in Conversations
<1>1. company \in Companies /\ conv \in Conversations
  BY DEF TypeIInv, TypeOK
<1>2. 0 \in Companies
  BY BoundsAreNat DEF Companies
<1> QED
  BY <1>1, <1>2, BoundsAreNat DEF NoFailures, Conversations

LEMMA ScopeDoes ==
  ASSUME TypeIInv, Scope
  PROVE  /\ TypeIInv' /\ ~Present /\ scoped' = company /\ conv' = [no |-> conv.no + 1, of |-> company]
         /\ history' = <<>> /\ pending' = {} /\ done' = {} /\ epoch' = epoch + 1 /\ Overtaken
         /\ UNCHANGED <<busy, card, company, lane, offered, effects>>
<1>1. /\ ~Present /\ scoped' = company
      /\ history' = <<>> /\ pending' = {} /\ failures' = NoFailures /\ done' = {} /\ landed' = FALSE
      /\ iteration' = 0 /\ epoch' = epoch + 1
      /\ conv' = [no |-> conv.no + 1, of |-> company]
      /\ Overtakes
      /\ UNCHANGED <<busy, abort, corrections, card, company, loading, lane, offered, effects, sends, spent>>
  BY DEF Scope
<1>2. mishaps' \subseteq MishapKinds /\ Overtaken
  BY <1>1, OvertakesTyped
<1>3. /\ history' \in Seq(Turns) /\ pending' \subseteq Calls \ Reads /\ failures' \in [Keys -> Nat]
      /\ done' \subseteq Keys /\ landed' \in BOOLEAN /\ iteration' \in Int /\ iteration' <= MaxIterations
      /\ scoped' \in Companies /\ conv' \in Conversations
  BY <1>1, NothingTyped
<1>4. Written' /\ epoch' \in Nat
  BY <1>1, TypesNow DEF Written
<1>5. TypeIInv'
  BY <1>1, <1>2, <1>3, <1>4, TypesNow, TypesNext
<1> QED
  BY <1>1, <1>2, <1>5

(* What is put on record when the conversation is replaced under lanes.    *)
Replaced(under) == mishaps \subseteq mishaps' /\ (under # {} => "replaced" \in mishaps')

LEMMA ReplacesTyped ==
  ASSUME TypeIInv, NEW under, Replaces(under)
  PROVE  mishaps' \subseteq MishapKinds /\ Replaced(under)
BY TypesNow DEF Replaces, Replaced, MishapKinds

LEMMA EmptyTranscriptTyped ==
  ASSUME TypeIInv, EmptyTranscript
  PROVE  /\ card' \in [Calls -> Cards] /\ busy' = FALSE
         /\ Shown({c \in Calls : card[c] # "new"}, "gone")
BY TypesNow, ShowsShown DEF EmptyTranscript, Cards

LEMMA ResetsDoes ==
  ASSUME TypeIInv, NewChat \/ SelectSession
  PROVE  /\ TypeIInv' /\ Present /\ scoped' = 0 /\ conv' = [no |-> conv.no + 1, of |-> company]
         /\ history' = <<>> /\ pending' = {} /\ done' = {} /\ busy' = FALSE
         /\ Shown({c \in Calls : card[c] # "new"}, "gone") /\ Replaced(Live)
         /\ UNCHANGED <<epoch, company, lane, offered, effects>>
<1>1. /\ Present /\ spent < MaxMishaps /\ spent' = spent + 1
      /\ history' = <<>> /\ pending' = {} /\ failures' = NoFailures /\ done' = {} /\ landed' = FALSE
      /\ iteration' = 0 /\ scoped' = 0 /\ EmptyTranscript
      /\ conv' = [no |-> conv.no + 1, of |-> company]
      /\ UNCHANGED <<abort, epoch, corrections, company>>
      /\ Replaces(Live)
      /\ UNCHANGED <<lane, offered, effects, sends>>
  BY DEF NewChat, SelectSession, Spends, Resets
<1>2. loading' \in BOOLEAN
  BY TypesNow DEF NewChat, SelectSession
<1>3. /\ history' \in Seq(Turns) /\ pending' \subseteq Calls \ Reads /\ failures' \in [Keys -> Nat]
      /\ done' \subseteq Keys /\ landed' \in BOOLEAN /\ iteration' \in Int /\ iteration' <= MaxIterations
      /\ scoped' \in Companies /\ conv' \in Conversations
  BY <1>1, NothingTyped
<1>4. /\ card' \in [Calls -> Cards] /\ busy' = FALSE /\ busy' \in BOOLEAN
      /\ Shown({c \in Calls : card[c] # "new"}, "gone")
  BY <1>1, EmptyTranscriptTyped
<1>5. mishaps' \subseteq MishapKinds /\ Replaced(Live)
  BY <1>1, ReplacesTyped
<1>6. Written' /\ spent' \in Nat /\ spent' <= MaxMishaps /\ company <= spent' + 1
  BY <1>1, TypesNow DEF Written
<1>7. TypeIInv'
  BY <1>1, <1>2, <1>3, <1>4, <1>5, <1>6, TypesNow, TypesNext
<1> QED
  BY <1>1, <1>4, <1>5, <1>7

LEMMA RestoreDoes ==
  ASSUME TypeIInv, Restore
  PROVE  /\ TypeIInv' /\ UNCHANGED <<epoch, pending, company, lane, offered, effects>>
         /\ \/ UNCHANGED <<busy, history, card, done, scoped, conv, mishaps>>
            \/ /\ scoped' = company /\ conv' = [no |-> conv.no, of |-> company]
               /\ history' = <<Turn("system", conv')>> /\ done' = {} /\ busy' = FALSE
               /\ Shown({c \in Calls : card[c] # "new"}, "gone") /\ Replaced(Live \cup pending)
<1>1. /\ loading' = FALSE
      /\ UNCHANGED <<abort, epoch, iteration, corrections, pending, failures, landed, company, lane>>
      /\ UNCHANGED <<offered, effects, sends, spent>>
  BY DEF Restore
<1>2. loading' \in BOOLEAN /\ Written'
  BY <1>1, TypesNow DEF Written
<1>3. CASE UNCHANGED <<busy, history, card, done, scoped, conv, mishaps>>
  <2>1. TypeIInv'
    BY <1>1, <1>2, <1>3, TypesNow, TypesNext
  <2> QED
    BY <1>1, <1>3, <2>1
<1>4. CASE /\ scoped' = company /\ conv' = [conv EXCEPT !.of = company]
           /\ history' = <<Turn("system", conv')>> /\ done' = {}
           /\ EmptyTranscript /\ Replaces(Live \cup pending)
  <2>1. conv' = [no |-> conv.no, of |-> company] /\ conv' \in Conversations
    BY <1>4, TypesNow, NothingTyped DEF Conversations
  <2>2. history' \in Seq(Turns)
    <3> DEFINE t == Turn("system", conv')
    <3>1. t \in Turns
      BY <2>1, TurnIsTurn DEF Kinds
    <3>2. history' = <<t>>
      BY <1>4
    <3> HIDE DEF t
    <3> QED
      BY <3>1, <3>2
  <2>3. card' \in [Calls -> Cards] /\ busy' = FALSE /\ Shown({c \in Calls : card[c] # "new"}, "gone")
    BY <1>4, EmptyTranscriptTyped
  <2>4. mishaps' \subseteq MishapKinds /\ Replaced(Live \cup pending)
    BY <1>4, ReplacesTyped
  <2>5. scoped' \in Companies /\ done' \subseteq Keys /\ busy' \in BOOLEAN
    BY <1>4, <2>3, NothingTyped
  <2>6. TypeIInv'
    BY <1>1, <1>2, <2>1, <2>2, <2>3, <2>4, <2>5, TypesNow, TypesNext
  <2> QED
    BY <1>1, <1>4, <2>1, <2>3, <2>4, <2>6
<1> QED
  BY <1>3, <1>4 DEF Restore

-----------------------------------------------------------------------------
(* Types. *)

LEMMA StepIsOne ==
  ASSUME [Next]_vars
  PROVE  \/ \E l \in Lanes : \/ Admit(l) \/ Quiet(l) \/ Text(l) \/ Call(l) \/ ReadDone(l) \/ Offer(l)
                             \/ Check(l) \/ Succeed(l) \/ Fail(l) \/ BatchDone(l)
         \/ \E c \in Calls : Approve(c) \/ Reject(c)
         \/ (Send \/ Regenerate) \/ Stop \/ Recover \/ Switch \/ Scope \/ (NewChat \/ SelectSession) \/ Restore
         \/ UNCHANGED vars
BY DEF Next, LaneStep, Quiet

LEMMA TypeInit ==
  ASSUME Init
  PROVE  TypeIInv
<1>1. /\ NoFailures \in [Keys -> Nat] /\ [c \in Calls |-> 0] \in [Calls -> Companies]
      /\ 1 \in Companies \ {0} /\ 1 \in Companies /\ [no |-> 1, of |-> 1] \in Conversations
  BY BoundsAreNat DEF NoFailures, Companies, Conversations
<1>2. [c \in Calls |-> "new"] \in [Calls -> Cards] /\ [c \in Calls |-> <<>>] \in [Calls -> Seq(Companies)]
  BY DEF Cards
<1>3. lane \in [Lanes -> Records] /\ \A l \in Lanes : lane[l] = Idle
  BY IdleIsRecord DEF Init
<1>4. Written
  BY <1>3, IdleIsRecord DEF Written
<1>5. /\ busy \in BOOLEAN /\ abort \in BOOLEAN /\ landed \in BOOLEAN /\ loading \in BOOLEAN
      /\ epoch \in Nat /\ corrections \in Nat /\ sends \in Nat /\ spent \in Nat
  BY DEF Init
<1>7. /\ iteration \in Int /\ iteration <= MaxIterations /\ spent <= MaxMishaps /\ company <= spent + 1
  BY BoundsAreNat DEF Init
<1>8. /\ history \in Seq(Turns) /\ pending \subseteq Calls \ Reads /\ done \subseteq Keys
      /\ mishaps \subseteq MishapKinds
  BY DEF Init
<1>6. /\ card \in [Calls -> Cards] /\ failures \in [Keys -> Nat] /\ company \in Companies \ {0}
      /\ scoped \in Companies /\ conv \in Conversations
      /\ offered \in [Calls -> Companies] /\ effects \in [Calls -> Seq(Companies)]
  BY <1>1, <1>2 DEF Init
<1> QED
  BY <1>3, <1>4, <1>5, <1>6, <1>7, <1>8 DEF TypeIInv, TypeOK, Records, Turns, MishapKinds

LEMMA TypeStutter ==
  ASSUME TypeIInv, UNCHANGED vars
  PROVE  TypeIInv'
BY DEF TypeIInv, TypeOK, Written, vars, flags, talk, scope, facts

LEMMA TypeNext ==
  ASSUME TypeIInv, [Next]_vars
  PROVE  TypeIInv'
<1>1. ASSUME NEW l \in Lanes,
             \/ Admit(l) \/ Quiet(l) \/ Text(l) \/ Call(l) \/ ReadDone(l) \/ Offer(l)
             \/ Check(l) \/ Succeed(l) \/ Fail(l) \/ BatchDone(l)
      PROVE  TypeIInv'
  BY <1>1, AdmitDoes, QuietDoes, TextDoes, CallDoes, ReadDoneDoes, OfferDoes,
     CheckDoes, SucceedDoes, FailDoes, BatchDoneDoes
<1>2. ASSUME NEW c \in Calls, Approve(c) \/ Reject(c)
      PROVE  TypeIInv'
  BY <1>2, ApproveDoes, RejectDoes
<1> QED
  BY <1>1, <1>2, StepIsOne, SpeaksDoes, StopDoes, RecoverDoes, SwitchDoes, ScopeDoes, ResetsDoes,
     RestoreDoes, TypeStutter

(* Every field of the engine keeps its type, whatever the interleaving of  *)
(* lanes, clicks and mishaps: no step of the run loop counts past its      *)
(* bound, no read waits for the user (runLoop, resolveConfirmation).       *)
THEOREM ChatTypeCorrect == Spec => []TypeOK
<1>1. Spec => []TypeIInv
  BY TypeInit, TypeNext, PTL DEF Spec
<1>2. TypeIInv => TypeOK
  BY DEF TypeIInv
<1> QED
  BY <1>1, <1>2, PTL

-----------------------------------------------------------------------------
(* The input is open once no lane is at work. *)

LEMMA LiveTo ==
  ASSUME NEW l \in Lanes, NEW a, NEW e, NEW v, NEW C, To(l, a, e, v, C), a # "idle"
  PROVE  LaneInv'
BY DEF LaneInv, Live, To

LEMMA LiveLoops ==
  ASSUME NEW l \in Lanes, NEW e, NEW v, NEW C, NEW shown, LoopsOn(l, e, v, C, shown)
  PROVE  LaneInv'
<1>1. CASE Halts(l)
  BY <1>1 DEF Halts, LaneInv
<1>2. CASE To(l, "asking", e, v, C)
  BY <1>2, LiveTo
<1> QED
  BY <1>1, <1>2 DEF LoopsOn

LEMMA LiveHalts ==
  ASSUME busy' = FALSE
  PROVE  LaneInv'
BY DEF LaneInv

LEMMA LiveTakenUp ==
  ASSUME NEW l \in Lanes, NEW h, NEW W, TakenUp(l, h, W)
  PROVE  LaneInv'
<1>1. CASE LoopsOn(l, lane[l].epoch, lane[l].conv, {}, busy)
  BY <1>1, LiveLoops
<1>2. CASE Halts(l)
  BY <1>2, LiveHalts DEF Halts
<1>3. ASSUME NEW refused, To(l, "vetting", lane[l].epoch, lane[l].conv, W \ refused)
      PROVE  LaneInv'
  BY <1>3, LiveTo
<1> QED
  BY <1>1, <1>2, <1>3 DEF TakenUp

LEMMA LiveResumed ==
  ASSUME NEW l \in Lanes, Resumed(l)
  PROVE  LaneInv'
BY LiveLoops, LiveHalts DEF Resumed, Halts

LEMMA LaneNext ==
  ASSUME TypeIInv, LaneInv, [Next]_vars
  PROVE  LaneInv'
<1>1. ASSUME NEW l \in Lanes, Admit(l) \/ Text(l) PROVE LaneInv'
  BY <1>1, AdmitDoes, TextDoes, LiveLoops, LiveHalts DEF Halts
<1>2. ASSUME NEW l \in Lanes, Quiet(l) PROVE LaneInv'
  BY <1>2, QuietDoes, LiveTo, LiveHalts DEF Halts
<1>3. ASSUME NEW l \in Lanes, Call(l) PROVE LaneInv'
  BY <1>3, CallDoes, LiveTakenUp, LiveTo
<1>4. ASSUME NEW l \in Lanes, ReadDone(l) \/ Offer(l) PROVE LaneInv'
  BY <1>4, ReadDoneDoes, OfferDoes, LiveTakenUp, LiveHalts DEF Halts
<1>5. ASSUME NEW l \in Lanes, Check(l) PROVE LaneInv'
  BY <1>5, CheckDoes, LiveResumed, LiveTo
<1>6. ASSUME NEW l \in Lanes, Succeed(l) PROVE LaneInv'
  BY <1>6, SucceedDoes, LiveResumed, LiveTo
<1>7. ASSUME NEW l \in Lanes, Fail(l) \/ BatchDone(l) PROVE LaneInv'
  BY <1>7, FailDoes, BatchDoneDoes, LiveResumed
<1>8. ASSUME NEW c \in Calls, Approve(c) PROVE LaneInv'
  BY <1>8, ApproveDoes, LiveTo
<1>9. ASSUME NEW c \in Calls, Reject(c) PROVE LaneInv'
  BY <1>9, RejectDoes, LiveLoops, LiveHalts
<1>10. CASE Send \/ Regenerate
  BY <1>10, SpeaksDoes, LiveTo
<1>11. ASSUME busy' = busy, lane' = lane PROVE LaneInv'
  BY <1>11 DEF LaneInv, Live
<1>12. CASE Stop \/ Switch \/ Scope \/ Recover \/ (NewChat \/ SelectSession) \/ Restore
  BY <1>11, <1>12, StopDoes, SwitchDoes, ScopeDoes, RecoverDoes, ResetsDoes, RestoreDoes, LiveHalts
<1>13. CASE UNCHANGED vars
  BY <1>11, <1>13 DEF vars, flags
<1> QED
  BY <1>1, <1>2, <1>3, <1>4, <1>5, <1>6, <1>7, <1>8, <1>9, <1>10, <1>12, <1>13, StepIsOne

(* The input is never left closed with nobody at work: every way out of a  *)
(* lane, a recovery, a reset and a restored conversation clear the flag    *)
(* (the finally blocks of send and resolveConfirmation, recoverStuck).     *)
THEOREM TheInputOpensAgain == Spec => []BusyHasALane
<1>1. Init => LaneInv
  BY DEF Init, LaneInv
<1>2. Spec => [](TypeIInv /\ LaneInv)
  BY <1>1, TypeInit, TypeNext, LaneNext, PTL DEF Spec
<1>3. LaneInv <=> BusyHasALane
  BY DEF LaneInv, BusyHasALane
<1> QED
  BY <1>2, <1>3, PTL

-----------------------------------------------------------------------------
(* A call is in one pair of hands. *)

CallFine(c) ==
  /\ c \in pending \/ (\E l \in Lanes : Holds(l, c)) => effects[c] = <<>> /\ card[c] \notin {"new", "rejected"}
  /\ c \in pending => \A l \in Lanes : ~Holds(l, c)
  /\ \A l, m \in Lanes : Holds(l, c) /\ Holds(m, c) => l = m
  /\ card[c] \in {"new", "rejected"} => effects[c] = <<>>
  /\ Len(effects[c]) <= 1

LEMMA CallInvIsFine == CallInv <=> \A c \in Calls : CallFine(c)
BY DEF CallInv, CallFine

(* What a step lets a call keep.                                           *)
Kept(c) ==
  /\ c \in pending' => c \in pending
  /\ \A m \in Lanes : Holds(m, c)' => Holds(m, c)
  /\ effects'[c] = effects[c]
  /\ card'[c] = card[c] \/ card'[c] \notin {"new", "rejected"}

LEMMA KeptIsFine ==
  ASSUME NEW c \in Calls, CallFine(c), Kept(c)
  PROVE  CallFine(c)'
<1> USE DEF CallFine, Kept
<1>1. (c \in pending' \/ \E l \in Lanes : Holds(l, c)') => effects'[c] = <<>> /\ card'[c] \notin {"new", "rejected"}
  OBVIOUS
<1>2. c \in pending' => \A l \in Lanes : ~Holds(l, c)'
  OBVIOUS
<1>3. \A l, m \in Lanes : Holds(l, c)' /\ Holds(m, c)' => l = m
  OBVIOUS
<1>4. card'[c] \in {"new", "rejected"} => effects'[c] = <<>>
  OBVIOUS
<1>5. Len(effects'[c]) <= 1
  OBVIOUS
<1> QED
  BY <1>1, <1>2, <1>3, <1>4, <1>5

LEMMA HoldsTo ==
  ASSUME NEW l \in Lanes, NEW a, NEW e, NEW v, NEW C, To(l, a, e, v, C), NEW c
  PROVE  \A m \in Lanes : Holds(m, c)' <=> IF m = l THEN a \in Holding /\ c \in C ELSE Holds(m, c)
BY DEF Holds, To

LEMMA HoldsEnds ==
  ASSUME NEW l \in Lanes, NEW e, NEW v, NEW C, NEW shown, NEW c,
         Halts(l) \/ LoopsOn(l, e, v, C, shown) \/ Resumed(l)
  PROVE  \A m \in Lanes : Holds(m, c)' => Holds(m, c) /\ m # l
<1>1. CASE Halts(l)
  BY <1>1, HoldsTo DEF Halts, Holding
<1>2. ASSUME NEW x, NEW y, NEW Z, To(l, "asking", x, y, Z)
      PROVE  \A m \in Lanes : Holds(m, c)' => Holds(m, c) /\ m # l
  BY <1>2, HoldsTo DEF Holding
<1> QED
  BY <1>1, <1>2 DEF LoopsOn, Resumed

LEMMA HoldsSame ==
  ASSUME lane' = lane, NEW c
  PROVE  \A m \in Lanes : Holds(m, c)' => Holds(m, c)
BY DEF Holds

LEMMA HoldsTakenUp ==
  ASSUME NEW l \in Lanes, NEW h, NEW W, TakenUp(l, h, W), NEW c
  PROVE  /\ c \in pending' => c \in pending
         /\ \A m \in Lanes : Holds(m, c)' => (m # l /\ Holds(m, c)) \/ (m = l /\ c \in W)
<1>1. c \in pending' => c \in pending
  BY DEF TakenUp
<1>2. CASE Halts(l) \/ LoopsOn(l, lane[l].epoch, lane[l].conv, {}, busy)
  BY <1>1, <1>2, HoldsEnds
<1>3. ASSUME NEW refused \in SUBSET W, To(l, "vetting", lane[l].epoch, lane[l].conv, W \ refused)
      PROVE  \A m \in Lanes : Holds(m, c)' => (m # l /\ Holds(m, c)) \/ (m = l /\ c \in W)
  BY <1>3, HoldsTo
<1> QED
  BY <1>1, <1>2, <1>3 DEF TakenUp

LEMMA CallFineCall ==
  ASSUME TypeIInv, NEW l \in Lanes, Call(l), NEW c \in Calls, CallFine(c)
  PROVE  CallFine(c)'
<1>1. PICK C \in SUBSET Calls :
              /\ C # {} /\ \A d \in C : card[d] = "new"
              /\ \A d \in Calls : card'[d] = IF d \in C THEN "called" ELSE card[d]
              /\ \/ C \cap Reads = {} /\ TakenUp(l, Append(history, CallsTurn(C, lane[l].conv)), C)
                 \/ /\ history' = Append(history, CallsTurn(C, lane[l].conv))
                    /\ To(l, "reading", lane[l].epoch, lane[l].conv, C) /\ UNCHANGED <<busy, pending>>
  BY CallDoes
<1>2. effects' = effects
  BY CallDoes
<1>3. c \in pending' => c \in pending
  BY <1>1, HoldsTakenUp
<1>4. \A m \in Lanes : Holds(m, c)' => (m # l /\ Holds(m, c)) \/ (m = l /\ c \in C)
  <2>1. CASE TakenUp(l, Append(history, CallsTurn(C, lane[l].conv)), C)
    BY <2>1, HoldsTakenUp
  <2>2. CASE To(l, "reading", lane[l].epoch, lane[l].conv, C)
    BY <2>2, HoldsTo
  <2> QED
    BY <1>1, <2>1, <2>2
<1>5. CASE c \notin C
  <2>1. Kept(c)
    BY <1>1, <1>2, <1>3, <1>4, <1>5 DEF Kept
  <2> QED
    BY <2>1, KeptIsFine
<1>6. CASE c \in C
  <2>1. effects[c] = <<>> /\ c \notin pending /\ \A m \in Lanes : ~Holds(m, c)
    BY <1>1, <1>6 DEF CallFine
  <2>2. effects'[c] = <<>> /\ c \notin pending' /\ card'[c] = "called"
    BY <1>1, <1>2, <1>3, <1>6, <2>1
  <2>3. \A m \in Lanes : Holds(m, c)' => m = l
    BY <1>4, <2>1
  <2>4. Len(effects'[c]) <= 1
    BY <2>2
  <2> QED
    BY <2>2, <2>3, <2>4 DEF CallFine
<1> QED
  BY <1>5, <1>6

LEMMA CallFineOffer ==
  ASSUME TypeIInv, NEW l \in Lanes, Offer(l), NEW c \in Calls, CallFine(c)
  PROVE  CallFine(c)'
<1>1. PICK blocked \in SUBSET lane[l].calls :
              /\ pending' = pending \cup (lane[l].calls \ blocked)
              /\ c \in lane[l].calls \ blocked => card'[c] = "pending"
              /\ c \in blocked => card'[c] = "error"
              /\ c \notin lane[l].calls => card'[c] = card[c]
  BY OfferDoes
<1>2. effects' = effects /\ Halts(l) /\ lane[l].at = "vetting"
  BY OfferDoes
<1>3. \A m \in Lanes : Holds(m, c)' => Holds(m, c) /\ m # l
  BY <1>2, HoldsEnds
<1>4. CASE c \notin lane[l].calls \ blocked
  <2>1. Kept(c)
    BY <1>1, <1>2, <1>3, <1>4 DEF Kept
  <2> QED
    BY <2>1, KeptIsFine
<1>5. CASE c \in lane[l].calls \ blocked
  <2>1. Holds(l, c)
    BY <1>2, <1>5 DEF Holds, Holding
  <2>2. effects[c] = <<>> /\ Len(effects[c]) <= 1 /\ \A m \in Lanes : Holds(m, c) => m = l
    BY <2>1 DEF CallFine
  <2>3. card'[c] = "pending" /\ effects'[c] = <<>> /\ Len(effects'[c]) <= 1 /\ \A m \in Lanes : ~Holds(m, c)'
    BY <1>1, <1>2, <1>3, <1>5, <2>2
  <2> QED
    BY <2>3 DEF CallFine
<1> QED
  BY <1>4, <1>5

LEMMA CallFineMade ==
  ASSUME TypeIInv, NEW l \in Lanes, lane[l].at = "executing", Made(l), pending' = pending,
         NEW c \in Calls, CallFine(c),
         card'[c] = card[c] \/ (c \in lane[l].calls /\ card'[c] \notin {"new", "rejected"}),
         \A m \in Lanes : Holds(m, c)' => Holds(m, c) /\ m # l
  PROVE  CallFine(c)'
<1>1. CASE c \notin lane[l].calls
  <2>1. Kept(c)
    BY <1>1 DEF Kept, Made
  <2> QED
    BY <2>1, KeptIsFine
<1>2. CASE c \in lane[l].calls
  <2>1. Holds(l, c)
    BY <1>2 DEF Holds, Holding
  <2>2. /\ effects[c] = <<>> /\ c \notin pending /\ card[c] \notin {"new", "rejected"}
        /\ \A m \in Lanes : Holds(m, c) => m = l
    BY <2>1 DEF CallFine
  <2>3. effects'[c] = Append(<<>>, lane[l].into)
    BY <1>2, <2>2 DEF Made
  <2>4. Len(effects'[c]) <= 1
    BY <2>3
  <2>5. c \notin pending' /\ card'[c] \notin {"new", "rejected"} /\ \A m \in Lanes : ~Holds(m, c)'
    BY <2>2
  <2> QED
    BY <2>4, <2>5 DEF CallFine
<1> QED
  BY <1>1, <1>2

LEMMA CallFineApprove ==
  ASSUME TypeIInv, NEW d \in Calls, Approve(d), NEW c \in Calls, CallFine(c)
  PROVE  CallFine(c)'
<1>1. PICK s \in Lanes : lane[s].at = "idle" /\ To(s, "checking", epoch, conv, {d})
  BY ApproveDoes
<1>2. pending' = pending \ {d} /\ d \in pending /\ UNCHANGED <<card, effects>>
  BY ApproveDoes
<1>3. \A m \in Lanes : Holds(m, c)' => Holds(m, c) \/ (m = s /\ c = d)
  BY <1>1, HoldsTo
<1>4. CASE c # d
  <2>1. Kept(c)
    BY <1>2, <1>3, <1>4 DEF Kept
  <2> QED
    BY <2>1, KeptIsFine
<1>5. CASE c = d
  <2>1. effects[c] = <<>> /\ card[c] \notin {"new", "rejected"} /\ \A m \in Lanes : ~Holds(m, c)
    BY <1>2, <1>5 DEF CallFine
  <2>2. c \notin pending' /\ \A m \in Lanes : Holds(m, c)' => m = s
    BY <1>2, <1>3, <1>5, <2>1
  <2>3. effects'[c] = effects[c] /\ card'[c] = card[c] /\ Len(effects'[c]) <= 1
    BY <1>2 DEF CallFine
  <2> QED
    BY <2>1, <2>2, <2>3 DEF CallFine
<1> QED
  BY <1>4, <1>5

LEMMA CallFineReject ==
  ASSUME TypeIInv, NEW d \in Calls, Reject(d), NEW c \in Calls, CallFine(c)
  PROVE  CallFine(c)'
<1>1. pending' = pending \ {d} /\ d \in pending /\ effects' = effects /\ Shown({d}, "rejected")
  BY RejectDoes
<1>2. \A m \in Lanes : Holds(m, c)' => Holds(m, c)
  <2>1. CASE lane' = lane
    BY <2>1, HoldsSame
  <2>2. ASSUME NEW s \in Lanes, LoopsOn(s, epoch, conv, {}, TRUE)
        PROVE  \A m \in Lanes : Holds(m, c)' => Holds(m, c)
    BY <2>2, HoldsEnds
  <2> QED
    BY <2>1, <2>2, RejectDoes
<1>3. CASE c # d
  <2>1. card'[c] = card[c]
    BY <1>1, <1>3 DEF Shown
  <2>2. Kept(c)
    BY <1>1, <1>2, <2>1 DEF Kept
  <2> QED
    BY <2>2, KeptIsFine
<1>4. CASE c = d
  <2>1. effects[c] = <<>> /\ \A m \in Lanes : ~Holds(m, c)
    BY <1>1, <1>4 DEF CallFine
  <2>2. c \notin pending' /\ (\A m \in Lanes : ~Holds(m, c)') /\ effects'[c] = <<>>
    BY <1>1, <1>2, <1>4, <2>1
  <2>3. Len(effects'[c]) <= 1
    BY <2>2
  <2> QED
    BY <2>2, <2>3 DEF CallFine
<1> QED
  BY <1>3, <1>4

LEMMA CallFineNext ==
  ASSUME TypeIInv, [Next]_vars, NEW c \in Calls, CallFine(c)
  PROVE  CallFine(c)'
<1>1. ASSUME NEW l \in Lanes, Admit(l) \/ Text(l) PROVE CallFine(c)'
  <2>1. UNCHANGED <<pending, card, effects>> /\ (Halts(l) \/ LoopsOn(l, epoch, lane[l].conv, {}, busy))
    BY <1>1, AdmitDoes, TextDoes
  <2> QED
    BY <2>1, HoldsEnds, KeptIsFine DEF Kept
<1>2. ASSUME NEW l \in Lanes, Quiet(l) PROVE CallFine(c)'
  <2>1. UNCHANGED <<pending, card, effects>>
    BY <1>2, QuietDoes
  <2>2. \A m \in Lanes : Holds(m, c)' => Holds(m, c)
    <3>1. CASE Halts(l)
      BY <3>1, HoldsEnds
    <3>2. ASSUME NEW a \in {"pausing", "asking"}, To(l, a, lane[l].epoch, lane[l].conv, lane[l].calls)
          PROVE  \A m \in Lanes : Holds(m, c)' => Holds(m, c)
      BY <3>2, HoldsTo DEF Holding
    <3> QED
      BY <1>2, <3>1, <3>2, QuietDoes
  <2> QED
    BY <2>1, <2>2, KeptIsFine DEF Kept
<1>3. ASSUME NEW l \in Lanes, ReadDone(l) PROVE CallFine(c)'
  <2> DEFINE h == AnswerAtTail(history, lane[l].calls \cap Reads, lane[l].conv)
  <2>1. /\ UNCHANGED <<card, effects>> /\ lane[l].at = "reading"
        /\ TakenUp(l, h, lane[l].calls \ Reads)
    BY <1>3, ReadDoneDoes
  <2> HIDE DEF h
  <2>2. (c \in pending' => c \in pending) /\ \A m \in Lanes : Holds(m, c)' => Holds(m, c)
    BY <2>1, HoldsTakenUp DEF Holds, Holding
  <2> QED
    BY <2>1, <2>2, KeptIsFine DEF Kept
<1>4. ASSUME NEW l \in Lanes, Check(l) PROVE CallFine(c)'
  <2>1. pending' = pending /\ effects' = effects /\ lane[l].at = "checking"
    BY <1>4, CheckDoes
  <2>2. card'[c] = card[c] \/ card'[c] \notin {"new", "rejected"}
    BY <1>4, CheckDoes DEF Shown
  <2>3. \A m \in Lanes : Holds(m, c)' => Holds(m, c)
    <3>1. CASE To(l, "executing", lane[l].epoch, lane[l].conv, lane[l].calls)
      BY <2>1, <3>1, HoldsTo DEF Holds, Holding
    <3>2. CASE Resumed(l)
      BY <3>2, HoldsEnds
    <3> QED
      BY <1>4, <3>1, <3>2, CheckDoes
  <2> QED
    BY <2>1, <2>2, <2>3, KeptIsFine DEF Kept
<1>5. ASSUME NEW l \in Lanes, Succeed(l) PROVE CallFine(c)'
  <2>1. /\ pending' = pending /\ lane[l].at = "executing" /\ Made(l)
        /\ Shown(lane[l].calls, "success")
        /\ To(l, "running", epoch, lane[l].conv, lane[l].calls) \/ Resumed(l)
    BY <1>5, SucceedDoes
  <2>2. \A m \in Lanes : Holds(m, c)' => Holds(m, c) /\ m # l
    BY <2>1, HoldsEnds, HoldsTo DEF Holding
  <2>3. card'[c] = card[c] \/ (c \in lane[l].calls /\ card'[c] \notin {"new", "rejected"})
    BY <2>1 DEF Shown
  <2> QED
    BY <2>1, <2>2, <2>3, CallFineMade
<1>6. ASSUME NEW l \in Lanes, Fail(l) PROVE CallFine(c)'
  <2>1. /\ pending' = pending /\ lane[l].at = "executing" /\ Shown(lane[l].calls, "error") /\ Resumed(l)
        /\ Made(l) \/ effects' = effects
    BY <1>6, FailDoes
  <2>2. \A m \in Lanes : Holds(m, c)' => Holds(m, c) /\ m # l
    BY <2>1, HoldsEnds
  <2>3. card'[c] = card[c] \/ (c \in lane[l].calls /\ card'[c] \notin {"new", "rejected"})
    BY <2>1 DEF Shown
  <2>4. CASE Made(l)
    BY <2>1, <2>2, <2>3, <2>4, CallFineMade
  <2>5. CASE effects' = effects
    BY <2>1, <2>2, <2>3, <2>5, KeptIsFine DEF Kept
  <2> QED
    BY <2>1, <2>4, <2>5
<1>7. ASSUME NEW l \in Lanes, BatchDone(l) PROVE CallFine(c)'
  <2>1. UNCHANGED <<pending, card, effects>> /\ Resumed(l)
    BY <1>7, BatchDoneDoes
  <2> QED
    BY <2>1, HoldsEnds, KeptIsFine DEF Kept
<1>8. CASE Send \/ Regenerate
  <2>1. PICK s \in Lanes : lane[s].at = "idle" /\ To(s, "preamble", epoch, conv', {})
    BY <1>8, SpeaksDoes
  <2>2. \A m \in Lanes : Holds(m, c)' => Holds(m, c)
    BY <2>1, HoldsTo
  <2>3. UNCHANGED <<pending, effects>> /\ (card'[c] = card[c] \/ card'[c] \notin {"new", "rejected"})
    BY <1>8, SpeaksDoes DEF Shown
  <2> QED
    BY <2>2, <2>3, KeptIsFine DEF Kept
<1>9. CASE Stop \/ Recover \/ Switch \/ Scope \/ (NewChat \/ SelectSession) \/ Restore
  <2>1. UNCHANGED <<lane, effects>> /\ (pending' = pending \/ pending' = {})
    BY <1>9, StopDoes, RecoverDoes, SwitchDoes, ScopeDoes, ResetsDoes, RestoreDoes
  <2>2. card'[c] = card[c] \/ card'[c] \notin {"new", "rejected"}
    BY <1>9, StopDoes, RecoverDoes, SwitchDoes, ScopeDoes, ResetsDoes, RestoreDoes DEF Shown
  <2> QED
    BY <2>1, <2>2, HoldsSame, KeptIsFine DEF Kept
<1>10. CASE UNCHANGED vars
  BY <1>10, HoldsSame, KeptIsFine DEF Kept, vars, talk, facts
<1> QED
  BY <1>1, <1>2, <1>3, <1>4, <1>5, <1>6, <1>7, <1>8, <1>9, <1>10, StepIsOne,
     CallFineCall, CallFineOffer, CallFineApprove, CallFineReject

LEMMA CallNext ==
  ASSUME TypeIInv, CallInv, [Next]_vars
  PROVE  CallInv'
<1>1. \A c \in Calls : CallFine(c)'
  BY CallInvIsFine, CallFineNext
<1> QED
  BY <1>1 DEF CallInv, CallFine

LEMMA CallInit ==
  ASSUME Init
  PROVE  CallInv
<1> SUFFICES ASSUME NEW c \in Calls PROVE CallFine(c)
  BY CallInvIsFine
<1>1. effects[c] = <<>> /\ c \notin pending
  BY DEF Init
<1>2. \A l \in Lanes : ~Holds(l, c)
  BY IdleIsRecord DEF Init, Holds, Holding
<1>3. Len(effects[c]) <= 1
  BY <1>1
<1> QED
  BY <1>1, <1>2, <1>3 DEF CallFine

-----------------------------------------------------------------------------
(* A call that waits has its card on the screen. *)

LEMMA CardKept ==
  ASSUME CardInv, mishaps \subseteq mishaps',
         "replaced" \notin mishaps' => \A c \in pending' : card'[c] = "pending" \/ (c \in pending /\ card'[c] = card[c])
  PROVE  CardInv'
BY DEF CardInv

LEMMA CardNext ==
  ASSUME TypeIInv, CallInv, CardInv, [Next]_vars
  PROVE  CardInv'
<1>0. pending \subseteq Calls
  BY TypesNow
<1>1. ASSUME NEW l \in Lanes, Admit(l) \/ Quiet(l) \/ Text(l) \/ BatchDone(l) PROVE CardInv'
  <2>1. UNCHANGED <<pending, card, mishaps>>
    BY <1>1, AdmitDoes, QuietDoes, TextDoes, BatchDoneDoes
  <2> QED
    BY <2>1, CardKept
<1>2. ASSUME NEW l \in Lanes, Call(l) PROVE CardInv'
  <2>1. PICK C \in SUBSET Calls :
              /\ \A d \in C : card[d] = "new"
              /\ \A d \in Calls : card'[d] = IF d \in C THEN "called" ELSE card[d]
              /\ \/ TakenUp(l, Append(history, CallsTurn(C, lane[l].conv)), C)
                 \/ UNCHANGED pending
    BY <1>2, CallDoes
  <2>2. mishaps' = mishaps /\ \A c \in pending' : c \in pending
    BY <1>2, <2>1, CallDoes, HoldsTakenUp
  <2>3. \A c \in pending : c \notin C
    BY <1>0, <2>1 DEF CallInv
  <2> QED
    BY <1>0, <2>1, <2>2, <2>3, CardKept
<1>3. ASSUME NEW l \in Lanes, ReadDone(l) PROVE CardInv'
  <2>1. UNCHANGED <<card, mishaps>> /\ \A c \in pending' : c \in pending
    BY <1>3, ReadDoneDoes, HoldsTakenUp
  <2> QED
    BY <2>1, CardKept
<1>4. ASSUME NEW l \in Lanes, lane[l].at \in Holding, NEW c \in pending
      PROVE  c \notin lane[l].calls
  BY <1>0, <1>4 DEF CallInv, Holds
<1>5. ASSUME NEW l \in Lanes, Offer(l) PROVE CardInv'
  <2>1. PICK blocked \in SUBSET lane[l].calls :
              /\ pending' = pending \cup (lane[l].calls \ blocked)
              /\ \A c \in Calls : /\ c \in lane[l].calls \ blocked => card'[c] = "pending"
                                  /\ c \notin lane[l].calls => card'[c] = card[c]
    BY <1>5, OfferDoes
  <2>2. mishaps' = mishaps /\ lane[l].at \in Holding
    BY <1>5, OfferDoes DEF Holding
  <2>3. lane[l].calls \subseteq Calls
    BY TypesNow, LaneIsRecord DEF Records
  <2>4. \A c \in pending' : card'[c] = "pending" \/ (c \in pending /\ card'[c] = card[c])
    BY <1>0, <1>4, <2>1, <2>2, <2>3
  <2> QED
    BY <2>2, <2>4, CardKept
<1>6. ASSUME NEW l \in Lanes, Check(l) \/ Succeed(l) \/ Fail(l) PROVE CardInv'
  <2>1. UNCHANGED <<pending, mishaps>> /\ lane[l].at \in Holding
    BY <1>6, CheckDoes, SucceedDoes, FailDoes DEF Holding
  <2>2. \A c \in Calls : c \notin lane[l].calls => card'[c] = card[c]
    BY <1>6, CheckDoes, SucceedDoes, FailDoes DEF Shown
  <2> QED
    BY <1>0, <1>4, <2>1, <2>2, CardKept
<1>7. ASSUME NEW d \in Calls, Approve(d) PROVE CardInv'
  <2>1. pending' = pending \ {d} /\ card' = card /\ mishaps \subseteq mishaps'
    BY <1>7, ApproveDoes DEF Crowded
  <2> QED
    BY <2>1, CardKept
<1>8. ASSUME NEW d \in Calls, Reject(d) PROVE CardInv'
  <2>1. pending' = pending \ {d} /\ Shown({d}, "rejected") /\ mishaps \subseteq mishaps'
    BY <1>8, RejectDoes DEF Crowded
  <2> QED
    BY <1>0, <2>1, CardKept DEF Shown
<1>9. CASE Send \/ Regenerate
  <2>1. pending' = {} /\ mishaps' = mishaps
    BY <1>9, SpeaksDoes
  <2> QED
    BY <2>1, CardKept
<1>10. CASE Stop \/ Recover \/ Switch
  <2>1. UNCHANGED <<pending, card>> /\ mishaps \subseteq mishaps'
    BY <1>10, StopDoes, RecoverDoes, SwitchDoes DEF Overtaken
  <2> QED
    BY <2>1, CardKept
<1>11. CASE Scope \/ (NewChat \/ SelectSession)
  <2>1. pending' = {} /\ mishaps \subseteq mishaps'
    BY <1>11, ScopeDoes, ResetsDoes DEF Overtaken, Replaced
  <2> QED
    BY <2>1, CardKept
<1>12. CASE Restore
  <2>1. CASE UNCHANGED <<pending, card, mishaps>>
    BY <2>1, CardKept
  <2>2. CASE pending' = pending /\ Replaced(Live \cup pending)
    BY <2>2, CardKept DEF Replaced
  <2> QED
    BY <1>12, <2>1, <2>2, RestoreDoes
<1>13. CASE UNCHANGED vars
  BY <1>13, CardKept DEF vars, talk, facts
<1> QED
  BY <1>1, <1>2, <1>3, <1>5, <1>6, <1>7, <1>8, <1>9, <1>10, <1>11, <1>12, <1>13, StepIsOne

(* A call the user has yet to answer can be answered: no lane takes its    *)
(* card away, however stale, and a message that drops cards is only taken  *)
(* when nothing waits.  Only a conversation that is restored under it      *)
(* strands it (resolveConfirmation, reset, regenerate).                    *)
THEOREM WaitingCallsAreAnswerable == Spec => []Answerable
<1>1. Init => CardInv
  BY DEF Init, CardInv
<1>2. Spec => [](TypeIInv /\ CallInv /\ CardInv)
  BY <1>1, TypeInit, CallInit, TypeNext, CallNext, CardNext, PTL DEF Spec
<1>3. CardInv <=> Answerable
  BY DEF CardInv, Answerable
<1> QED
  BY <1>2, <1>3, PTL

-----------------------------------------------------------------------------
(* A lane works for its own conversation. *)

LaneIn(l) ==
  /\ GoesOn(l) => lane[l].conv = conv
  /\ lane[l].at = "checking" => conv.of = company /\ \A c \in lane[l].calls : offered[c] = company
  /\ lane[l].at = "executing" => \A c \in lane[l].calls : offered[c] = lane[l].into

EffectIn(c) == effects[c] # <<>> => effects[c][1] = offered[c]

Settled ==
  /\ scoped = 0 => pending = {} /\ Live = {} /\ history = <<>>
  /\ \A l \in Lanes : LaneIn(l)
  /\ AllOf(history, conv)
  /\ \A c \in pending : offered[c] = conv.of
  /\ \A c \in Calls : EffectIn(c)

LEMMA ConvInvIs ==
  ConvInv <=> /\ scoped \in {0, conv.of}
              /\ \A l \in Lanes : lane[l].epoch <= epoch
              /\ Untouched => Settled
BY DEF ConvInv, Settled, LaneIn, EffectIn, AllOf

LEMMA ConvInvWas ==
  ASSUME scoped' \in {0, conv'.of}, \A l \in Lanes : lane'[l].epoch <= epoch', Untouched' => Settled'
  PROVE  ConvInv'
BY DEF ConvInv, Settled, LaneIn, EffectIn, AllOf

(* A step of lane l after which it is no write under way.                  *)
Moves(l) ==
  \E a, v, C : \E e \in Nat :
    /\ To(l, a, e, v, C) /\ e <= epoch /\ a \notin {"checking", "executing"}
    /\ a = "idle" \/ (Untouched => v = conv)

LEMMA HaltsMoves ==
  ASSUME TypeIInv, NEW l \in Lanes, Halts(l)
  PROVE  Moves(l)
<1>1. 0 \in Nat /\ 0 <= epoch
  BY TypesNow
<1>2. To(l, "idle", 0, Idle.conv, {})
  BY DEF Halts
<1> QED
  BY <1>1, <1>2 DEF Moves

LEMMA ToMoves ==
  ASSUME TypeIInv, NEW l \in Lanes, NEW a, NEW e \in Nat, NEW v, NEW C, To(l, a, e, v, C),
         e <= epoch, a \notin {"checking", "executing"}, Untouched => v = conv
  PROVE  Moves(l)
BY DEF Moves

LEMMA LoopsMoves ==
  ASSUME TypeIInv, NEW l \in Lanes, NEW e \in Nat, NEW v, NEW C, NEW shown, LoopsOn(l, e, v, C, shown),
         e <= epoch, Untouched => v = conv
  PROVE  Moves(l)
BY HaltsMoves, ToMoves DEF LoopsOn

LEMMA ResumedMoves ==
  ASSUME TypeIInv, NEW l \in Lanes, Resumed(l), Untouched => lane[l].conv = conv
  PROVE  Moves(l)
<1>1. epoch \in Nat /\ epoch <= epoch
  BY TypesNow
<1> QED
  BY <1>1, HaltsMoves, LoopsMoves DEF Resumed

LEMMA TakenUpMoves ==
  ASSUME TypeIInv, NEW l \in Lanes, NEW h, NEW W, TakenUp(l, h, W),
         lane[l].epoch <= epoch, Untouched => lane[l].conv = conv
  PROVE  Moves(l)
<1>1. lane[l].epoch \in Nat
  BY TypesNow, LaneIsRecord DEF Records
<1>2. ASSUME NEW refused, To(l, "vetting", lane[l].epoch, lane[l].conv, W \ refused)
      PROVE  Moves(l)
  BY <1>1, <1>2, ToMoves
<1> QED
  BY <1>1, <1>2, HaltsMoves, LoopsMoves DEF TakenUp

LEMMA MovesIn ==
  ASSUME TypeIInv, NEW l \in Lanes, Moves(l), Untouched, UNCHANGED <<epoch, conv, company>>
  PROVE  LaneIn(l)'
<1>1. PICK a, v, C : \E e \in Nat :
        /\ To(l, a, e, v, C) /\ e <= epoch /\ a \notin {"checking", "executing"}
        /\ a = "idle" \/ (Untouched => v = conv)
  BY DEF Moves
<1>2. lane'[l].at = a /\ lane'[l].conv = v
  BY <1>1 DEF To
<1> QED
  BY <1>1, <1>2 DEF LaneIn, GoesOn, Unguarded

LEMMA OthersIn ==
  ASSUME TypeIInv, CallInv, NEW m \in Lanes, LaneIn(m), lane'[m] = lane[m], UNCHANGED <<epoch, conv, company>>,
         \A c \in Calls : Holds(m, c) => offered'[c] = offered[c]
  PROVE  LaneIn(m)'
<1>1. GoesOn(m)' <=> GoesOn(m)
  BY DEF GoesOn, Fresh
<1>2. lane[m].calls \subseteq Calls
  BY TypesNow, LaneIsRecord DEF Records
<1>3. lane[m].at \in {"checking", "executing"} => \A c \in lane[m].calls : offered'[c] = offered[c]
  BY <1>2 DEF Holds, Holding
<1> QED
  BY <1>1, <1>3 DEF LaneIn

(* What every step of a lane has in common.                                *)
Travels(l) ==
  /\ lane[l].at # "idle" /\ UNCHANGED <<epoch, company, scoped, conv, mishaps>>
  /\ \E e \in Nat : /\ e <= epoch /\ lane'[l].epoch = e
                    /\ \A m \in Lanes \ {l} : lane'[m] = lane[m]

LEMMA MovesTravels ==
  ASSUME NEW l \in Lanes, Moves(l), lane[l].at # "idle", UNCHANGED <<epoch, company, scoped, conv, mishaps>>
  PROVE  Travels(l)
BY DEF Moves, Travels, To

LEMMA ConvLane ==
  ASSUME TypeIInv, CallInv, ConvInv, NEW l \in Lanes, Travels(l),
         \A m \in Lanes \ {l}, c \in Calls : Holds(m, c) => offered'[c] = offered[c],
         Untouched => /\ LaneIn(l)' /\ AllOf(history', conv)
                      /\ \A c \in pending' : offered'[c] = conv.of
                      /\ \A c \in Calls : EffectIn(c)'
  PROVE  ConvInv'
<1>1. scoped' \in {0, conv'.of}
  BY ConvInvIs DEF Travels
<1>2. \A m \in Lanes : lane'[m].epoch <= epoch'
  BY ConvInvIs DEF Travels
<1>3. ASSUME Untouched'
      PROVE  Settled'
  <2>1. Untouched /\ Settled
    BY <1>3, ConvInvIs DEF Travels, Untouched
  <2>2. scoped # 0
    BY <2>1 DEF Settled, Live, Travels
  <2>3. \A m \in Lanes : LaneIn(m)'
    BY <2>1, OthersIn DEF Settled, Travels
  <2>4. AllOf(history, conv)' /\ (\A c \in pending' : offered'[c] = conv'.of) /\ scoped' # 0
    BY <2>1, <2>2 DEF Travels, AllOf
  <2> QED
    BY <2>1, <2>3, <2>4 DEF Settled
<1> QED
  BY <1>1, <1>2, <1>3, ConvInvWas

(* The steps that offer nothing and make no write.                         *)
LEMMA ConvPlain ==
  ASSUME TypeIInv, CallInv, ConvInv, NEW l \in Lanes, Moves(l), lane[l].at # "idle",
         UNCHANGED <<epoch, company, scoped, conv, mishaps, offered, effects>>,
         \A c \in pending' : c \in pending,
         Untouched => AllOf(history', conv)
  PROVE  ConvInv'
<1>1. Travels(l)
  BY MovesTravels
<1>2. ASSUME Untouched
      PROVE  /\ LaneIn(l)' /\ AllOf(history', conv)
             /\ \A c \in pending' : offered'[c] = conv.of
             /\ \A c \in Calls : EffectIn(c)'
  BY <1>2, ConvInvIs, MovesIn DEF Settled, EffectIn
<1> QED
  BY <1>1, <1>2, ConvLane

LEMMA SaysHome ==
  ASSUME TypeIInv, NEW h \in Seq(Turns), NEW v \in Conversations, NEW kind \in Kinds, AllOf(h, v)
  PROVE  /\ Append(h, Turn(kind, v)) \in Seq(Turns) /\ AllOf(Append(h, Turn(kind, v)), v)
         /\ AllOf(WithSystem(h, v), v) /\ WithSystem(h, v) \in Seq(Turns)
BY TurnIsTurn, AppendTurn, WithSystemTyped

LEMMA CallsHome ==
  ASSUME NEW h \in Seq(Turns), NEW v \in Conversations, NEW C \in SUBSET Calls
  PROVE  /\ Append(h, CallsTurn(C, v)) \in Seq(Turns)
         /\ AllOf(h, v) => AllOf(Append(h, CallsTurn(C, v)), v)
<1>1. CallsTurn(C, v) \in Turns /\ CallsTurn(C, v).of = v
  BY CallsTurnIsTurn
<1> QED
  BY <1>1, AppendTurn

LEMMA ConvAsks ==
  ASSUME TypeIInv, CallInv, ConvInv, NEW l \in Lanes,
         Admit(l) \/ Quiet(l) \/ Text(l) \/ Call(l) \/ ReadDone(l) \/ BatchDone(l)
  PROVE  ConvInv'
<1>0. /\ lane[l] \in Records /\ lane[l].conv \in Conversations /\ lane[l].calls \in SUBSET Calls
      /\ lane[l].epoch \in Nat /\ lane[l].epoch <= epoch /\ epoch \in Nat /\ epoch <= epoch
  BY TypesNow, LaneIsRecord, ConvInvIs DEF Records
<1>1. history \in Seq(Turns) /\ conv \in Conversations
  BY TypesNow
<1>2. ASSUME GoesOn(l), Untouched
      PROVE  lane[l].conv = conv /\ AllOf(history, conv)
  BY <1>2, ConvInvIs DEF Settled, LaneIn
<1>3. {"user", "text"} \subseteq Kinds
  BY DEF Kinds
<1>4. CASE Admit(l)
  <2>1. /\ UNCHANGED <<epoch, pending, company, scoped, conv, offered, effects, mishaps>>
        /\ lane[l].at = "preamble"
        /\ \/ history' = WithSystem(history, lane[l].conv) /\ Halts(l)
           \/ /\ history' = Append(WithSystem(history, lane[l].conv), Turn("user", lane[l].conv))
              /\ LoopsOn(l, epoch, lane[l].conv, {}, busy)
    BY <1>4, AdmitDoes
  <2>2. GoesOn(l) /\ lane[l].at # "idle"
    BY <2>1 DEF GoesOn, Unguarded
  <2>3. Moves(l)
    BY <1>0, <1>2, <2>1, <2>2, HaltsMoves, LoopsMoves
  <2>4. Untouched => AllOf(history', conv)
    BY <1>1, <1>2, <1>3, <2>1, <2>2, SaysHome
  <2> QED
    BY <2>1, <2>2, <2>3, <2>4, ConvPlain
<1>5. CASE Quiet(l)
  <2>1. /\ UNCHANGED <<epoch, history, pending, company, scoped, conv, offered, effects, mishaps>>
        /\ lane[l].at \in {"asking", "pausing", "reading"}
        /\ \/ Halts(l)
           \/ /\ Fresh(l)
              /\ \/ To(l, "pausing", lane[l].epoch, lane[l].conv, lane[l].calls)
                 \/ To(l, "asking", lane[l].epoch, lane[l].conv, lane[l].calls)
    BY <1>5, QuietDoes
  <2>2. Moves(l) /\ lane[l].at # "idle"
    <3>1. CASE Halts(l)
      BY <2>1, <3>1, HaltsMoves
    <3>2. CASE ~Halts(l)
      <4>1. GoesOn(l)
        BY <2>1, <3>2 DEF GoesOn
      <4> QED
        BY <1>0, <1>2, <2>1, <3>2, <4>1, ToMoves
    <3> QED
      BY <3>1, <3>2
  <2>3. Untouched => AllOf(history', conv)
    BY <2>1, ConvInvIs DEF Settled
  <2> QED
    BY <2>1, <2>2, <2>3, ConvPlain
<1>6. CASE Text(l)
  <2> DEFINE said == Append(history, Turn("text", lane[l].conv))
  <2>1. /\ UNCHANGED <<epoch, pending, company, scoped, conv, offered, effects, mishaps>>
        /\ lane[l].at = "asking" /\ Fresh(l)
        /\ \/ history' = said /\ Halts(l)
           \/ history' = Append(said, Turn("user", lane[l].conv)) /\ LoopsOn(l, epoch, lane[l].conv, {}, busy)
    BY <1>6, TextDoes
  <2>2. GoesOn(l) /\ lane[l].at # "idle"
    BY <2>1 DEF GoesOn
  <2>3. Moves(l)
    BY <1>0, <1>2, <2>1, <2>2, HaltsMoves, LoopsMoves
  <2>4. ASSUME Untouched PROVE AllOf(history', conv)
    <3>1. said \in Seq(Turns) /\ AllOf(said, conv) /\ lane[l].conv = conv
      BY <1>1, <1>2, <1>3, <2>2, <2>4, SaysHome
    <3> HIDE DEF said
    <3> QED
      BY <1>1, <1>3, <2>1, <3>1, SaysHome
  <2> QED
    BY <2>1, <2>2, <2>3, <2>4, ConvPlain
<1>7. CASE Call(l)
  <2>1. /\ UNCHANGED <<epoch, company, scoped, conv, offered, effects, mishaps>>
        /\ lane[l].at = "asking" /\ Fresh(l)
    BY <1>7, CallDoes
  <2>2. PICK C \in SUBSET Calls :
              /\ C # {}
              /\ \/ C \cap Reads = {} /\ TakenUp(l, Append(history, CallsTurn(C, lane[l].conv)), C)
                 \/ /\ history' = Append(history, CallsTurn(C, lane[l].conv))
                    /\ To(l, "reading", lane[l].epoch, lane[l].conv, C) /\ UNCHANGED <<busy, pending>>
    BY <1>7, CallDoes
  <2> DEFINE h == Append(history, CallsTurn(C, lane[l].conv))
  <2>3. GoesOn(l) /\ lane[l].at # "idle"
    BY <2>1 DEF GoesOn
  <2>4. h \in Seq(Turns) /\ (Untouched => AllOf(h, conv))
    BY <1>0, <1>1, <1>2, <2>3, CallsHome
  <2> HIDE DEF h
  <2>5. TakenUp(l, h, C) \/ (history' = h /\ To(l, "reading", lane[l].epoch, lane[l].conv, C) /\ UNCHANGED pending)
    BY <2>2 DEF h
  <2>6. \A c \in pending' : c \in pending
    BY <2>5, HoldsTakenUp
  <2>7. Moves(l)
    BY <1>0, <1>2, <2>3, <2>5, TakenUpMoves, ToMoves
  <2>8. Untouched => AllOf(history', conv)
    <3>1. ASSUME NEW refused \in SUBSET C, history' = Answer(h, refused, lane[l].conv), Untouched
          PROVE  AllOf(history', conv)
      <4>1. refused \in SUBSET Calls /\ lane[l].conv = conv
        BY <1>2, <2>3, <3>1
      <4> QED
        BY <1>1, <2>4, <3>1, <4>1, AnswerTyped
    <3> QED
      BY <2>4, <2>5, <3>1 DEF TakenUp
  <2> QED
    BY <2>1, <2>3, <2>6, <2>7, <2>8, ConvPlain
<1>8. CASE ReadDone(l)
  <2> DEFINE h == AnswerAtTail(history, lane[l].calls \cap Reads, lane[l].conv)
             W == lane[l].calls \ Reads
  <2>1. /\ UNCHANGED <<epoch, company, scoped, conv, offered, effects, mishaps>>
        /\ lane[l].at = "reading" /\ Fresh(l) /\ TakenUp(l, h, W)
    BY <1>8, ReadDoneDoes
  <2>2. GoesOn(l) /\ lane[l].at # "idle"
    BY <2>1 DEF GoesOn
  <2>3. h \in Seq(Turns) /\ (Untouched => AllOf(h, conv))
    <3>1. lane[l].calls \cap Reads \in SUBSET Calls
      BY <1>0
    <3> QED
      BY <1>0, <1>1, <1>2, <2>2, <3>1, AnswerAtTailTyped
  <2>4. W \subseteq Calls
    BY <1>0
  <2> HIDE DEF h, W
  <2>5. \A c \in pending' : c \in pending
    BY <2>1, HoldsTakenUp
  <2>6. Moves(l)
    BY <1>0, <1>2, <2>1, <2>2, TakenUpMoves
  <2>7. Untouched => AllOf(history', conv)
    <3>1. ASSUME NEW refused \in SUBSET W, history' = Answer(h, refused, lane[l].conv), Untouched
          PROVE  AllOf(history', conv)
      <4>1. refused \in SUBSET Calls /\ lane[l].conv = conv
        BY <1>2, <2>2, <2>4, <3>1
      <4> QED
        BY <1>1, <2>3, <3>1, <4>1, AnswerTyped
    <3> QED
      BY <2>1, <2>3, <3>1 DEF TakenUp
  <2> QED
    BY <2>1, <2>2, <2>5, <2>6, <2>7, ConvPlain
<1>9. CASE BatchDone(l)
  <2> DEFINE said == Append(history, Turn("text", lane[l].conv))
  <2>1. /\ UNCHANGED <<epoch, pending, company, scoped, conv, offered, effects, mishaps>>
        /\ lane[l].at = "running" /\ Resumed(l)
        /\ \/ history' = Answer(history, lane[l].calls, lane[l].conv)
           \/ history' = Answer(said, lane[l].calls, lane[l].conv)
    BY <1>9, BatchDoneDoes
  <2>2. GoesOn(l) /\ lane[l].at # "idle"
    BY <2>1 DEF GoesOn, Unguarded
  <2>3. Moves(l)
    BY <1>2, <2>1, <2>2, ResumedMoves
  <2>4. ASSUME Untouched PROVE AllOf(history', conv)
    <3>1. said \in Seq(Turns) /\ AllOf(said, conv) /\ lane[l].conv = conv /\ AllOf(history, conv)
      BY <1>1, <1>2, <1>3, <2>2, <2>4, SaysHome
    <3> HIDE DEF said
    <3> QED
      BY <1>0, <1>1, <2>1, <3>1, AnswerTyped
  <2> QED
    BY <2>1, <2>2, <2>3, <2>4, ConvPlain
<1> QED
  BY <1>4, <1>5, <1>6, <1>7, <1>8, <1>9

LEMMA ConvOffer ==
  ASSUME TypeIInv, CallInv, ConvInv, NEW l \in Lanes, Offer(l)
  PROVE  ConvInv'
<1>0. /\ lane[l] \in Records /\ lane[l].conv \in Conversations /\ lane[l].calls \in SUBSET Calls
      /\ history \in Seq(Turns) /\ pending \subseteq Calls
  BY TypesNow, LaneIsRecord DEF Records
<1>1. /\ lane[l].at = "vetting" /\ Halts(l) /\ UNCHANGED <<epoch, company, scoped, conv, effects, mishaps>>
  BY OfferDoes
<1>2. PICK blocked \in SUBSET lane[l].calls :
              /\ history' = Answer(history, blocked, lane[l].conv)
              /\ pending' = pending \cup (lane[l].calls \ blocked)
              /\ \A c \in Calls : /\ c \in lane[l].calls \ blocked => offered'[c] = lane[l].conv.of
                                  /\ c \notin lane[l].calls \ blocked => offered'[c] = offered[c]
  BY OfferDoes
<1>3. Travels(l) /\ Moves(l)
  BY <1>1, HaltsMoves, MovesTravels
<1>4. \A c \in lane[l].calls : Holds(l, c)
  BY <1>1 DEF Holds, Holding
<1>5. \A m \in Lanes \ {l}, c \in Calls : Holds(m, c) => offered'[c] = offered[c]
  BY <1>2, <1>4 DEF CallInv
<1>6. ASSUME Untouched
      PROVE  /\ LaneIn(l)' /\ AllOf(history', conv)
             /\ \A c \in pending' : offered'[c] = conv.of
             /\ \A c \in Calls : EffectIn(c)'
  <2>1. lane[l].conv = conv /\ Settled
    BY <1>1, <1>6, ConvInvIs DEF Settled, LaneIn, GoesOn, Unguarded
  <2>2. LaneIn(l)'
    BY <1>1, <1>3, <1>6, MovesIn
  <2>3. AllOf(history', conv)
    <3>1. blocked \in SUBSET Calls
      BY <1>0
    <3> QED
      BY <1>0, <1>2, <2>1, <3>1, AnswerTyped DEF Settled
  <2>4. \A c \in pending' : offered'[c] = conv.of
    BY <1>0, <1>2, <2>1 DEF Settled
  <2>5. \A c \in Calls : EffectIn(c)'
    <3> SUFFICES ASSUME NEW c \in Calls PROVE EffectIn(c)'
      OBVIOUS
    <3>1. CASE c \in lane[l].calls \ blocked
      BY <1>1, <1>4, <3>1 DEF CallInv, EffectIn
    <3>2. CASE c \notin lane[l].calls \ blocked
      BY <1>1, <1>2, <2>1, <3>2 DEF Settled, EffectIn
    <3> QED
      BY <3>1, <3>2
  <2> QED
    BY <2>2, <2>3, <2>4, <2>5
<1> QED
  BY <1>3, <1>5, <1>6, ConvLane

LEMMA EffectsMade ==
  ASSUME TypeIInv, CallInv, Settled, NEW l \in Lanes, lane[l].at = "executing",
         Made(l) \/ effects' = effects, offered' = offered
  PROVE  \A c \in Calls : EffectIn(c)'
<1> SUFFICES ASSUME NEW c \in Calls PROVE EffectIn(c)'
  OBVIOUS
<1>1. CASE Made(l) /\ c \in lane[l].calls
  <2>1. effects[c] = <<>>
    BY <1>1 DEF CallInv, Holds, Holding
  <2>2. offered[c] = lane[l].into
    BY <1>1 DEF Settled, LaneIn
  <2>3. effects'[c] = Append(<<>>, lane[l].into)
    BY <1>1, <2>1 DEF Made
  <2>4. effects'[c][1] = lane[l].into
    BY <2>3
  <2> QED
    BY <2>2, <2>4 DEF EffectIn
<1>2. CASE ~(Made(l) /\ c \in lane[l].calls)
  <2>1. effects'[c] = effects[c]
    BY <1>2 DEF Made
  <2> QED
    BY <2>1 DEF Settled, EffectIn
<1> QED
  BY <1>1, <1>2

LEMMA ConvWrites ==
  ASSUME TypeIInv, CallInv, ConvInv, NEW l \in Lanes, Check(l) \/ Succeed(l) \/ Fail(l)
  PROVE  ConvInv'
<1>0. /\ lane[l] \in Records /\ lane[l].conv \in Conversations /\ lane[l].calls \in SUBSET Calls
      /\ history \in Seq(Turns) /\ conv \in Conversations
      /\ lane[l].epoch \in Nat /\ lane[l].epoch <= epoch /\ epoch \in Nat /\ epoch <= epoch
  BY TypesNow, LaneIsRecord, ConvInvIs DEF Records
<1>1. /\ lane[l].at \in {"checking", "executing"}
      /\ UNCHANGED <<epoch, pending, company, scoped, conv, offered, mishaps>>
      /\ history' = history \/ history' = Answer(history, lane[l].calls, lane[l].conv)
  BY CheckDoes, SucceedDoes, FailDoes
<1>2. GoesOn(l) /\ lane[l].at # "idle"
  BY <1>1 DEF GoesOn, Unguarded
<1>3. ASSUME Untouched
      PROVE  lane[l].conv = conv /\ AllOf(history, conv) /\ Settled /\ LaneIn(l)
  BY <1>2, <1>3, ConvInvIs DEF Settled, LaneIn
<1>4. Untouched => AllOf(history', conv)
  BY <1>0, <1>1, <1>3, AnswerTyped
<1>5. \A m \in Lanes \ {l}, c \in Calls : Holds(m, c) => offered'[c] = offered[c]
  BY <1>1
<1>6. Untouched => \A c \in pending' : offered'[c] = conv.of
  BY <1>1, <1>3 DEF Settled
<1>7. CASE Check(l) /\ To(l, "executing", lane[l].epoch, lane[l].conv, lane[l].calls) /\ lane'[l].into = company
  <2>1. lane[l].at = "checking" /\ effects' = effects
    BY <1>7, CheckDoes
  <2>2. /\ lane'[l].at = "executing" /\ lane'[l].epoch = lane[l].epoch /\ lane'[l].conv = lane[l].conv
        /\ lane'[l].calls = lane[l].calls /\ \A m \in Lanes \ {l} : lane'[m] = lane[m]
    BY <1>7 DEF To
  <2>3. Travels(l)
    BY <1>0, <1>1, <1>2, <2>2 DEF Travels
  <2>4. Untouched => LaneIn(l)'
    BY <1>1, <1>3, <1>7, <2>1, <2>2 DEF LaneIn
  <2>5. Untouched => \A c \in Calls : EffectIn(c)'
    BY <1>1, <1>3, <2>1 DEF Settled, EffectIn
  <2> QED
    BY <1>4, <1>5, <1>6, <2>3, <2>4, <2>5, ConvLane
<1>8. CASE Moves(l) /\ (effects' = effects \/ (lane[l].at = "executing" /\ Made(l)))
  <2>1. Travels(l)
    BY <1>1, <1>2, <1>8, MovesTravels
  <2>2. Untouched => LaneIn(l)'
    BY <1>1, <1>8, MovesIn
  <2>3. Untouched => \A c \in Calls : EffectIn(c)'
    <3>1. CASE effects' = effects
      BY <1>1, <1>3, <3>1 DEF Settled, EffectIn
    <3>2. CASE lane[l].at = "executing" /\ Made(l)
      BY <1>1, <1>3, <3>2, EffectsMade
    <3> QED
      BY <1>8, <3>1, <3>2
  <2> QED
    BY <1>4, <1>5, <1>6, <2>1, <2>2, <2>3, ConvLane
<1>9. ASSUME Resumed(l) PROVE Moves(l)
  BY <1>3, <1>9, ResumedMoves
<1>10. ASSUME To(l, "running", epoch, lane[l].conv, lane[l].calls) PROVE Moves(l)
  BY <1>0, <1>3, <1>10, ToMoves
<1>11. CASE Check(l)
  BY <1>7, <1>8, <1>9, <1>11, CheckDoes
<1>12. CASE Succeed(l)
  BY <1>8, <1>9, <1>10, <1>12, SucceedDoes
<1>13. CASE Fail(l)
  BY <1>8, <1>9, <1>13, FailDoes
<1> QED
  BY <1>11, <1>12, <1>13

(* A click: what the lane it starts works for.                             *)
LEMMA ConvClick ==
  ASSUME TypeIInv, CallInv, ConvInv, NEW d \in Calls, Approve(d) \/ Reject(d)
  PROVE  ConvInv'
<1>0. /\ history \in Seq(Turns) /\ conv \in Conversations /\ epoch \in Nat /\ epoch <= epoch /\ 0 <= epoch
      /\ company > 0 /\ company \in Nat /\ pending \subseteq Calls /\ {d} \in SUBSET Calls
  BY TypesNow
<1>1. /\ Present /\ d \in pending /\ pending' = pending \ {d} /\ mishaps \subseteq mishaps'
      /\ UNCHANGED <<epoch, company, scoped, conv, offered, effects>>
      /\ history' = history \/ history' = Answer(history, {d}, conv)
  BY ApproveDoes, RejectDoes DEF Crowded
<1>2. ASSUME Untouched
      PROVE  Settled /\ scoped = company /\ conv.of = company /\ offered[d] = company
  <2>1. Settled /\ scoped \in {0, conv.of}
    BY <1>2, ConvInvIs
  <2>2. scoped # 0
    BY <1>1, <2>1 DEF Settled
  <2> QED
    BY <1>1, <2>1, <2>2 DEF Present, Settled
<1>3. ASSUME NEW m \in Lanes, lane'[m] = lane[m]
      PROVE  lane'[m].epoch <= epoch /\ (Untouched => LaneIn(m)')
  <2>1. Untouched => LaneIn(m)
    BY <1>2 DEF Settled
  <2> QED
    BY <1>1, <1>3, <2>1, ConvInvIs, OthersIn
<1>4. ASSUME NEW s \in Lanes, Approve(d), To(s, "checking", epoch, conv, {d})
      PROVE  lane'[s].epoch <= epoch /\ (Untouched => LaneIn(s)')
  BY <1>0, <1>1, <1>2, <1>4 DEF To, LaneIn
<1>5. ASSUME NEW s \in Lanes, Halts(s) \/ To(s, "asking", epoch, conv, {})
      PROVE  lane'[s].epoch <= epoch /\ (Untouched => LaneIn(s)')
  <2>1. CASE Halts(s)
    BY <1>0, <2>1 DEF Halts, To, LaneIn, GoesOn, Unguarded
  <2>2. CASE To(s, "asking", epoch, conv, {})
    BY <1>0, <1>1, <2>2 DEF To, LaneIn
  <2> QED
    BY <1>5, <2>1, <2>2
<1>6. \A m \in Lanes : lane'[m].epoch <= epoch /\ (Untouched => LaneIn(m)')
  <2>1. CASE lane' = lane
    BY <1>3, <2>1
  <2>2. ASSUME NEW s \in Lanes, Approve(d), To(s, "checking", epoch, conv, {d})
        PROVE  \A m \in Lanes : lane'[m].epoch <= epoch /\ (Untouched => LaneIn(m)')
    <3>1. \A m \in Lanes \ {s} : lane'[m] = lane[m]
      BY <2>2 DEF To
    <3> QED
      BY <1>3, <1>4, <2>2, <3>1
  <2>3. ASSUME NEW s \in Lanes, Halts(s) \/ To(s, "asking", epoch, conv, {})
        PROVE  \A m \in Lanes : lane'[m].epoch <= epoch /\ (Untouched => LaneIn(m)')
    <3>1. \A m \in Lanes \ {s} : lane'[m] = lane[m]
      BY <2>3 DEF To, Halts
    <3> QED
      BY <1>3, <1>5, <2>3, <3>1
  <2>4. CASE Approve(d)
    BY <2>2, <2>4, ApproveDoes
  <2>5. CASE Reject(d)
    BY <2>1, <2>3, <2>5, RejectDoes DEF LoopsOn
  <2> QED
    BY <2>4, <2>5
<1>7. ASSUME Untouched'
      PROVE  Settled'
  <2>1. Untouched
    BY <1>1, <1>7 DEF Untouched
  <2>2. AllOf(history', conv)
    BY <1>0, <1>1, <1>2, <2>1, AnswerTyped DEF Settled
  <2>3. (\A c \in pending' : offered'[c] = conv'.of) /\ (\A c \in Calls : EffectIn(c)') /\ scoped' # 0
    BY <1>0, <1>1, <1>2, <2>1 DEF Settled, EffectIn
  <2>4. AllOf(history, conv)'
    BY <1>1, <2>2 DEF AllOf
  <2> QED
    BY <1>6, <2>1, <2>3, <2>4 DEF Settled
<1>8. scoped' \in {0, conv'.of} /\ \A l \in Lanes : lane'[l].epoch <= epoch'
  BY <1>1, <1>6, ConvInvIs
<1> QED
  BY <1>7, <1>8, ConvInvWas

LEMMA NothingSaid ==
  ASSUME NEW v
  PROVE  AllOf(<<>>, v)
BY DEF AllOf

(* A message is sent in the conversation on the screen, or in a new one.   *)
LEMMA ConvSpeaks ==
  ASSUME TypeIInv, CallInv, ConvInv, Send \/ Regenerate
  PROVE  ConvInv'
<1>0. /\ history \in Seq(Turns) /\ conv \in Conversations /\ epoch \in Nat /\ epoch <= epoch
      /\ company > 0 /\ company \in Nat
  BY TypesNow
<1>1. /\ pending = {} /\ Present /\ scoped' = company /\ conv' = [no |-> conv.no, of |-> company]
      /\ UNCHANGED <<epoch, pending, company, offered, effects, mishaps>>
      /\ history' = history \/ (UserTurns(history) # {} /\ history' = BeforeLastUser(history))
  BY SpeaksDoes
<1>2. PICK s \in Lanes : lane[s].at = "idle" /\ To(s, "preamble", epoch, conv', {})
  BY SpeaksDoes
<1>3. ASSUME Untouched
      PROVE  Settled /\ (conv' = conv \/ (Live = {} /\ history = <<>>))
  <2>1. Settled /\ scoped \in {0, conv.of}
    BY <1>3, ConvInvIs
  <2>2. CASE scoped = company /\ company = conv.of
    BY <1>0, <1>1, <2>1, <2>2 DEF Conversations
  <2>3. CASE scoped = 0
    BY <2>1, <2>3 DEF Settled
  <2> QED
    BY <1>0, <1>1, <2>1, <2>2, <2>3 DEF Present
<1>4. ASSUME Untouched
      PROVE  AllOf(history', conv')
  <2>1. CASE history = <<>> /\ Live = {}
    BY <1>1, <2>1, NothingSaid DEF UserTurns
  <2>2. CASE conv' = conv
    <3>1. AllOf(history, conv)
      BY <1>3, <1>4 DEF Settled
    <3>2. CASE history' = history
      BY <2>2, <3>1, <3>2
    <3>3. CASE UserTurns(history) # {} /\ history' = BeforeLastUser(history)
      <4>1. PICK cut \in UserTurns(history) :
               /\ Len(history') = cut - 1
               /\ cut \in 1..Len(history) /\ Len(history) \in Nat
               /\ \A i \in 1..(cut - 1) : history'[i] = history[i]
        BY <1>0, <3>3, BeforeLastUserIsPrefix
      <4>2. \A i \in 1..(cut - 1) : i \in 1..Len(history)
        BY <4>1
      <4> QED
        BY <2>2, <3>1, <4>1, <4>2 DEF AllOf
    <3> QED
      BY <1>1, <3>2, <3>3
  <2> QED
    BY <1>3, <1>4, <2>1, <2>2
<1>5. \A m \in Lanes \ {s} : lane'[m] = lane[m]
  BY <1>2 DEF To
<1>6. lane'[s].at = "preamble" /\ lane'[s].epoch = epoch /\ lane'[s].conv = conv'
  BY <1>2 DEF To
<1>7. ASSUME Untouched, NEW m \in Lanes
      PROVE  LaneIn(m)'
  <2>1. CASE m = s
    BY <1>6, <2>1 DEF LaneIn
  <2>2. CASE m # s /\ conv' = conv
    BY <1>1, <1>3, <1>5, <1>7, <2>2, OthersIn DEF Settled
  <2>3. CASE m # s /\ Live = {}
    <3>1. lane'[m].at = "idle"
      BY <1>5, <2>3 DEF Live
    <3> QED
      BY <3>1 DEF LaneIn, GoesOn, Unguarded
  <2> QED
    BY <1>3, <1>7, <2>1, <2>2, <2>3
<1>8. ASSUME Untouched'
      PROVE  Settled'
  <2>1. Untouched
    BY <1>1, <1>8 DEF Untouched
  <2>2. (\A c \in pending' : offered'[c] = conv'.of) /\ (\A c \in Calls : EffectIn(c)') /\ scoped' # 0
    BY <1>0, <1>1, <1>3, <2>1 DEF Settled, EffectIn
  <2>3. AllOf(history, conv)'
    BY <1>4, <2>1 DEF AllOf
  <2> QED
    BY <1>7, <2>1, <2>2, <2>3 DEF Settled
<1>9. scoped' \in {0, conv'.of} /\ \A l \in Lanes : lane'[l].epoch <= epoch'
  BY <1>0, <1>1, <1>5, <1>6, ConvInvIs
<1> QED
  BY <1>8, <1>9, ConvInvWas

(* Where nobody goes on unasked, nobody goes on in another conversation.   *)
LEMMA NobodyGoesOn ==
  ASSUME lane' = lane, NEW m \in Lanes, lane[m].at \notin Unguarded,
         lane[m].at = "idle" \/ lane[m].epoch # epoch'
  PROVE  LaneIn(m)'
BY DEF LaneIn, GoesOn, Fresh, Unguarded

LEMMA ConvOutside ==
  ASSUME TypeIInv, CallInv, ConvInv,
         Stop \/ Recover \/ Switch \/ Scope \/ (NewChat \/ SelectSession) \/ Restore \/ UNCHANGED vars
  PROVE  ConvInv'
<1>0. /\ conv \in Conversations /\ epoch \in Nat /\ company > 0 /\ company \in Nat
      /\ \A m \in Lanes : lane[m].epoch \in Nat
  BY TypesNow, LaneIsRecord DEF Records
<1>1. (\A m \in Lanes : lane[m].epoch <= epoch) /\ scoped \in {0, conv.of} /\ (Untouched => Settled)
  BY ConvInvIs
<1>2. ASSUME UNCHANGED <<epoch, history, pending, company, scoped, conv, lane, offered, effects>>,
             mishaps \subseteq mishaps'
      PROVE  ConvInv'
  <2>1. ASSUME Untouched'
        PROVE  Settled'
    <3>1. Settled
      BY <1>1, <1>2, <2>1 DEF Untouched
    <3>2. \A m \in Lanes : LaneIn(m)'
      BY <1>2, <3>1, OthersIn DEF Settled
    <3> QED
      BY <1>2, <3>1, <3>2 DEF Settled, AllOf, Live, EffectIn
  <2> QED
    BY <1>1, <1>2, <2>1, ConvInvWas
<1>3. CASE Stop \/ UNCHANGED vars
  BY <1>2, <1>3, StopDoes DEF vars, flags, talk, scope, facts
<1>4. CASE Recover
  <2>1. /\ epoch' = epoch + 1 /\ mishaps \subseteq mishaps'
        /\ UNCHANGED <<history, pending, company, scoped, conv, lane, offered, effects>>
    BY <1>4, RecoverDoes
  <2>2. \A m \in Lanes : lane[m].epoch <= epoch' /\ lane[m].epoch # epoch'
    BY <1>0, <1>1, <2>1
  <2>3. ASSUME Untouched'
        PROVE  Settled'
    <3>1. Settled
      BY <1>1, <2>1, <2>3 DEF Untouched
    <3>2. ASSUME NEW m \in Lanes PROVE LaneIn(m)'
      <4>1. CASE lane[m].at \in Unguarded
        BY <2>1, <3>1, <4>1 DEF Settled, LaneIn, GoesOn
      <4>2. CASE lane[m].at \notin Unguarded
        BY <2>1, <2>2, <4>2, NobodyGoesOn
      <4> QED
        BY <4>1, <4>2
    <3> QED
      BY <2>1, <3>1, <3>2 DEF Settled, AllOf, Live, EffectIn
  <2> QED
    BY <1>1, <2>1, <2>2, <2>3, ConvInvWas
<1>5. CASE Switch
  <2>1. /\ mishaps \subseteq mishaps' /\ ((\E l \in Live : lane[l].at \in Unguarded) => "switched" \in mishaps')
        /\ UNCHANGED <<epoch, history, pending, scoped, conv, lane, offered, effects>>
    BY <1>5, SwitchDoes DEF Overtaken
  <2>2. ASSUME Untouched'
        PROVE  Settled'
    <3>1. Settled
      BY <1>1, <2>1, <2>2 DEF Untouched
    <3>2. ASSUME NEW m \in Lanes PROVE LaneIn(m)'
      <4>1. lane[m].at \notin Unguarded
        BY <2>1, <2>2 DEF Untouched, Live, Unguarded
      <4> QED
        BY <2>1, <3>1, <4>1 DEF Settled, LaneIn, GoesOn, Fresh, Unguarded
    <3> QED
      BY <2>1, <3>1, <3>2 DEF Settled, AllOf, Live, EffectIn
  <2> QED
    BY <1>1, <2>1, <2>2, ConvInvWas
<1>6. CASE Scope
  <2>1. /\ mishaps \subseteq mishaps' /\ ((\E l \in Live : lane[l].at \in Unguarded) => "switched" \in mishaps')
        /\ epoch' = epoch + 1 /\ scoped' = company /\ conv' = [no |-> conv.no + 1, of |-> company]
        /\ history' = <<>> /\ pending' = {} /\ UNCHANGED <<company, lane, offered, effects>>
    BY <1>6, ScopeDoes DEF Overtaken
  <2>2. \A m \in Lanes : lane[m].epoch <= epoch' /\ lane[m].epoch # epoch'
    BY <1>0, <1>1, <2>1
  <2>3. ASSUME Untouched'
        PROVE  Settled'
    <3>1. Settled
      BY <1>1, <2>1, <2>3 DEF Untouched
    <3>2. ASSUME NEW m \in Lanes PROVE LaneIn(m)'
      <4>1. lane[m].at \notin Unguarded
        BY <2>1, <2>3 DEF Untouched, Live, Unguarded
      <4> QED
        BY <2>1, <2>2, <4>1, NobodyGoesOn
    <3>3. scoped' # 0 /\ AllOf(history', conv') /\ pending' = {}
      BY <1>0, <2>1, NothingSaid
    <3> QED
      BY <2>1, <3>1, <3>2, <3>3 DEF Settled, AllOf, EffectIn
  <2> QED
    BY <2>1, <2>2, <2>3, ConvInvWas
<1>7. ASSUME Untouched', Replaced(Live)
      PROVE  Untouched /\ Settled /\ Live = {}
  BY <1>1, <1>7 DEF Untouched, Replaced
<1>8. ASSUME Live = {}, lane' = lane, NEW m \in Lanes
      PROVE  LaneIn(m)'
  BY <1>8, NobodyGoesOn DEF Live, Unguarded
<1>9. CASE NewChat \/ SelectSession
  <2>1. /\ scoped' = 0 /\ history' = <<>> /\ pending' = {} /\ Replaced(Live)
        /\ UNCHANGED <<epoch, company, lane, offered, effects>>
    BY <1>9, ResetsDoes
  <2>2. ASSUME Untouched'
        PROVE  Settled'
    <3>1. Settled /\ Live = {} /\ \A m \in Lanes : LaneIn(m)'
      BY <1>7, <1>8, <2>1, <2>2
    <3>2. AllOf(history', conv') /\ Live' = {}
      BY <2>1, <3>1, NothingSaid DEF Live
    <3> QED
      BY <2>1, <3>1, <3>2 DEF Settled, AllOf, EffectIn
  <2> QED
    BY <1>1, <2>1, <2>2, ConvInvWas
<1>10. CASE /\ UNCHANGED <<epoch, pending, company, lane, offered, effects>>
            /\ scoped' = company /\ conv' = [no |-> conv.no, of |-> company]
            /\ history' = <<Turn("system", conv')>> /\ Replaced(Live \cup pending)
  <2>1. ASSUME Untouched'
        PROVE  Settled'
    <3>1. Replaced(Live) /\ pending = {}
      BY <1>10, <2>1 DEF Replaced, Untouched
    <3>2. Settled /\ Live = {} /\ \A m \in Lanes : LaneIn(m)'
      BY <1>7, <1>8, <1>10, <2>1, <3>1
    <3>3. AllOf(history', conv')
      BY <1>10 DEF AllOf, Turn
    <3> QED
      BY <1>0, <1>10, <3>1, <3>2, <3>3 DEF Settled, AllOf, EffectIn
  <2> QED
    BY <1>1, <1>10, <2>1, ConvInvWas
<1>11. CASE Restore
  BY <1>2, <1>10, <1>11, RestoreDoes
<1> QED
  BY <1>3, <1>4, <1>5, <1>6, <1>9, <1>11

LEMMA ConvNext ==
  ASSUME TypeIInv, CallInv, ConvInv, [Next]_vars
  PROVE  ConvInv'
BY StepIsOne, ConvAsks, ConvOffer, ConvWrites, ConvClick, ConvSpeaks, ConvOutside

LEMMA ConvInit ==
  ASSUME Init
  PROVE  ConvInv
<1>1. /\ scoped = 1 /\ conv = [no |-> 1, of |-> 1] /\ history = <<>> /\ pending = {} /\ epoch = 0
      /\ \A l \in Lanes : lane[l] = Idle
      /\ \A c \in Calls : effects[c] = <<>>
  BY DEF Init
<1>2. \A l \in Lanes : lane[l].at = "idle" /\ lane[l].epoch = 0
  BY <1>1, IdleIsRecord
<1>3. \A l \in Lanes : LaneIn(l)
  BY <1>2 DEF LaneIn, GoesOn, Unguarded
<1>4. Settled
  BY <1>1, <1>3 DEF Settled, AllOf, EffectIn
<1> QED
  BY <1>1, <1>2, <1>4, ConvInvIs

LEMMA ConvAlways == Spec => [](TypeIInv /\ CallInv /\ ConvInv)
BY TypeInit, CallInit, ConvInit, TypeNext, CallNext, ConvNext, PTL DEF Spec

(* A write takes effect at most once, never after the user rejected it,    *)
(* and in the company whose card was approved, however lanes, clicks and   *)
(* recoveries interleave, as long as the company was not changed under a   *)
(* lane that asks nobody, nor the conversation replaced                    *)
(* (resolveConfirmation, executeTool).                                     *)
THEOREM EffectsWereApproved == Spec => []EffectsAreApproved
<1>1. TypeIInv /\ CallInv /\ ConvInv => EffectsAreApproved
  <2> SUFFICES ASSUME TypeIInv, CallInv, ConvInv, NEW c \in Calls, effects[c] # <<>>
               PROVE  /\ card[c] # "rejected" /\ Len(effects[c]) = 1
                      /\ Untouched => effects[c][1] = offered[c]
    BY DEF EffectsAreApproved, Untouched
  <2>1. card[c] # "rejected" /\ Len(effects[c]) <= 1
    BY DEF CallInv
  <2>2. effects[c] \in Seq(Companies)
    BY TypesNow
  <2>3. Len(effects[c]) \in Nat /\ Len(effects[c]) # 0
    BY <2>2, EmptySeq, LenProperties
  <2>6. \A n \in Nat : n # 0 /\ n <= 1 => n = 1
    OBVIOUS
  <2>4. Untouched => effects[c][1] = offered[c]
    BY ConvInvIs DEF Settled, EffectIn
  <2>5. Len(effects[c]) = 1
    BY <2>1, <2>3, <2>6
  <2> QED
    BY <2>1, <2>4, <2>5
<1> QED
  BY <1>1, ConvAlways, PTL

(* A lane that was overtaken says nothing in the conversation on the       *)
(* screen: it is stopped by the recovery count where that is asked for,    *)
(* and where it is not, only a change of company or of conversation can    *)
(* mislead it (runLoop, drainStreaming, ensureCompanyScope).               *)
THEOREM TurnsStayHome == Spec => []NoForeignTurn
<1>1. ConvInv => NoForeignTurn
  BY ConvInvIs DEF Settled, AllOf, NoForeignTurn, Untouched
<1> QED
  BY <1>1, ConvAlways, PTL

-----------------------------------------------------------------------------
(* Without mishaps one lane is at work. *)

(* A step of lane l that ends it or leaves it busy.                        *)
Works(l) ==
  \/ Halts(l)
  \/ busy' = busy /\ \E a, C : \/ To(l, a, epoch, lane[l].conv, C)
                               \/ To(l, a, lane[l].epoch, lane[l].conv, C)

LEMMA LoopsWorks ==
  ASSUME NEW l \in Lanes, NEW C,
         LoopsOn(l, epoch, lane[l].conv, C, busy) \/ LoopsOn(l, lane[l].epoch, lane[l].conv, C, busy)
  PROVE  Works(l)
BY DEF LoopsOn, Works

LEMMA TakenUpWorks ==
  ASSUME NEW l \in Lanes, NEW h, NEW W, TakenUp(l, h, W)
  PROVE  Works(l)
BY LoopsWorks DEF TakenUp, Works

LEMMA ResumedWorks ==
  ASSUME NEW l \in Lanes, Resumed(l)
  PROVE  Works(l)
BY LoopsWorks DEF Resumed, Works

LEMMA StepWorks ==
  ASSUME TypeIInv, NEW l \in Lanes,
         \/ Admit(l) \/ Quiet(l) \/ Text(l) \/ Call(l) \/ ReadDone(l) \/ Offer(l)
         \/ Check(l) \/ Succeed(l) \/ Fail(l) \/ BatchDone(l)
  PROVE  Works(l) /\ lane[l].at # "idle" /\ mishaps' = mishaps /\ epoch' = epoch
<1>1. CASE Admit(l) \/ Text(l)
  BY <1>1, AdmitDoes, TextDoes, LoopsWorks DEF Works
<1>2. CASE Quiet(l)
  BY <1>2, QuietDoes DEF Works
<1>3. CASE Call(l)
  <2>1. Works(l)
    BY <1>3, CallDoes, TakenUpWorks DEF Works
  <2> QED
    BY <1>3, <2>1, CallDoes
<1>4. CASE ReadDone(l)
  BY <1>4, ReadDoneDoes, TakenUpWorks
<1>5. CASE Offer(l)
  BY <1>5, OfferDoes DEF Works
<1>6. CASE Check(l)
  <2>1. Works(l)
    BY <1>6, CheckDoes, ResumedWorks DEF Works
  <2> QED
    BY <1>6, <2>1, CheckDoes
<1>7. CASE Succeed(l)
  <2>1. Works(l)
    BY <1>7, SucceedDoes, ResumedWorks DEF Works
  <2> QED
    BY <1>7, <2>1, SucceedDoes
<1>8. CASE Fail(l) \/ BatchDone(l)
  BY <1>8, FailDoes, BatchDoneDoes, ResumedWorks
<1> QED
  BY <1>1, <1>2, <1>3, <1>4, <1>5, <1>6, <1>7, <1>8

LEMMA WorksAlone ==
  ASSUME TypeIInv, AloneInv, NEW l \in Lanes, Works(l), lane[l].at # "idle", mishaps' = mishaps, epoch' = epoch
  PROVE  AloneInv'
<1> SUFFICES ASSUME mishaps = {}
             PROVE  /\ \A k, m \in Live' : k = m
                    /\ \A m \in Live' : busy' /\ Fresh(m)'
  BY DEF AloneInv
<1>1. l \in Live /\ \A m \in Lanes \ {l} : lane[m].at = "idle"
  BY DEF AloneInv, Live
<1>2. busy /\ lane[l].epoch = epoch
  BY <1>1 DEF AloneInv, Fresh
<1>3. \A m \in Lanes \ {l} : lane'[m] = lane[m]
  BY DEF Works, Halts, To
<1>4. Live' \subseteq {l}
  BY <1>1, <1>3 DEF Live
<1>5. CASE Halts(l)
  <2>1. lane'[l].at = "idle"
    BY <1>5 DEF Halts, To
  <2>2. Live' = {}
    BY <1>4, <2>1 DEF Live
  <2> QED
    BY <2>2
<1>6. CASE ~Halts(l)
  <2>1. busy' = busy /\ lane'[l].epoch = epoch
    BY <1>2, <1>6 DEF Works, To
  <2> QED
    BY <1>2, <1>4, <2>1 DEF Fresh
<1> QED
  BY <1>5, <1>6

(* A lane that starts when nobody is at work.                              *)
LEMMA StartsAlone ==
  ASSUME Live = {} \/ mishaps' # {}, busy' = TRUE, epoch' = epoch,
         NEW s \in Lanes, NEW a, NEW v, NEW C, To(s, a, epoch, v, C)
  PROVE  AloneInv'
<1> SUFFICES ASSUME mishaps' = {}
             PROVE  /\ \A k, m \in Live' : k = m
                    /\ \A m \in Live' : busy' /\ Fresh(m)'
  BY DEF AloneInv
<1>1. Live' \subseteq {s} /\ lane'[s].epoch = epoch
  BY DEF Live, To
<1> QED
  BY <1>1 DEF Fresh

LEMMA NobodyAlone ==
  ASSUME Live = {} \/ mishaps' # {},
         lane' = lane \/ \E s \in Lanes : Halts(s)
  PROVE  AloneInv'
<1>1. ASSUME Live = {} PROVE Live' = {}
  BY <1>1 DEF Live, Halts, To
<1> QED
  BY <1>1 DEF AloneInv

LEMMA AloneNext ==
  ASSUME TypeIInv, AloneInv, [Next]_vars
  PROVE  AloneInv'
<1>1. ASSUME NEW l \in Lanes,
             \/ Admit(l) \/ Quiet(l) \/ Text(l) \/ Call(l) \/ ReadDone(l) \/ Offer(l)
             \/ Check(l) \/ Succeed(l) \/ Fail(l) \/ BatchDone(l)
      PROVE  AloneInv'
  BY <1>1, StepWorks, WorksAlone
<1>2. ASSUME NEW c \in Calls, Approve(c) PROVE AloneInv'
  BY <1>2, ApproveDoes, StartsAlone DEF Crowded
<1>3. ASSUME NEW c \in Calls, Reject(c) PROVE AloneInv'
  <2>1. epoch' = epoch /\ (Live = {} \/ mishaps' # {})
    BY <1>3, RejectDoes DEF Crowded
  <2>2. CASE lane' = lane
    BY <2>1, <2>2, NobodyAlone
  <2>3. ASSUME NEW s \in Lanes, LoopsOn(s, epoch, conv, {}, TRUE) PROVE AloneInv'
    BY <2>1, <2>3, NobodyAlone, StartsAlone DEF LoopsOn
  <2> QED
    BY <1>3, <2>2, <2>3, RejectDoes
<1>4. CASE Send \/ Regenerate
  <2>1. /\ busy = FALSE /\ busy' = TRUE /\ epoch' = epoch /\ mishaps' = mishaps
        /\ \E s \in Lanes : To(s, "preamble", epoch, conv', {})
    BY <1>4, SpeaksDoes
  <2>2. Live = {} \/ mishaps' # {}
    BY <2>1 DEF AloneInv
  <2> QED
    BY <2>1, <2>2, StartsAlone
<1>5. CASE Stop \/ UNCHANGED vars
  <2>1. UNCHANGED <<busy, epoch, lane, mishaps>>
    BY <1>5, StopDoes DEF vars, flags, facts
  <2> QED
    BY <2>1 DEF AloneInv, Live, Fresh
<1>6. CASE Recover \/ Switch \/ Scope \/ (NewChat \/ SelectSession)
  <2>1. lane' = lane /\ (Live = {} \/ mishaps' # {})
    BY <1>6, RecoverDoes, SwitchDoes, ScopeDoes, ResetsDoes DEF Overtaken, Replaced
  <2> QED
    BY <2>1, NobodyAlone
<1>7. CASE Restore
  <2>1. CASE UNCHANGED <<busy, epoch, lane, mishaps>>
    BY <2>1 DEF AloneInv, Live, Fresh
  <2>2. CASE lane' = lane /\ Replaced(Live \cup pending)
    BY <2>2, NobodyAlone DEF Replaced
  <2> QED
    BY <1>7, <2>1, <2>2, RestoreDoes
<1> QED
  BY <1>1, <1>2, <1>3, <1>4, <1>5, <1>6, <1>7, StepIsOne

LEMMA AloneInit ==
  ASSUME Init
  PROVE  AloneInv
<1>1. Live = {}
  BY IdleIsRecord DEF Init, Live
<1> QED
  BY <1>1 DEF AloneInv

-----------------------------------------------------------------------------
(* What has succeeded is not offered again. *)

LedgerFine ==
  /\ \A c \in Calls : card[c] = "success" /\ offered[c] = conv.of => Key[c] \in done
  /\ \A l \in Lanes : lane[l].at = "vetting" => \A c \in lane[l].calls : Key[c] \notin done

LEMMA LedgerInvIs ==
  LedgerInv <=> /\ conv.of <= company
                /\ \A l \in Lanes : lane[l].conv.of <= conv.of
                /\ \A c \in Calls : offered[c] <= conv.of
                /\ mishaps = {} => LedgerFine
BY DEF LedgerInv, LedgerFine

LEMMA LedgerInvWas ==
  ASSUME conv'.of <= company', \A l \in Lanes : lane'[l].conv.of <= conv'.of,
         \A c \in Calls : offered'[c] <= conv'.of, mishaps' = {} => LedgerFine'
  PROVE  LedgerInv'
BY DEF LedgerInv, LedgerFine

LEMMA OfsAreNat ==
  ASSUME TypeIInv
  PROVE  /\ conv.of \in Nat /\ company \in Nat /\ \A c \in Calls : offered[c] \in Nat
         /\ \A l \in Lanes : lane[l].conv.of \in Nat
<1>1. Companies \subseteq Nat
  BY BoundsAreNat DEF Companies
<1>2. \A v \in Conversations : v.of \in Nat
  BY <1>1 DEF Conversations
<1> QED
  BY <1>1, <1>2, TypesNow, LaneIsRecord DEF Records

(* What every step of a lane leaves of the ledger's bounds.                *)
LEMMA LedgerWorks ==
  ASSUME TypeIInv, LedgerInv, NEW l \in Lanes, UNCHANGED <<company, conv, mishaps>>,
         lane'[l].conv.of <= conv.of, \A m \in Lanes \ {l} : lane'[m] = lane[m],
         \A c \in Calls : offered'[c] = offered[c] \/ offered'[c] = lane[l].conv.of,
         mishaps = {} => LedgerFine'
  PROVE  LedgerInv'
<1>1. /\ conv.of <= company /\ (\A m \in Lanes : lane[m].conv.of <= conv.of)
      /\ \A c \in Calls : offered[c] <= conv.of
  BY LedgerInvIs
<1> QED
  BY <1>1, LedgerInvWas

LEMMA WorksStays ==
  ASSUME TypeIInv, LedgerInv, NEW l \in Lanes, Works(l)
  PROVE  lane'[l].conv.of <= conv.of /\ \A m \in Lanes \ {l} : lane'[m] = lane[m]
<1>1. lane[l].conv.of <= conv.of /\ 0 <= conv.of
  BY LedgerInvIs, OfsAreNat
<1>2. CASE Halts(l)
  BY <1>1, <1>2, IdleIsRecord DEF Halts, To
<1>3. ASSUME NEW a, NEW e, NEW C, To(l, a, e, lane[l].conv, C)
      PROVE  lane'[l].conv.of <= conv.of /\ \A m \in Lanes \ {l} : lane'[m] = lane[m]
  BY <1>1, <1>3 DEF To
<1> QED
  BY <1>2, <1>3 DEF Works

LEMMA EndsAt ==
  ASSUME NEW l \in Lanes, NEW e, NEW v, NEW C, NEW shown,
         Halts(l) \/ LoopsOn(l, e, v, C, shown) \/ Resumed(l)
  PROVE  lane'[l].at \in {"idle", "asking"}
BY DEF Halts, LoopsOn, Resumed, To

LEMMA Solo ==
  ASSUME AloneInv, mishaps = {}, NEW l \in Lanes, lane[l].at # "idle"
  PROVE  \A m \in Lanes \ {l} : lane[m].at = "idle"
BY DEF AloneInv, Live

(* Every step of a lane but that of a write that succeeded.                *)
LEMMA LedgerPlain ==
  ASSUME TypeIInv, AloneInv, LedgerInv, NEW l \in Lanes, Works(l), lane[l].at # "idle",
         UNCHANGED <<company, conv, mishaps, done>>,
         \A c \in Calls : offered'[c] = offered[c] \/ offered'[c] = lane[l].conv.of,
         \A c \in Calls : card'[c] = "success" => card[c] = "success" /\ offered'[c] = offered[c],
         lane'[l].at = "vetting" => \A c \in lane'[l].calls : Key[c] \notin done
  PROVE  LedgerInv'
<1>1. lane'[l].conv.of <= conv.of /\ \A m \in Lanes \ {l} : lane'[m] = lane[m]
  BY WorksStays
<1>2. ASSUME mishaps = {} PROVE LedgerFine'
  <2>1. \A m \in Lanes \ {l} : lane'[m].at = "idle"
    BY <1>1, <1>2, Solo
  <2>2. \A m \in Lanes : lane'[m].at = "vetting" => m = l
    BY <2>1
  <2>3. \A c \in Calls : card'[c] = "success" /\ offered'[c] = conv'.of => Key[c] \in done'
    BY <1>2, LedgerInvIs DEF LedgerFine
  <2> QED
    BY <2>2, <2>3 DEF LedgerFine
<1> QED
  BY <1>1, <1>2, LedgerWorks

LEMMA VettedIsUndone ==
  ASSUME NEW l \in Lanes, NEW h, NEW W, TakenUp(l, h, W), lane'[l].at = "vetting"
  PROVE  \A c \in lane'[l].calls : Key[c] \notin done
<1>1. CASE Halts(l) \/ LoopsOn(l, lane[l].epoch, lane[l].conv, {}, busy)
  BY <1>1, EndsAt
<1>2. ASSUME NEW refused \in SUBSET W, \A c \in W \ refused : Key[c] \notin done,
             To(l, "vetting", lane[l].epoch, lane[l].conv, W \ refused)
      PROVE  \A c \in lane'[l].calls : Key[c] \notin done
  BY <1>2 DEF To
<1> QED
  BY <1>1, <1>2 DEF TakenUp

LEMMA LedgerLane ==
  ASSUME TypeIInv, AloneInv, LedgerInv, NEW l \in Lanes,
         \/ Admit(l) \/ Quiet(l) \/ Text(l) \/ Call(l) \/ ReadDone(l) \/ Offer(l)
         \/ Check(l) \/ Fail(l) \/ BatchDone(l)
  PROVE  LedgerInv'
<1>0. Works(l) /\ lane[l].at # "idle"
  BY StepWorks
<1>1. CASE Admit(l) \/ Text(l) \/ BatchDone(l)
  <2>1. UNCHANGED <<company, conv, mishaps, done, offered, card>>
    BY <1>1, AdmitDoes, TextDoes, BatchDoneDoes
  <2>2. lane'[l].at \in {"idle", "asking"}
    BY <1>1, AdmitDoes, TextDoes, BatchDoneDoes, EndsAt
  <2> QED
    BY <1>0, <2>1, <2>2, LedgerPlain
<1>2. CASE Quiet(l)
  <2>1. UNCHANGED <<company, conv, mishaps, done, offered, card>>
    BY <1>2, QuietDoes
  <2>2. lane'[l].at \in {"idle", "asking", "pausing"}
    <3>1. CASE Halts(l)
      BY <3>1, EndsAt
    <3>2. ASSUME NEW a \in {"pausing", "asking"}, To(l, a, lane[l].epoch, lane[l].conv, lane[l].calls)
          PROVE  lane'[l].at \in {"idle", "asking", "pausing"}
      BY <3>2 DEF To
    <3> QED
      BY <1>2, <3>1, <3>2, QuietDoes
  <2> QED
    BY <1>0, <2>1, <2>2, LedgerPlain
<1>3. CASE Call(l)
  <2>1. UNCHANGED <<company, conv, mishaps, done, offered>>
    BY <1>3, CallDoes
  <2>2. PICK C \in SUBSET Calls :
              /\ \A c \in Calls : card'[c] = IF c \in C THEN "called" ELSE card[c]
              /\ \/ TakenUp(l, Append(history, CallsTurn(C, lane[l].conv)), C)
                 \/ To(l, "reading", lane[l].epoch, lane[l].conv, C)
    BY <1>3, CallDoes
  <2>3. lane'[l].at = "vetting" => \A c \in lane'[l].calls : Key[c] \notin done
    <3>1. CASE To(l, "reading", lane[l].epoch, lane[l].conv, C)
      BY <3>1 DEF To
    <3>2. CASE TakenUp(l, Append(history, CallsTurn(C, lane[l].conv)), C)
      BY <3>2, VettedIsUndone
    <3> QED
      BY <2>2, <3>1, <3>2
  <2> QED
    BY <1>0, <2>1, <2>2, <2>3, LedgerPlain
<1>4. CASE ReadDone(l)
  <2>1. UNCHANGED <<company, conv, mishaps, done, offered, card>>
    BY <1>4, ReadDoneDoes
  <2>2. lane'[l].at = "vetting" => \A c \in lane'[l].calls : Key[c] \notin done
    BY <1>4, ReadDoneDoes, VettedIsUndone
  <2> QED
    BY <1>0, <2>1, <2>2, LedgerPlain
<1>5. CASE Offer(l)
  <2>1. UNCHANGED <<company, conv, mishaps, done>> /\ Halts(l)
    BY <1>5, OfferDoes
  <2>2. lane'[l].at \in {"idle", "asking"}
    BY <2>1, EndsAt
  <2>3. PICK blocked \in SUBSET lane[l].calls :
              \A c \in Calls : /\ c \in lane[l].calls \ blocked =>
                                       card'[c] = "pending" /\ offered'[c] = lane[l].conv.of
                               /\ c \notin lane[l].calls \ blocked => offered'[c] = offered[c]
                               /\ c \in blocked => card'[c] = "error"
                               /\ c \notin lane[l].calls => card'[c] = card[c]
    BY <1>5, OfferDoes
  <2>4. \A c \in Calls : card'[c] = "success" => card[c] = "success" /\ offered'[c] = offered[c]
    BY <2>3
  <2>5. \A c \in Calls : offered'[c] = offered[c] \/ offered'[c] = lane[l].conv.of
    BY <2>3
  <2> QED
    BY <1>0, <2>1, <2>2, <2>4, <2>5, LedgerPlain
<1>6. CASE Check(l) \/ Fail(l)
  <2>1. UNCHANGED <<company, conv, mishaps, done, offered>>
    BY <1>6, CheckDoes, FailDoes
  <2>2. \A c \in Calls : card'[c] = "success" => card[c] = "success"
    BY <1>6, CheckDoes, FailDoes DEF Shown
  <2>3. lane'[l].at # "vetting"
    <3>1. CASE Resumed(l)
      BY <3>1, EndsAt
    <3>2. CASE To(l, "executing", lane[l].epoch, lane[l].conv, lane[l].calls)
      BY <3>2 DEF To
    <3> QED
      BY <1>6, <3>1, <3>2, CheckDoes, FailDoes
  <2> QED
    BY <1>0, <2>1, <2>2, <2>3, LedgerPlain
<1> QED
  BY <1>1, <1>2, <1>3, <1>4, <1>5, <1>6

LEMMA LedgerSucceed ==
  ASSUME TypeIInv, AloneInv, LedgerInv, NEW l \in Lanes, Succeed(l)
  PROVE  LedgerInv'
<1>0. Works(l) /\ lane[l].at # "idle"
  BY StepWorks
<1>1. /\ UNCHANGED <<company, conv, mishaps, offered>> /\ Shown(lane[l].calls, "success")
      /\ done' = done \cup {Key[c] : c \in lane[l].calls}
      /\ To(l, "running", epoch, lane[l].conv, lane[l].calls) \/ Resumed(l)
  BY SucceedDoes
<1>2. lane'[l].conv.of <= conv.of /\ \A m \in Lanes \ {l} : lane'[m] = lane[m]
  BY <1>0, WorksStays
<1>3. lane'[l].at # "vetting"
  BY <1>1, EndsAt DEF To
<1>4. ASSUME mishaps = {} PROVE LedgerFine'
  <2>1. \A m \in Lanes \ {l} : lane'[m].at = "idle"
    BY <1>0, <1>2, <1>4, Solo
  <2>2. \A m \in Lanes : lane'[m].at # "vetting"
    BY <1>3, <2>1
  <2>3. ASSUME NEW c \in Calls, card'[c] = "success", offered'[c] = conv'.of
        PROVE  Key[c] \in done'
    <3>1. CASE c \in lane[l].calls
      BY <1>1, <3>1
    <3>2. CASE c \notin lane[l].calls
      <4>1. card[c] = "success" /\ offered[c] = conv.of
        BY <1>1, <2>3, <3>2 DEF Shown
      <4> QED
        BY <1>1, <1>4, <4>1, LedgerInvIs DEF LedgerFine
    <3> QED
      BY <3>1, <3>2
  <2> QED
    BY <2>2, <2>3 DEF LedgerFine
<1>5. \A c \in Calls : offered'[c] = offered[c] \/ offered'[c] = lane[l].conv.of
  BY <1>1
<1> QED
  BY <1>1, <1>2, <1>4, <1>5, LedgerWorks

(* A click, and what comes from outside.                                   *)
LEMMA LedgerRest ==
  ASSUME TypeIInv, ConvInv, AloneInv, LedgerInv,
         \/ \E c \in Calls : Approve(c) \/ Reject(c)
         \/ (Send \/ Regenerate) \/ Stop \/ Recover \/ Switch \/ Scope \/ (NewChat \/ SelectSession) \/ Restore
         \/ UNCHANGED vars
  PROVE  LedgerInv'
<1>1. /\ conv.of <= company /\ (\A m \in Lanes : lane[m].conv.of <= conv.of)
      /\ (\A c \in Calls : offered[c] <= conv.of) /\ (mishaps = {} => LedgerFine)
  BY LedgerInvIs
<1>2. /\ conv.of \in Nat /\ company \in Nat /\ (\A c \in Calls : offered[c] \in Nat)
      /\ \A m \in Lanes : lane[m].conv.of \in Nat
  BY OfsAreNat
<1>3. ASSUME NEW c \in Calls, Approve(c) \/ Reject(c) PROVE LedgerInv'
  <2>1. /\ UNCHANGED <<company, conv, done, offered>> /\ mishaps \subseteq mishaps'
        /\ Live = {} \/ mishaps' # {}
    BY <1>3, ApproveDoes, RejectDoes DEF Crowded
  <2>2. \A d \in Calls : card'[d] = "success" => card[d] = "success"
    BY <1>3, ApproveDoes, RejectDoes DEF Shown
  <2>3. CASE lane' = lane
    BY <1>1, <2>1, <2>2, <2>3, LedgerInvWas DEF LedgerFine
  <2>4. ASSUME NEW s \in Lanes, NEW a \in {"checking", "asking", "idle"}, NEW e, NEW v, NEW C, To(s, a, e, v, C),
               v = conv \/ v = Idle.conv
        PROVE  LedgerInv'
    <3>1. lane'[s].conv.of <= conv.of /\ lane'[s].at # "vetting" /\ \A m \in Lanes \ {s} : lane'[m] = lane[m]
      BY <1>2, <2>4, IdleIsRecord DEF To
    <3>2. mishaps' = {} => LedgerFine'
      BY <1>1, <2>1, <2>2, <3>1 DEF LedgerFine, Live
    <3> QED
      BY <1>1, <2>1, <3>1, <3>2, LedgerInvWas
  <2>5. CASE Approve(c)
    BY <2>4, <2>5, ApproveDoes
  <2>6. CASE Reject(c)
    BY <2>3, <2>4, <2>6, RejectDoes DEF LoopsOn, Halts
  <2> QED
    BY <1>3, <2>5, <2>6
<1>4. CASE Send \/ Regenerate
  <2>1. /\ conv'.of = company /\ UNCHANGED <<company, done, offered, mishaps>>
        /\ busy = FALSE /\ \A d \in Calls : card'[d] = "success" => card[d] = "success"
    <3>1. conv' = [no |-> conv.no, of |-> company] /\ UNCHANGED <<company, done, offered, mishaps>> /\ busy = FALSE
      BY <1>4, SpeaksDoes
    <3>2. \A d \in Calls : card'[d] = "success" => card[d] = "success"
      BY <1>4, SpeaksDoes DEF Shown
    <3>3. conv'.of = company
      BY <3>1
    <3> QED
      BY <3>1, <3>2, <3>3
  <2>2. PICK s \in Lanes : To(s, "preamble", epoch, conv', {})
    BY <1>4, SpeaksDoes
  <2>3. lane'[s].conv.of = company /\ lane'[s].at # "vetting" /\ \A m \in Lanes \ {s} : lane'[m] = lane[m]
    BY <2>1, <2>2 DEF To
  <2>4. \A m \in Lanes : lane'[m].conv.of <= conv'.of
    BY <1>1, <1>2, <2>1, <2>3
  <2>5. \A c \in Calls : offered'[c] <= conv'.of
    BY <1>1, <1>2, <2>1
  <2>6. ASSUME mishaps = {} PROVE LedgerFine'
    <3>1. Live = {}
      BY <2>1, <2>6 DEF AloneInv
    <3>2. \A m \in Lanes : lane'[m].at # "vetting"
      BY <2>3, <3>1 DEF Live
    <3>3. ASSUME NEW c \in Calls, card'[c] = "success", offered'[c] = conv'.of
          PROVE  Key[c] \in done'
      <4>1. card[c] = "success" /\ offered[c] = conv.of
        BY <1>1, <1>2, <2>1, <3>3
      <4> QED
        BY <1>1, <2>1, <2>6, <4>1 DEF LedgerFine
    <3> QED
      BY <3>2, <3>3 DEF LedgerFine
  <2>7. conv'.of <= company'
    BY <1>2, <2>1
  <2> QED
    BY <2>1, <2>4, <2>5, <2>6, <2>7, LedgerInvWas
<1>5. CASE Stop \/ Recover \/ Switch \/ UNCHANGED vars
  <2>1. UNCHANGED <<conv, done, card, offered, lane>> /\ mishaps \subseteq mishaps' /\ company' >= company
    <3>1. company >= company /\ company + 1 >= company
      BY <1>2
    <3>2. CASE Stop \/ Recover
      BY <3>1, <3>2, StopDoes, RecoverDoes
    <3>3. CASE Switch
      BY <3>1, <3>3, SwitchDoes DEF Overtaken
    <3>4. CASE UNCHANGED vars
      BY <3>1, <3>4 DEF vars, flags, talk, scope, facts
    <3> QED
      BY <1>5, <3>2, <3>3, <3>4
  <2>2. company' \in Nat
    <3>1. company' = company \/ company' = company + 1
      BY <1>5, StopDoes, RecoverDoes, SwitchDoes DEF vars, scope
    <3> QED
      BY <1>2, <3>1
  <2>3. conv'.of <= company'
    BY <1>1, <1>2, <2>1, <2>2
  <2> QED
    BY <1>1, <2>1, <2>3, LedgerInvWas DEF LedgerFine
<1>6. ASSUME company' = company, conv'.of = company, UNCHANGED <<lane, offered>>, mishaps' = {} => LedgerFine'
      PROVE  LedgerInv'
  <2>1. conv'.of <= company'
    BY <1>2, <1>6
  <2>2. \A m \in Lanes : lane'[m].conv.of <= conv'.of
    BY <1>1, <1>2, <1>6
  <2>3. \A c \in Calls : offered'[c] <= conv'.of
    BY <1>1, <1>2, <1>6
  <2> QED
    BY <1>6, <2>1, <2>2, <2>3, LedgerInvWas
<1>7. CASE Scope
  <2>1. /\ ~Present /\ conv' = [no |-> conv.no + 1, of |-> company] /\ UNCHANGED <<card, company, lane, offered>>
        /\ Live = {} \/ mishaps' # {}
    BY <1>7, ScopeDoes DEF Overtaken
  <2>2. conv.of # company
    BY <2>1, ConvInvIs DEF Present
  <2>3. \A c \in Calls : offered[c] # company
    BY <1>1, <1>2, <2>2
  <2>4. mishaps' = {} => LedgerFine'
    BY <2>1, <2>3 DEF LedgerFine, Live
  <2> QED
    BY <1>6, <2>1, <2>4
<1>8. CASE /\ conv'.of = company /\ UNCHANGED <<company, lane, offered>>
           /\ Shown({c \in Calls : card[c] # "new"}, "gone") /\ (Live = {} \/ mishaps' # {})
  <2>1. \A c \in Calls : card'[c] # "success"
    BY <1>8, TypesNow DEF Shown
  <2>2. mishaps' = {} => LedgerFine'
    BY <1>8, <2>1 DEF LedgerFine, Live
  <2> QED
    BY <1>6, <1>8, <2>2
<1>9. CASE NewChat \/ SelectSession
  <2>1. /\ conv'.of = company /\ UNCHANGED <<company, lane, offered>>
        /\ Shown({c \in Calls : card[c] # "new"}, "gone") /\ (Live = {} \/ mishaps' # {})
    <3>1. /\ conv' = [no |-> conv.no + 1, of |-> company] /\ UNCHANGED <<company, lane, offered>>
          /\ Shown({c \in Calls : card[c] # "new"}, "gone") /\ Replaced(Live)
      BY <1>9, ResetsDoes
    <3>2. conv'.of = company
      BY <3>1
    <3> QED
      BY <3>1, <3>2 DEF Replaced
  <2> QED
    BY <1>8, <2>1
<1>10. CASE Restore
  <2>1. CASE UNCHANGED <<card, done, conv, mishaps, company, lane, offered>>
    BY <1>1, <2>1, LedgerInvWas DEF LedgerFine
  <2>2. CASE /\ conv'.of = company /\ UNCHANGED <<company, lane, offered>>
             /\ Shown({c \in Calls : card[c] # "new"}, "gone") /\ Replaced(Live \cup pending)
    BY <1>8, <2>2 DEF Replaced
  <2>3. UNCHANGED <<company, lane, offered>>
    BY <1>10, RestoreDoes
  <2>4. \/ UNCHANGED <<card, done, conv, mishaps>>
        \/ conv'.of = company /\ Shown({c \in Calls : card[c] # "new"}, "gone") /\ Replaced(Live \cup pending)
    <3>1. conv' = [no |-> conv.no, of |-> company] => conv'.of = company
      OBVIOUS
    <3> QED
      BY <1>10, <3>1, RestoreDoes
  <2> QED
    BY <2>1, <2>2, <2>3, <2>4
<1> QED
  BY <1>3, <1>4, <1>5, <1>7, <1>9, <1>10

LEMMA LedgerInit ==
  ASSUME Init
  PROVE  LedgerInv
<1>1. /\ conv.of = 1 /\ company = 1 /\ (\A c \in Calls : offered[c] = 0 /\ card[c] = "new")
      /\ \A l \in Lanes : lane[l].at = "idle" /\ lane[l].conv.of = 0
  BY IdleIsRecord DEF Init
<1> QED
  BY <1>1 DEF LedgerInv

LEMMA LedgerNext ==
  ASSUME TypeIInv, ConvInv, AloneInv, LedgerInv, [Next]_vars
  PROVE  LedgerInv'
BY StepIsOne, LedgerLane, LedgerSucceed, LedgerRest

LEMMA OnlyOfferShows ==
  ASSUME TypeIInv, [Next]_vars, NEW d \in Calls, card[d] # "pending", card'[d] = "pending"
  PROVE  \E l \in Lanes : Offer(l) /\ d \in lane[l].calls
<1>1. ASSUME NEW l \in Lanes, Admit(l) \/ Quiet(l) \/ Text(l) \/ ReadDone(l) \/ BatchDone(l) PROVE FALSE
  BY <1>1, AdmitDoes, QuietDoes, TextDoes, ReadDoneDoes, BatchDoneDoes
<1>2. ASSUME NEW l \in Lanes, Call(l) PROVE FALSE
  <2>1. PICK C \in SUBSET Calls : card'[d] = IF d \in C THEN "called" ELSE card[d]
    BY <1>2, CallDoes
  <2> QED
    BY <2>1
<1>3. ASSUME NEW l \in Lanes, Check(l) \/ Succeed(l) \/ Fail(l) PROVE FALSE
  BY <1>3, CheckDoes, SucceedDoes, FailDoes DEF Shown
<1>4. ASSUME NEW l \in Lanes, Offer(l) PROVE d \in lane[l].calls
  BY <1>4, OfferDoes
<1>5. ASSUME NEW c \in Calls, Approve(c) \/ Reject(c) PROVE FALSE
  BY <1>5, ApproveDoes, RejectDoes DEF Shown
<1>6. CASE Send \/ Regenerate
  BY <1>6, SpeaksDoes DEF Shown
<1>7. CASE Stop \/ Recover \/ Switch \/ Scope \/ (NewChat \/ SelectSession) \/ Restore
  BY <1>7, StopDoes, RecoverDoes, SwitchDoes, ScopeDoes, ResetsDoes, RestoreDoes DEF Shown
<1>8. CASE UNCHANGED vars
  BY <1>8 DEF vars, talk
<1> QED
  BY <1>1, <1>2, <1>3, <1>4, <1>5, <1>6, <1>7, <1>8, StepIsOne

(* A write that succeeded is not put on a card again in its conversation:  *)
(* what the guard lets through is not in the ledger, and nothing enters    *)
(* the ledger while a lane waits for the guard (runLoop, alreadyDone).     *)
THEOREM NothingIsOfferedTwice == Spec => NoSecondOffer
<1>1. Spec => [](TypeIInv /\ CallInv /\ ConvInv /\ AloneInv /\ LedgerInv)
  BY TypeInit, CallInit, ConvInit, AloneInit, LedgerInit,
     TypeNext, CallNext, ConvNext, AloneNext, LedgerNext, PTL DEF Spec
<1> DEFINE Twice == mishaps' = {} => \A c, d \in Calls :
                      /\ card[c] = "success" /\ offered[c] = conv.of /\ Key[d] = Key[c]
                      => ~(card[d] # "pending" /\ card'[d] = "pending")
<1>2. ASSUME TypeIInv, LedgerInv, [Next]_vars
      PROVE  Twice
  <2> SUFFICES ASSUME mishaps' = {}, NEW c \in Calls, NEW d \in Calls,
                      card[c] = "success", offered[c] = conv.of, Key[d] = Key[c],
                      card[d] # "pending", card'[d] = "pending"
               PROVE  FALSE
    OBVIOUS
  <2>1. PICK l \in Lanes : Offer(l) /\ d \in lane[l].calls
    BY <1>2, OnlyOfferShows
  <2>2. mishaps = {} /\ lane[l].at = "vetting"
    BY <1>2, <2>1, OfferDoes
  <2>3. Key[c] \in done /\ Key[d] \notin done
    BY <1>2, <2>1, <2>2, LedgerInvIs DEF LedgerFine
  <2> QED
    BY <2>3
<1>3. Spec => [][Next]_vars
  BY DEF Spec
<1>4. (TypeIInv /\ LedgerInv /\ [Next]_vars) => [Twice]_vars
  BY <1>2
<1>5. Spec => [][Twice]_vars
  BY <1>1, <1>3, <1>4, PTL
<1> QED
  BY <1>5 DEF NoSecondOffer

-----------------------------------------------------------------------------
(* What the steps make of a whole conversation. *)

LEMMA WholeMore ==
  ASSUME NEW h, NEW S, NEW D, NEW T, NEW E, Whole(h, S, D), S \subseteq T, D \subseteq E
  PROVE  Whole(h, T, E)
BY DEF Whole

LEMMA WholeNothing ==
  ASSUME NEW S, NEW D
  PROVE  Whole(<<>>, S, D)
BY DEF Whole

LEMMA PartnersLess ==
  ASSUME NEW h, NEW C, NEW B, Partners(h, C) # {}, B \subseteq C
  PROVE  Partners(h, B) # {}
BY DEF Partners

LEMMA PartnersAreThere ==
  ASSUME NEW h \in Seq(Turns), NEW C, Partners(h, C) # {}
  PROVE  h # <<>>
<1> SUFFICES ASSUME h = <<>> PROVE FALSE
  OBVIOUS
<1>1. Len(h) = 0
  OBVIOUS
<1> QED
  BY <1>1 DEF Partners

(* A turn without calls at the end.                                        *)
LEMMA WholeSays ==
  ASSUME NEW h \in Seq(Turns), h # <<>>, NEW S, NEW D, Whole(h, S, D),
         NEW kind \in {"user", "text"}, NEW v \in Conversations
  PROVE  /\ Append(h, Turn(kind, v)) \in Seq(Turns) /\ Append(h, Turn(kind, v)) # <<>>
         /\ Whole(Append(h, Turn(kind, v)), S, D)
         /\ \A B : Partners(h, B) # {} => Partners(Append(h, Turn(kind, v)), B) # {}
<1> DEFINE t == Turn(kind, v)
           g == Append(h, t)
<1>1. t \in Turns /\ t.kind = kind /\ t.calls = {} /\ t.answered = {}
  BY TurnIsTurn DEF Kinds
<1> HIDE DEF t
<1>2. /\ g \in Seq(Turns) /\ g # <<>> /\ Len(g) = Len(h) + 1 /\ Len(h) \in Nat
      /\ (\A i \in 1..Len(h) : g[i] = h[i]) /\ g[Len(h) + 1] = t
  BY <1>1, AppendTurn
<1> HIDE DEF g
<1>3. Len(h) \in 1..Len(h) /\ 1 \in 1..Len(h)
  BY <1>2, EmptySeq, LenProperties
<1>4. \A i \in 1..Len(g) : i \in 1..Len(h) \/ i = Len(h) + 1
  BY <1>2
<1>5. g[1].kind = "system"
  BY <1>2, <1>3 DEF Whole
<1>6. ASSUME NEW i \in 1..Len(g)
      PROVE  /\ g[i].kind # "stray" /\ g[i].answered \subseteq g[i].calls
             /\ g[i].calls # {} => g[i].kind = "calls"
             /\ g[i].calls \subseteq D /\ g[i].calls \ g[i].answered \subseteq S
             /\ \A j \in 1..Len(g) : i # j => g[i].calls \cap g[j].calls = {}
  <2>1. CASE i = Len(h) + 1
    BY <1>1, <1>2, <2>1
  <2>2. CASE i \in 1..Len(h)
    <3>1. ASSUME NEW j \in 1..Len(g), i # j PROVE g[i].calls \cap g[j].calls = {}
      <4>1. CASE j \in 1..Len(h)
        BY <1>2, <2>2, <3>1, <4>1 DEF Whole
      <4>2. CASE j = Len(h) + 1
        BY <1>1, <1>2, <4>2
      <4> QED
        BY <1>4, <4>1, <4>2
    <3> QED
      BY <1>2, <2>2, <3>1 DEF Whole
  <2> QED
    BY <1>4, <2>1, <2>2
<1>7. Whole(g, S, D)
  BY <1>5, <1>6 DEF Whole
<1>8. \A B : Partners(h, B) \subseteq Partners(g, B)
  BY <1>2 DEF Partners
<1> QED
  BY <1>2, <1>7, <1>8 DEF g, t

(* A turn with new calls.                                                  *)
Asked(g, C, S, D) ==
  /\ g \in Seq(Turns) /\ g # <<>> /\ Whole(g, S \cup C, D \cup C)
  /\ Partners(g, C) # {} /\ Last(g).kind = "calls" /\ Last(g).calls = C

LEMMA WholeCalls ==
  ASSUME NEW h \in Seq(Turns), h # <<>>, NEW S, NEW D, Whole(h, S, D),
         NEW C \in SUBSET Calls, C \cap D = {}, NEW v \in Conversations
  PROVE  Asked(Append(h, CallsTurn(C, v)), C, S, D)
<1> DEFINE t == CallsTurn(C, v)
           g == Append(h, t)
<1>1. t \in Turns /\ t.kind = "calls" /\ t.calls = C /\ t.answered = {}
  BY CallsTurnIsTurn
<1> HIDE DEF t
<1>2. /\ g \in Seq(Turns) /\ g # <<>> /\ Len(g) = Len(h) + 1 /\ Len(h) \in Nat
      /\ (\A i \in 1..Len(h) : g[i] = h[i]) /\ g[Len(h) + 1] = t
  BY <1>1, AppendTurn
<1> HIDE DEF g
<1>3. 1 \in 1..Len(h)
  BY <1>2, EmptySeq, LenProperties
<1>4. \A i \in 1..Len(g) : i \in 1..Len(h) \/ i = Len(h) + 1
  BY <1>2
<1>5. g[1].kind = "system"
  BY <1>2, <1>3 DEF Whole
<1>6. ASSUME NEW i \in 1..Len(g)
      PROVE  /\ g[i].kind # "stray" /\ g[i].answered \subseteq g[i].calls
             /\ g[i].calls # {} => g[i].kind = "calls"
             /\ g[i].calls \subseteq D \cup C /\ g[i].calls \ g[i].answered \subseteq S \cup C
             /\ \A j \in 1..Len(g) : i # j => g[i].calls \cap g[j].calls = {}
  <2>0. ASSUME NEW k \in 1..Len(h) PROVE g[k].calls \cap C = {} /\ g[k] = h[k]
    BY <1>2, <2>0 DEF Whole
  <2>1. CASE i = Len(h) + 1
    <3>1. \A j \in 1..Len(g) : i # j => g[i].calls \cap g[j].calls = {}
      BY <1>1, <1>2, <1>4, <2>0, <2>1
    <3> QED
      BY <1>1, <1>2, <2>1, <3>1
  <2>2. CASE i \in 1..Len(h)
    <3>1. ASSUME NEW j \in 1..Len(g), i # j PROVE g[i].calls \cap g[j].calls = {}
      <4>1. CASE j \in 1..Len(h)
        BY <1>2, <2>2, <3>1, <4>1 DEF Whole
      <4>2. CASE j = Len(h) + 1
        BY <1>1, <1>2, <2>0, <2>2, <4>2
      <4> QED
        BY <1>4, <4>1, <4>2
    <3>2. /\ g[i].kind # "stray" /\ g[i].answered \subseteq g[i].calls
          /\ g[i].calls # {} => g[i].kind = "calls"
          /\ g[i].calls \subseteq D /\ g[i].calls \ g[i].answered \subseteq S
      BY <2>0, <2>2 DEF Whole
    <3> QED
      BY <3>1, <3>2
  <2> QED
    BY <1>4, <2>1, <2>2
<1>7. Whole(g, S \cup C, D \cup C)
  BY <1>5, <1>6 DEF Whole
<1>8. Len(g) \in 1..Len(g)
  BY <1>2
<1>9. Last(g) = t /\ Len(g) \in Partners(g, C)
  BY <1>1, <1>2, <1>8 DEF Last, Partners
<1> QED
  BY <1>1, <1>2, <1>7, <1>9 DEF g, t, Asked

(* Answers put where the calls were made.                                  *)
Follows(g, h, C) ==
  /\ C \subseteq Calls /\ C # {} /\ Partners(h, C) # {} /\ g \in Seq(Turns) /\ Len(g) = Len(h)
  /\ \A i \in 1..Len(h) : g[i] = IF i \in Partners(h, C) THEN Answered(h[i], C) ELSE h[i]

Mends(g, h, C, S, D) ==
  g \in Seq(Turns) /\ Whole(g, S \ C, D) /\ \A B : Partners(g, B) = Partners(h, B)

LEMMA WholeAnswered ==
  ASSUME NEW h \in Seq(Turns), NEW S, NEW D, Whole(h, S, D), NEW C, NEW g, Follows(g, h, C)
  PROVE  Mends(g, h, C, S, D)
<1> USE DEF Follows, Mends
<1>1. \A i \in 1..Len(h) : h[i] \in Turns
  BY ElementOfSeq
<1>2. \A i \in 1..Len(h) : /\ g[i].kind = h[i].kind /\ g[i].calls = h[i].calls
                           /\ i \in Partners(h, C) => g[i].answered = h[i].answered \cup C
                           /\ i \notin Partners(h, C) => g[i].answered = h[i].answered
  BY <1>1, AnsweredIsTurn
<1>3. \A B : Partners(g, B) = Partners(h, B)
  BY <1>2 DEF Partners
<1>4. PICK p \in Partners(h, C) : p \in 1..Len(h) /\ C \subseteq h[p].calls
  BY DEF Partners
<1>5. ASSUME NEW i \in 1..Len(h)
      PROVE  /\ g[i].kind # "stray" /\ g[i].answered \subseteq g[i].calls
             /\ g[i].calls # {} => g[i].kind = "calls"
             /\ g[i].calls \subseteq D /\ g[i].calls \ g[i].answered \subseteq S \ C
             /\ \A j \in 1..Len(h) : i # j => g[i].calls \cap g[j].calls = {}
  <2>1. /\ h[i].kind # "stray" /\ h[i].answered \subseteq h[i].calls
        /\ h[i].calls # {} => h[i].kind = "calls"
        /\ h[i].calls \subseteq D /\ h[i].calls \ h[i].answered \subseteq S
        /\ \A j \in 1..Len(h) : i # j => h[i].calls \cap h[j].calls = {}
    BY DEF Whole
  <2>2. CASE i \in Partners(h, C)
    <3>1. C \subseteq h[i].calls
      BY <2>2 DEF Partners
    <3> QED
      BY <1>2, <2>1, <2>2, <3>1
  <2>3. CASE i \notin Partners(h, C)
    <3>1. i # p /\ h[i].calls \cap C = {}
      BY <1>4, <2>1, <2>3
    <3> QED
      BY <1>2, <2>1, <2>3, <3>1
  <2> QED
    BY <2>2, <2>3
<1>6. g # <<>> => g[1].kind = "system"
  <2> SUFFICES ASSUME g # <<>> PROVE g[1].kind = "system"
    OBVIOUS
  <2>1. Len(g) \in Nat /\ Len(g) # 0
    BY EmptySeq, LenProperties
  <2>2. h # <<>> /\ 1 \in 1..Len(h)
    BY <2>1, EmptySeq
  <2> QED
    BY <1>2, <2>2 DEF Whole
<1>7. Whole(g, S \ C, D)
  BY <1>5, <1>6 DEF Whole
<1> QED
  BY <1>3, <1>7

LEMMA WholeAnswer ==
  ASSUME NEW h \in Seq(Turns), NEW S, NEW D, Whole(h, S, D),
         NEW C \in SUBSET Calls, C = {} \/ Partners(h, C) # {}, NEW v \in Conversations
  PROVE  Mends(Answer(h, C, v), h, C, S, D)
<1>2. CASE C = {}
  <2>1. Answer(h, C, v) = h
    BY <1>2 DEF Answer, AnswerAtTail
  <2>2. S \ C = S
    BY <1>2
  <2> QED
    BY <2>1, <2>2 DEF Mends
<1>3. CASE C # {}
  <2> DEFINE g == Answer(h, C, v)
  <2>1. /\ g \in Seq(Turns) /\ Len(g) = Len(h)
        /\ \A i \in 1..Len(h) : g[i] = IF i \in Partners(h, C) THEN Answered(h[i], C) ELSE h[i]
    BY <1>3, AnswerAtPartner
  <2> HIDE DEF g
  <2>2. Follows(g, h, C)
    BY <1>3, <2>1 DEF Follows
  <2>3. Mends(g, h, C, S, D)
    BY <2>2, WholeAnswered
  <2> QED
    BY <2>3 DEF g
<1> QED
  BY <1>2, <1>3

(* The answers of reads stand right behind the turn that made them.        *)
LEMMA WholeTail ==
  ASSUME NEW h \in Seq(Turns), h # <<>>, NEW S, NEW D, Whole(h, S, D), NEW C \in SUBSET Calls,
         Last(h).kind = "calls", C \subseteq Last(h).calls, NEW v \in Conversations
  PROVE  Mends(AnswerAtTail(h, C, v), h, C, S, D)
<1>1. CASE C = {}
  <2>1. AnswerAtTail(h, C, v) = h /\ S \ C = S
    BY <1>1 DEF AnswerAtTail
  <2> QED
    BY <2>1 DEF Mends
<1>2. CASE C # {}
  <2> DEFINE t == Answered(h[Len(h)], C)
             g == [h EXCEPT ![Len(h)] = t]
  <2>1. Len(h) \in 1..Len(h) /\ Len(h) \in Nat
    BY EmptySeq, LenProperties
  <2>2. AnswerAtTail(h, C, v) = g
    BY <1>2 DEF AnswerAtTail, Answered
  <2>3. h[Len(h)] \in Turns /\ t \in Turns
    BY <2>1, ElementOfSeq, AnsweredIsTurn
  <2> HIDE DEF t
  <2>4. g \in Seq(Turns) /\ Len(g) = Len(h) /\ \A j \in 1..Len(h) : g[j] = IF j = Len(h) THEN t ELSE h[j]
    BY <2>1, <2>3, ExceptSeq
  <2> HIDE DEF g
  <2>5. Len(h) \in Partners(h, C)
    BY <2>1 DEF Last, Partners
  <2>6. ASSUME NEW i \in Partners(h, C) PROVE i = Len(h)
    <3>1. i \in 1..Len(h) /\ C \subseteq h[i].calls /\ C \subseteq h[Len(h)].calls
      BY DEF Partners, Last
    <3>2. i # Len(h) => h[i].calls \cap h[Len(h)].calls = {}
      BY <2>1, <3>1 DEF Whole
    <3> QED
      BY <1>2, <3>1, <3>2
  <2>7. \A i \in 1..Len(h) : g[i] = IF i \in Partners(h, C) THEN Answered(h[i], C) ELSE h[i]
    BY <2>4, <2>5, <2>6 DEF t
  <2>8. Follows(g, h, C)
    BY <1>2, <2>4, <2>5, <2>7 DEF Follows
  <2>9. Mends(g, h, C, S, D)
    BY <2>8, WholeAnswered
  <2> QED
    BY <2>2, <2>9
<1> QED
  BY <1>1, <1>2

(* The instructions, written anew.                                         *)
LEMMA WholeSystem ==
  ASSUME NEW h \in Seq(Turns), NEW S, NEW D, Whole(h, S, D), NEW v \in Conversations
  PROVE  WithSystem(h, v) \in Seq(Turns) /\ WithSystem(h, v) # <<>> /\ Whole(WithSystem(h, v), S, D)
<1> DEFINE t == Turn("system", v)
           g == WithSystem(h, v)
<1>1. t.kind = "system" /\ t.calls = {} /\ t.answered = {}
  BY TurnIsTurn DEF Kinds
<1> HIDE DEF t
<1>2. g \in Seq(Turns) /\ g # <<>> /\ Len(h) \in Nat /\ g[1] = t
  BY WithSystemTyped DEF t
<1>3. CASE /\ h # <<>> /\ h[1].kind = "system" /\ Len(g) = Len(h)
           /\ \A i \in 2..Len(h) : g[i] = h[i]
  <2> HIDE DEF g
  <2>1. \A i \in 1..Len(g) : i = 1 \/ (i \in 2..Len(h) /\ i \in 1..Len(h))
    BY <1>2, <1>3
  <2>2. \A i \in 1..Len(g) : i = 1 => g[i] = t
    BY <1>2
  <2>3. \A i \in 1..Len(g) : i # 1 => i \in 1..Len(h) /\ g[i] = h[i]
    BY <1>3, <2>1
  <2>4. ASSUME NEW i \in 1..Len(g)
        PROVE  /\ g[i].kind # "stray" /\ g[i].answered \subseteq g[i].calls
               /\ g[i].calls # {} => g[i].kind = "calls"
               /\ g[i].calls \subseteq D /\ g[i].calls \ g[i].answered \subseteq S
               /\ \A j \in 1..Len(g) : i # j => g[i].calls \cap g[j].calls = {}
    BY <1>1, <2>2, <2>3 DEF Whole
  <2> QED
    BY <1>1, <1>2, <2>4 DEF Whole, g
<1>4. CASE /\ Len(g) = Len(h) + 1
           /\ \A i \in 1..Len(h) : g[i + 1] = h[i]
  <2> HIDE DEF g
  <2>1. \A i \in 1..Len(g) : i # 1 => i - 1 \in 1..Len(h) /\ g[i] = h[i - 1]
    <3> SUFFICES ASSUME NEW i \in 1..Len(g), i # 1 PROVE i - 1 \in 1..Len(h) /\ g[i] = h[i - 1]
      OBVIOUS
    <3>1. i - 1 \in 1..Len(h) /\ (i - 1) + 1 = i
      BY <1>2, <1>4
    <3> QED
      BY <1>4, <3>1
  <2>2. ASSUME NEW i \in 1..Len(g)
        PROVE  /\ g[i].kind # "stray" /\ g[i].answered \subseteq g[i].calls
               /\ g[i].calls # {} => g[i].kind = "calls"
               /\ g[i].calls \subseteq D /\ g[i].calls \ g[i].answered \subseteq S
               /\ \A j \in 1..Len(g) : i # j => g[i].calls \cap g[j].calls = {}
    <3>1. CASE i = 1
      BY <1>1, <1>2, <3>1
    <3>2. CASE i # 1
      <4>1. i - 1 \in 1..Len(h) /\ g[i] = h[i - 1]
        BY <2>1, <3>2
      <4>2. ASSUME NEW j \in 1..Len(g), i # j PROVE g[i].calls \cap g[j].calls = {}
        <5>1. CASE j = 1
          BY <1>1, <1>2, <5>1
        <5>2. CASE j # 1
          <6>1. j - 1 \in 1..Len(h) /\ g[j] = h[j - 1] /\ i - 1 # j - 1
            BY <2>1, <4>2, <5>2
          <6> QED
            BY <4>1, <6>1 DEF Whole
        <5> QED
          BY <5>1, <5>2
      <4> QED
        BY <4>1, <4>2 DEF Whole
    <3> QED
      BY <3>1, <3>2
  <2> QED
    BY <1>1, <1>2, <2>2 DEF Whole, g
<1>5. \/ /\ h # <<>> /\ h[1].kind = "system" /\ Len(g) = Len(h)
         /\ \A i \in 2..Len(h) : g[i] = h[i]
      \/ /\ Len(g) = Len(h) + 1
         /\ \A i \in 1..Len(h) : g[i + 1] = h[i]
  BY WithSystemTyped
<1> QED
  BY <1>3, <1>4, <1>5

(* The head of a whole conversation.                                       *)
LEMMA WholeBefore ==
  ASSUME NEW h \in Seq(Turns), NEW S, NEW D, Whole(h, S, D), UserTurns(h) # {}
  PROVE  Whole(BeforeLastUser(h), S, D)
<1> DEFINE g == BeforeLastUser(h)
<1>1. PICK cut \in UserTurns(h) :
           /\ g \in Seq(Turns) /\ Len(g) = cut - 1
           /\ cut \in 1..Len(h) /\ Len(h) \in Nat
           /\ \A i \in 1..(cut - 1) : g[i] = h[i]
  BY BeforeLastUserIsPrefix
<1> HIDE DEF g
<1>2. \A i \in 1..Len(g) : i \in 1..Len(h) /\ g[i] = h[i]
  BY <1>1
<1>3. g # <<>> => 1 \in 1..Len(g) /\ h # <<>>
  <2> SUFFICES ASSUME g # <<>> PROVE 1 \in 1..Len(g) /\ h # <<>>
    OBVIOUS
  <2>1. Len(g) \in Nat /\ Len(g) # 0
    BY <1>1, EmptySeq, LenProperties
  <2>2. 1 \in 1..Len(g) /\ Len(h) # 0
    BY <1>1, <2>1
  <2> QED
    BY <2>2, EmptySeq
<1>4. g # <<>> => g[1].kind = "system"
  BY <1>2, <1>3 DEF Whole
<1>5. ASSUME NEW i \in 1..Len(g)
      PROVE  /\ g[i].kind # "stray" /\ g[i].answered \subseteq g[i].calls
             /\ g[i].calls # {} => g[i].kind = "calls"
             /\ g[i].calls \subseteq D /\ g[i].calls \ g[i].answered \subseteq S
             /\ \A j \in 1..Len(g) : i # j => g[i].calls \cap g[j].calls = {}
  BY <1>2 DEF Whole
<1>6. Whole(g, S, D)
  BY <1>4, <1>5 DEF Whole
<1> QED
  BY <1>6 DEF g

-----------------------------------------------------------------------------
(* Requests are whole. *)

(* What follows for a lane that asks, or stops, when no call is open.      *)
LEMMA FineEnds ==
  ASSUME NEW p, NEW h, NEW D, Whole(h, p, D), \A c \in p : Partners(h, {c}) # {}
  PROVE  /\ Fine("idle", {}, p, h, D)
         /\ p = {} /\ h # <<>> => Fine("asking", {}, p, h, D) /\ Fine("pausing", {}, p, h, D)
<1>1. /\ Busying("idle", {}) = {} /\ Busying("asking", {}) = {} /\ Busying("pausing", {}) = {}
      /\ p \cup {} = p
  BY DEF Busying
<1>2. Whole(h, p \cup Busying("idle", {}), D) /\ Whole(h, p \cup Busying("asking", {}), D)
      /\ Whole(h, p \cup Busying("pausing", {}), D)
  BY <1>1
<1> QED
  BY <1>2 DEF Fine, Asks, Busied, Holding

(* What a lane that asks finds.                                            *)
LEMMA FineAsks ==
  ASSUME NEW a \in Asks, NEW C, NEW p, NEW h, NEW D, Fine(a, C, p, h, D)
  PROVE  p = {} /\ Whole(h, {}, D) /\ (a # "preamble" => h # <<>>)
<1>1. Busying(a, C) = {} /\ p = {} /\ {} \cup {} = {}
  BY DEF Busying, Fine, Asks, Busied, Holding
<1> QED
  BY <1>1 DEF Fine

LEMMA FineBusied ==
  ASSUME NEW a \in Busied, NEW C, NEW p, NEW h, NEW D, Fine(a, C, p, h, D)
  PROVE  Whole(h, p \cup C, D) /\ C # {} /\ Partners(h, C) # {} /\ \A c \in p : Partners(h, {c}) # {}
BY DEF Fine, Busying

(* A lane that is the only one, after its step.                            *)
LEMMA WholeTo ==
  ASSUME AloneInv, mishaps = {}, NEW l \in Lanes, lane[l].at # "idle",
         NEW a, NEW e, NEW v, NEW C, To(l, a, e, v, C), Fine(a, C, pending', history', Used'),
         a = "idle" => C = {}
  PROVE  WholeInv'
<1>1. \A m \in Lanes \ {l} : lane'[m].at = "idle"
  BY Solo DEF To
<1>2. lane'[l].at = a /\ lane'[l].calls = C
  BY DEF To
<1>3. \A m \in Live' : m = l
  BY <1>1 DEF Live
<1>4. \A m \in Live' : Fine(lane'[m].at, lane'[m].calls, pending', history', Used')
  BY <1>2, <1>3
<1>5. Live' = {} => Fine("idle", {}, pending', history', Used')
  BY <1>2 DEF Live
<1> QED
  BY <1>4, <1>5 DEF WholeInv

LEMMA WholeHalts ==
  ASSUME AloneInv, mishaps = {}, NEW l \in Lanes, lane[l].at # "idle", Halts(l),
         Whole(history', pending', Used'), \A c \in pending' : Partners(history', {c}) # {}
  PROVE  WholeInv'
<1>1. Fine("idle", {}, pending', history', Used')
  BY FineEnds
<1>2. To(l, "idle", 0, Idle.conv, {})
  BY DEF Halts
<1> QED
  BY <1>1, <1>2, WholeTo

LEMMA WholeLoops ==
  ASSUME AloneInv, mishaps = {}, NEW l \in Lanes, lane[l].at # "idle",
         NEW e, NEW v, NEW shown, LoopsOn(l, e, v, {}, shown),
         Whole(history', pending', Used'), pending' = {}, history' # <<>>
  PROVE  WholeInv'
<1>1. Fine("asking", {}, pending', history', Used')
  BY FineEnds
<1>2. CASE Halts(l)
  BY <1>2, WholeHalts
<1>3. CASE To(l, "asking", e, v, {})
  BY <1>1, <1>3, WholeTo
<1> QED
  BY <1>2, <1>3 DEF LoopsOn

(* What has calls in it stays so, and cards are not made new again.        *)
LEMMA UsedStays ==
  ASSUME TypeIInv, \A c \in Calls : card[c] # "new" => card'[c] # "new"
  PROVE  Used \subseteq Used'
BY DEF Used

LEMMA CardsStay ==
  ASSUME NEW C, NEW status \in Cards \ {"new"}, Shown(C, status)
  PROVE  \A c \in Calls : card[c] # "new" => card'[c] # "new"
BY DEF Shown

LEMMA WholeAdmit ==
  ASSUME TypeIInv, AloneInv, WholeInv, mishaps = {}, NEW l \in Lanes, Admit(l)
  PROVE  WholeInv'
<1> DEFINE h == WithSystem(history, lane[l].conv)
           g == Append(h, Turn("user", lane[l].conv))
<1>1. /\ lane[l].at = "preamble" /\ UNCHANGED <<pending, card>>
      /\ \/ history' = h /\ Halts(l)
         \/ history' = g /\ LoopsOn(l, epoch, lane[l].conv, {}, busy)
  BY AdmitDoes
<1>2. pending = {} /\ Whole(history, {}, Used) /\ Used' = Used
  <2>1. Fine("preamble", lane[l].calls, pending, history, Used) /\ "preamble" \in Asks
    BY <1>1 DEF WholeInv, Live, Asks
  <2>2. Used' = Used
    BY <1>1 DEF Used
  <2> QED
    BY <2>1, <2>2, FineAsks
<1>3. lane[l].conv \in Conversations /\ history \in Seq(Turns)
  BY TypesNow, LaneIsRecord DEF Records
<1>4. h \in Seq(Turns) /\ h # <<>> /\ Whole(h, {}, Used)
  BY <1>2, <1>3, WholeSystem
<1> HIDE DEF h
<1>5. g # <<>> /\ Whole(g, {}, Used)
  BY <1>3, <1>4, WholeSays
<1> HIDE DEF g
<1>6. Whole(history', pending', Used') /\ history' # <<>> /\ pending' = {}
  BY <1>1, <1>2, <1>4, <1>5
<1> QED
  BY <1>1, <1>6, WholeHalts, WholeLoops

LEMMA WholeQuiet ==
  ASSUME TypeIInv, AloneInv, WholeInv, mishaps = {}, NEW l \in Lanes, Quiet(l)
  PROVE  WholeInv'
<1>1. /\ UNCHANGED <<history, pending, card>>
      /\ lane[l].at \in {"asking", "pausing", "reading"}
      /\ \/ Halts(l) /\ (lane[l].at # "reading" \/ ~Fresh(l))
         \/ /\ lane[l].at \in {"asking", "pausing"}
            /\ \/ To(l, "pausing", lane[l].epoch, lane[l].conv, lane[l].calls)
               \/ To(l, "asking", lane[l].epoch, lane[l].conv, lane[l].calls)
  BY QuietDoes
<1>2. Fresh(l) /\ Fine(lane[l].at, lane[l].calls, pending, history, Used) /\ Used' = Used
  BY <1>1 DEF AloneInv, WholeInv, Live, Used
<1>3. lane[l].at \in {"asking", "pausing"} /\ lane[l].at \in Asks /\ lane[l].at # "idle"
  BY <1>1, <1>2 DEF Asks
<1>4. pending = {} /\ Whole(history, {}, Used) /\ history # <<>>
  BY <1>2, <1>3, FineAsks
<1>5. CASE Halts(l)
  BY <1>1, <1>2, <1>3, <1>4, <1>5, WholeHalts
<1>6. ASSUME NEW a \in {"pausing", "asking"}, To(l, a, lane[l].epoch, lane[l].conv, lane[l].calls)
      PROVE  WholeInv'
  <2>1. Busying(a, lane[l].calls) = {} /\ pending \cup {} = {} /\ a \notin Busied
    BY <1>4 DEF Busying, Busied, Holding
  <2>2. Fine(a, lane[l].calls, pending, history, Used)
    BY <1>4, <2>1 DEF Fine
  <2> QED
    BY <1>1, <1>2, <1>3, <1>6, <2>2, WholeTo
<1> QED
  BY <1>1, <1>5, <1>6

LEMMA WholeText ==
  ASSUME TypeIInv, AloneInv, WholeInv, mishaps = {}, NEW l \in Lanes, Text(l)
  PROVE  WholeInv'
<1> DEFINE h == Append(history, Turn("text", lane[l].conv))
           g == Append(h, Turn("user", lane[l].conv))
<1>1. /\ lane[l].at = "asking" /\ UNCHANGED <<pending, card>>
      /\ \/ history' = h /\ Halts(l)
         \/ history' = g /\ LoopsOn(l, epoch, lane[l].conv, {}, busy)
  BY TextDoes
<1>2. pending = {} /\ Whole(history, {}, Used) /\ Used' = Used /\ history # <<>>
  <2>1. Fine("asking", lane[l].calls, pending, history, Used) /\ "asking" \in Asks
    BY <1>1 DEF WholeInv, Live, Asks
  <2>2. Used' = Used
    BY <1>1 DEF Used
  <2> QED
    BY <2>1, <2>2, FineAsks
<1>3. lane[l].conv \in Conversations /\ history \in Seq(Turns)
  BY TypesNow, LaneIsRecord DEF Records
<1>4. h \in Seq(Turns) /\ h # <<>> /\ Whole(h, {}, Used)
  BY <1>2, <1>3, WholeSays
<1> HIDE DEF h
<1>5. g # <<>> /\ Whole(g, {}, Used)
  BY <1>3, <1>4, WholeSays
<1> HIDE DEF g
<1>6. Whole(history', pending', Used') /\ history' # <<>> /\ pending' = {}
  BY <1>1, <1>2, <1>4, <1>5
<1> QED
  BY <1>1, <1>6, WholeHalts, WholeLoops

(* A reply whose reads are answered.                                       *)
LEMMA WholeTakenUp ==
  ASSUME TypeIInv, AloneInv, mishaps = {}, NEW l \in Lanes, lane[l].at # "idle", pending = {},
         NEW h \in Seq(Turns), h # <<>>, NEW W \in SUBSET Calls, Whole(h, W, Used'),
         W = {} \/ Partners(h, W) # {}, TakenUp(l, h, W)
  PROVE  WholeInv'
<1>0. lane[l].conv \in Conversations
  BY TypesNow, LaneIsRecord DEF Records
<1>1. CASE /\ W = {} /\ history' = h /\ pending' = pending
           /\ LoopsOn(l, lane[l].epoch, lane[l].conv, {}, busy)
  <2>1. Whole(history', pending', Used') /\ pending' = {} /\ history' # <<>>
    BY <1>1
  <2> QED
    BY <1>1, <2>1, WholeLoops
<1>2. ASSUME NEW refused \in SUBSET W, W # {}, pending' = {}, history' = Answer(h, refused, lane[l].conv),
             \/ W = refused /\ Halts(l)
             \/ W # refused /\ To(l, "vetting", lane[l].epoch, lane[l].conv, W \ refused)
      PROVE  WholeInv'
  <2>1. refused \in SUBSET Calls /\ (refused = {} \/ Partners(h, refused) # {})
    <3>1. Partners(h, W) # {} /\ refused \subseteq W
      BY <1>2
    <3> QED
      BY <3>1, PartnersLess
  <2>2. Mends(history', h, refused, W, Used')
    BY <1>0, <1>2, <2>1, WholeAnswer
  <2> DEFINE asked == W \ refused
  <2>3. Whole(history', asked, Used') /\ \A B : Partners(history', B) = Partners(h, B)
    BY <2>2 DEF Mends
  <2>4. CASE asked = {} /\ Halts(l)
    BY <1>2, <2>3, <2>4, WholeHalts
  <2>5. CASE asked # {} /\ To(l, "vetting", lane[l].epoch, lane[l].conv, asked)
    <3>1. Partners(h, asked) # {}
      BY <1>2, PartnersLess
    <3>2. Busying("vetting", asked) = asked /\ pending' \cup asked = asked
      BY <1>2 DEF Busying, Busied, Holding
    <3> HIDE DEF asked
    <3>3. Fine("vetting", asked, pending', history', Used')
      BY <1>2, <2>3, <2>5, <3>1, <3>2 DEF Fine, Asks
    <3> QED
      BY <2>5, <3>3, WholeTo
  <2> QED
    BY <1>2, <2>4, <2>5
<1> QED
  BY <1>1, <1>2 DEF TakenUp

LEMMA WholeCall ==
  ASSUME TypeIInv, AloneInv, WholeInv, mishaps = {}, NEW l \in Lanes, Call(l)
  PROVE  WholeInv'
<1>1. lane[l].at = "asking"
  BY CallDoes
<1>2. PICK C \in SUBSET Calls :
              /\ C # {} /\ \A c \in C : card[c] = "new"
              /\ \A c \in Calls : card'[c] = IF c \in C THEN "called" ELSE card[c]
              /\ \/ C \cap Reads = {} /\ TakenUp(l, Append(history, CallsTurn(C, lane[l].conv)), C)
                 \/ /\ history' = Append(history, CallsTurn(C, lane[l].conv))
                    /\ To(l, "reading", lane[l].epoch, lane[l].conv, C) /\ UNCHANGED <<busy, pending>>
  BY CallDoes
<1> DEFINE h == Append(history, CallsTurn(C, lane[l].conv))
<1>3. pending = {} /\ Whole(history, {}, Used) /\ history # <<>>
  <2>1. Fine("asking", lane[l].calls, pending, history, Used) /\ "asking" \in Asks
    BY <1>1 DEF WholeInv, Live, Asks
  <2> QED
    BY <2>1, FineAsks
<1>4. lane[l].conv \in Conversations /\ history \in Seq(Turns)
  BY TypesNow, LaneIsRecord DEF Records
<1>5. C \cap Used = {} /\ Used \cup C \subseteq Used' /\ {} \cup C = C
  BY <1>2 DEF Used
<1>6. /\ h \in Seq(Turns) /\ h # <<>> /\ Whole(h, {} \cup C, Used \cup C)
      /\ Partners(h, C) # {} /\ Last(h).kind = "calls" /\ Last(h).calls = C
  <2>1. Asked(h, C, {}, Used)
    BY <1>3, <1>4, <1>5, WholeCalls
  <2> HIDE DEF h
  <2> QED
    BY <2>1 DEF Asked
<1> HIDE DEF h
<1>7. Whole(h, C, Used')
  BY <1>5, <1>6, WholeMore
<1>8. CASE TakenUp(l, h, C)
  BY <1>1, <1>3, <1>6, <1>7, <1>8, WholeTakenUp
<1>9. CASE history' = h /\ To(l, "reading", lane[l].epoch, lane[l].conv, C) /\ UNCHANGED pending
  <2>1. pending' = {} /\ pending' \cup Busying("reading", C) = C
    BY <1>3, <1>9 DEF Busying, Busied, Holding
  <2>2. Fine("reading", C, pending', history', Used')
    BY <1>2, <1>6, <1>7, <1>9, <2>1 DEF Fine, Asks
  <2> QED
    BY <1>1, <1>9, <2>2, WholeTo
<1> QED
  BY <1>2, <1>8, <1>9 DEF h

LEMMA WholeReadDone ==
  ASSUME TypeIInv, AloneInv, WholeInv, mishaps = {}, NEW l \in Lanes, ReadDone(l)
  PROVE  WholeInv'
<1> DEFINE C == lane[l].calls
           R == C \cap Reads
           h == AnswerAtTail(history, R, lane[l].conv)
           W == C \ Reads
<1>1. lane[l].at = "reading" /\ TakenUp(l, h, W) /\ card' = card
  BY ReadDoneDoes
<1>2. lane[l].conv \in Conversations /\ history \in Seq(Turns) /\ C \in SUBSET Calls
  BY TypesNow, LaneIsRecord DEF Records
<1>3. Fine("reading", C, pending, history, Used) /\ Used' = Used
  BY <1>1 DEF WholeInv, Live, Used
<1> HIDE DEF C
<1>4. pending = {} /\ Last(history).kind = "calls" /\ Last(history).calls = C
  BY <1>3 DEF Fine
<1>5. Whole(history, C, Used) /\ Partners(history, C) # {}
  <2>1. pending \cup C = C /\ "reading" \in Busied
    BY <1>4 DEF Busied, Holding
  <2> QED
    BY <1>3, <2>1, FineBusied
<1>6. history # <<>>
  BY <1>2, <1>5, PartnersAreThere
<1>7. R \in SUBSET Calls /\ R \subseteq C /\ W \in SUBSET Calls /\ W \subseteq C /\ C \ R = W
  BY <1>2
<1> HIDE DEF R, W
<1>8. Mends(h, history, R, C, Used)
  BY <1>2, <1>4, <1>5, <1>6, <1>7, WholeTail
<1> HIDE DEF h
<1>9. h \in Seq(Turns) /\ Whole(h, W, Used') /\ Partners(h, W) # {}
  BY <1>3, <1>5, <1>7, <1>8, PartnersLess DEF Mends
<1>10. h # <<>>
  BY <1>9, PartnersAreThere
<1>11. lane[l].at # "idle"
  BY <1>1
<1> QED
  BY <1>1, <1>4, <1>7, <1>9, <1>10, <1>11, WholeTakenUp

LEMMA WholeOffer ==
  ASSUME TypeIInv, AloneInv, WholeInv, mishaps = {}, NEW l \in Lanes, Offer(l)
  PROVE  WholeInv'
<1> DEFINE C == lane[l].calls
<1>1. lane[l].at = "vetting" /\ Halts(l)
  BY OfferDoes
<1>2. PICK blocked \in SUBSET C :
              /\ history' = Answer(history, blocked, lane[l].conv)
              /\ pending' = pending \cup (C \ blocked)
              /\ \A c \in Calls : /\ c \in C \ blocked => card'[c] = "pending"
                                  /\ c \in blocked => card'[c] = "error"
                                  /\ c \notin C => card'[c] = card[c]
  BY OfferDoes
<1>3. lane[l].conv \in Conversations /\ history \in Seq(Turns) /\ C \in SUBSET Calls
  BY TypesNow, LaneIsRecord DEF Records
<1>4. Fine("vetting", C, pending, history, Used)
  BY <1>1 DEF WholeInv, Live
<1>5. Used \subseteq Used'
  BY <1>2 DEF Used
<1> HIDE DEF C
<1>6. pending = {}
  BY <1>4 DEF Fine
<1>7. Whole(history, C, Used) /\ Partners(history, C) # {}
  <2>1. pending \cup C = C /\ "vetting" \in Busied
    BY <1>6 DEF Busied, Holding
  <2>2. Whole(history, pending \cup C, Used) /\ Partners(history, C) # {}
    BY <1>4, <2>1, FineBusied
  <2> QED
    BY <2>1, <2>2
<1>8. blocked \in SUBSET Calls /\ Partners(history, blocked) # {}
  BY <1>3, <1>7, PartnersLess
<1>9. Mends(history', history, blocked, C, Used)
  BY <1>2, <1>3, <1>7, <1>8, WholeAnswer
<1>10. pending' = C \ blocked
  BY <1>2, <1>6
<1>11. Whole(history', pending', Used')
  BY <1>5, <1>9, <1>10, WholeMore DEF Mends
<1>12. ASSUME NEW c \in pending' PROVE Partners(history', {c}) # {}
  <2>1. {c} \subseteq C
    BY <1>10, <1>12
  <2>2. Partners(history, {c}) # {}
    BY <1>7, <2>1, PartnersLess
  <2> QED
    BY <1>9, <2>2 DEF Mends
<1>13. lane[l].at # "idle"
  BY <1>1
<1> QED
  BY <1>1, <1>11, <1>12, <1>13, WholeHalts

(* A write that is answered: h is what was said before the answer.         *)
LEMMA WholeResumed ==
  ASSUME TypeIInv, AloneInv, mishaps = {}, NEW l \in Lanes, lane[l].at \in Busied, Resumed(l), pending' = pending,
         NEW h \in Seq(Turns), Whole(h, pending \cup lane[l].calls, Used), Partners(h, lane[l].calls) # {},
         \A c \in pending : Partners(h, {c}) # {},
         Used \subseteq Used', history' = Answer(h, lane[l].calls, lane[l].conv)
  PROVE  WholeInv'
<1> DEFINE C == lane[l].calls
<1>1. lane[l].conv \in Conversations /\ C \in SUBSET Calls
  BY TypesNow, LaneIsRecord DEF Records
<1>2. lane[l].at # "idle"
  BY DEF Busied, Holding
<1> HIDE DEF C
<1>3. Mends(history', h, C, pending \cup C, Used)
  <2>1. Whole(h, pending \cup C, Used) /\ Partners(h, C) # {} /\ history' = Answer(h, C, lane[l].conv)
    BY DEF C
  <2> QED
    BY <1>1, <2>1, WholeAnswer
<1>4. (pending \cup C) \ C \subseteq pending'
  OBVIOUS
<1>5. Whole(history', pending', Used') /\ \A c \in pending' : Partners(history', {c}) # {}
  BY <1>3, <1>4, WholeMore DEF Mends
<1>6. history' \in Seq(Turns) /\ Partners(history', C) # {}
  BY <1>3 DEF Mends, C
<1>7. history' # <<>>
  BY <1>6, PartnersAreThere
<1> QED
  BY <1>2, <1>5, <1>7, WholeHalts, WholeLoops DEF Resumed

LEMMA WholeWrites ==
  ASSUME TypeIInv, AloneInv, WholeInv, mishaps = {}, NEW l \in Lanes,
         Check(l) \/ Succeed(l) \/ Fail(l) \/ BatchDone(l)
  PROVE  WholeInv'
<1>1. /\ pending' = pending
      /\ lane[l].at \in {"checking", "executing", "running"}
  BY CheckDoes, SucceedDoes, FailDoes, BatchDoneDoes
<1>2. lane[l].at \in Busied /\ lane[l].at # "idle"
  BY <1>1 DEF Busied, Holding
<1>3. Fine(lane[l].at, lane[l].calls, pending, history, Used)
  BY <1>2 DEF WholeInv, Live
<1>4. /\ Whole(history, pending \cup lane[l].calls, Used) /\ lane[l].calls # {}
      /\ Partners(history, lane[l].calls) # {}
      /\ \A c \in pending : Partners(history, {c}) # {}
  BY <1>2, <1>3, FineBusied
<1>5. history \in Seq(Turns) /\ history # <<>> /\ lane[l].conv \in Conversations
  <2>1. history \in Seq(Turns) /\ lane[l].conv \in Conversations
    BY TypesNow, LaneIsRecord DEF Records
  <2> QED
    BY <1>4, <2>1, PartnersAreThere
<1>6. Used \subseteq Used'
  <2>1. CASE Check(l)
    BY <2>1, CheckDoes, CardsStay, UsedStays DEF Cards
  <2>2. CASE Succeed(l) \/ Fail(l)
    BY <2>2, SucceedDoes, FailDoes, CardsStay, UsedStays DEF Cards
  <2>3. CASE BatchDone(l)
    BY <2>3, BatchDoneDoes DEF Used
  <2> QED
    BY <2>1, <2>2, <2>3
<1>7. ASSUME NEW a \in {"executing", "running"}, NEW e, NEW v, To(l, a, e, v, lane[l].calls), history' = history
      PROVE  WholeInv'
  <2>1. a \in Busied /\ Busying(a, lane[l].calls) = lane[l].calls /\ a \notin Asks \cup {"reading", "vetting"}
    BY DEF Busying, Busied, Holding, Asks
  <2>2. Whole(history, pending \cup lane[l].calls, Used')
    BY <1>4, <1>6, WholeMore
  <2>3. Fine(a, lane[l].calls, pending, history, Used')
    BY <1>4, <2>1, <2>2 DEF Fine
  <2> QED
    BY <1>1, <1>2, <1>7, <2>3, WholeTo
<1>8. ASSUME Resumed(l), history' = Answer(history, lane[l].calls, lane[l].conv)
      PROVE  WholeInv'
  BY <1>1, <1>2, <1>4, <1>5, <1>6, <1>8, WholeResumed
<1>9. ASSUME Resumed(l), history' = Answer(Append(history, Turn("text", lane[l].conv)), lane[l].calls, lane[l].conv)
      PROVE  WholeInv'
  <2> DEFINE h == Append(history, Turn("text", lane[l].conv))
  <2>1. /\ h \in Seq(Turns) /\ Whole(h, pending \cup lane[l].calls, Used)
        /\ \A B : Partners(history, B) # {} => Partners(h, B) # {}
    BY <1>4, <1>5, WholeSays
  <2>2. history' = Answer(h, lane[l].calls, lane[l].conv)
    BY <1>9
  <2> HIDE DEF h
  <2>3. Partners(h, lane[l].calls) # {} /\ \A c \in pending : Partners(h, {c}) # {}
    BY <1>4, <2>1
  <2> QED
    BY <1>1, <1>2, <1>6, <1>9, <2>1, <2>2, <2>3, WholeResumed
<1>10. CASE Check(l)
  BY <1>7, <1>8, <1>10, CheckDoes
<1>11. CASE Succeed(l)
  BY <1>7, <1>8, <1>11, SucceedDoes
<1>12. CASE Fail(l) \/ BatchDone(l)
  BY <1>8, <1>9, <1>12, FailDoes, BatchDoneDoes
<1> QED
  BY <1>10, <1>11, <1>12

(* Nobody is at work before the step.                                      *)
LEMMA WholeStarts ==
  ASSUME Live = {}, NEW s \in Lanes, NEW a, NEW e, NEW v, NEW C, To(s, a, e, v, C),
         Fine(a, C, pending', history', Used'), a = "idle" => C = {}
  PROVE  WholeInv'
<1>1. \A m \in Lanes \ {s} : lane'[m].at = "idle"
  BY DEF To, Live
<1>2. lane'[s].at = a /\ lane'[s].calls = C
  BY DEF To
<1>3. \A m \in Live' : m = s
  BY <1>1 DEF Live
<1>4. \A m \in Live' : Fine(lane'[m].at, lane'[m].calls, pending', history', Used')
  BY <1>2, <1>3
<1>5. Live' = {} => Fine("idle", {}, pending', history', Used')
  BY <1>2 DEF Live
<1> QED
  BY <1>4, <1>5 DEF WholeInv

LEMMA WholeRests ==
  ASSUME Live = {}, lane' = lane, Whole(history', pending', Used'),
         \A c \in pending' : Partners(history', {c}) # {}
  PROVE  WholeInv'
<1>1. Fine("idle", {}, pending', history', Used')
  BY FineEnds
<1>2. Live' = {}
  BY DEF Live
<1> QED
  BY <1>1, <1>2 DEF WholeInv

LEMMA FineIdle ==
  ASSUME NEW p, NEW h, NEW D, Fine("idle", {}, p, h, D)
  PROVE  Whole(h, p, D) /\ \A c \in p : Partners(h, {c}) # {}
<1>1. Busying("idle", {}) = {} /\ p \cup {} = p
  BY DEF Busying
<1> QED
  BY <1>1 DEF Fine

LEMMA WholeClick ==
  ASSUME TypeIInv, WholeInv, NEW c \in Calls, Approve(c) \/ Reject(c)
  PROVE  WholeInv'
<1> SUFFICES ASSUME mishaps' = {} PROVE WholeInv'
  BY DEF WholeInv
<1>1. mishaps = {} /\ Live = {} /\ c \in pending /\ pending' = pending \ {c}
  BY ApproveDoes, RejectDoes DEF Crowded
<1>2. Fine("idle", {}, pending, history, Used)
  BY <1>1 DEF WholeInv
<1>3. Whole(history, pending, Used) /\ \A d \in pending : Partners(history, {d}) # {}
  BY <1>2, FineIdle
<1>4. history \in Seq(Turns) /\ conv \in Conversations
  BY TypesNow
<1>5. CASE Approve(c)
  <2>1. PICK s \in Lanes : To(s, "checking", epoch, conv, {c})
    BY <1>5, ApproveDoes
  <2>2. history' = history /\ Used' = Used
    BY <1>5, ApproveDoes DEF Used
  <2>3. "checking" \in Busied /\ Busying("checking", {c}) = {c} /\ "checking" \notin Asks \cup {"reading", "vetting"}
    BY DEF Busying, Busied, Holding, Asks
  <2>4. pending' \cup {c} = pending
    BY <1>1
  <2>5. Whole(history', pending' \cup {c}, Used') /\ {c} # {} /\ Partners(history', {c}) # {}
    BY <1>1, <1>3, <2>2, <2>4
  <2>6. \A d \in pending' : Partners(history', {d}) # {}
    BY <1>1, <1>3, <2>2
  <2>7. Fine("checking", {c}, pending', history', Used')
    BY <2>3, <2>5, <2>6 DEF Fine
  <2> QED
    BY <1>1, <2>1, <2>7, WholeStarts
<1>6. CASE Reject(c)
  <2>1. /\ history' = Answer(history, {c}, conv) /\ Shown({c}, "rejected")
        /\ \/ pending' = {} /\ \E s \in Lanes : LoopsOn(s, epoch, conv, {}, TRUE)
           \/ lane' = lane
    BY <1>6, RejectDoes
  <2>2. Used \subseteq Used'
    BY <2>1, CardsStay, UsedStays DEF Cards
  <2>3. Mends(history', history, {c}, pending, Used)
    BY <1>1, <1>3, <1>4, <2>1, WholeAnswer
  <2>4. Whole(history', pending', Used') /\ \A d \in pending' : Partners(history', {d}) # {}
    BY <1>1, <1>3, <2>2, <2>3, WholeMore DEF Mends
  <2>5. history' # <<>>
    BY <1>1, <1>3, <2>3, PartnersAreThere DEF Mends
  <2>6. CASE lane' = lane
    BY <1>1, <2>4, <2>6, WholeRests
  <2>7. ASSUME pending' = {}, NEW s \in Lanes, LoopsOn(s, epoch, conv, {}, TRUE)
        PROVE  WholeInv'
    <3>1. /\ Fine("idle", {}, pending', history', Used')
          /\ Fine("asking", {}, pending', history', Used')
      BY <2>4, <2>5, <2>7, FineEnds
    <3>2. To(s, "idle", 0, Idle.conv, {}) \/ To(s, "asking", epoch, conv, {})
      BY <2>7 DEF LoopsOn, Halts
    <3> QED
      BY <1>1, <3>1, <3>2, WholeStarts
  <2> QED
    BY <2>1, <2>6, <2>7
<1> QED
  BY <1>5, <1>6

LEMMA WholeSpeaks ==
  ASSUME TypeIInv, AloneInv, WholeInv, Send \/ Regenerate
  PROVE  WholeInv'
<1> SUFFICES ASSUME mishaps' = {} PROVE WholeInv'
  BY DEF WholeInv
<1>1. /\ busy = FALSE /\ pending = {} /\ pending' = {} /\ mishaps = {}
      /\ \/ UNCHANGED <<history, card>>
         \/ /\ UserTurns(history) # {} /\ history' = BeforeLastUser(history)
            /\ \E D : Shown(D, "gone")
  BY SpeaksDoes
<1>2. PICK s \in Lanes : To(s, "preamble", epoch, conv', {})
  BY SpeaksDoes
<1>3. Live = {}
  BY <1>1 DEF AloneInv
<1>4. Whole(history, {}, Used)
  BY <1>1, <1>3, FineIdle DEF WholeInv
<1>5. history \in Seq(Turns)
  BY TypesNow
<1>6. Used \subseteq Used'
  BY <1>1, CardsStay, UsedStays DEF Cards
<1>7. Whole(history', {}, Used')
  BY <1>1, <1>4, <1>5, <1>6, WholeBefore, WholeMore
<1>8. Busying("preamble", {}) = {} /\ {} \cup {} = {} /\ "preamble" \notin Busied
  BY DEF Busying, Busied, Holding
<1>9. Fine("preamble", {}, pending', history', Used')
  BY <1>1, <1>7, <1>8 DEF Fine
<1> QED
  BY <1>2, <1>3, <1>9, WholeStarts

LEMMA WholeOutside ==
  ASSUME TypeIInv, WholeInv,
         \/ Stop \/ Recover \/ Switch \/ Scope \/ (NewChat \/ SelectSession) \/ Restore
         \/ UNCHANGED vars
  PROVE  WholeInv'
<1> SUFFICES ASSUME mishaps' = {} PROVE WholeInv'
  BY DEF WholeInv
<1>1. ASSUME UNCHANGED <<history, pending, card, lane>>, mishaps = {}
      PROVE  WholeInv'
  BY <1>1 DEF WholeInv, Live, Used
<1>2. CASE Stop \/ UNCHANGED vars
  BY <1>1, <1>2, StopDoes DEF vars, talk, facts
<1>3. CASE Recover
  BY <1>3, RecoverDoes
<1>4. CASE Switch
  BY <1>1, <1>4, SwitchDoes DEF Overtaken
<1>5. CASE Scope \/ (NewChat \/ SelectSession)
  <2>1. lane' = lane /\ Live = {} /\ history' = <<>> /\ pending' = {}
    BY <1>5, ScopeDoes, ResetsDoes DEF Overtaken, Replaced
  <2> QED
    BY <2>1, WholeNothing, WholeRests
<1>6. CASE Restore
  <2>1. CASE UNCHANGED <<busy, history, card, done, scoped, conv, mishaps>>
    BY <1>1, <1>6, <2>1, RestoreDoes
  <2>2. CASE history' = <<Turn("system", conv')>> /\ Replaced(Live \cup pending)
    <3>1. Live = {} /\ pending' = {} /\ lane' = lane
      BY <1>6, <2>2, RestoreDoes DEF Replaced
    <3> DEFINE t == Turn("system", conv')
    <3>2. t.kind = "system" /\ t.calls = {} /\ t.answered = {}
      BY DEF Turn
    <3> HIDE DEF t
    <3>3. Len(<<t>>) = 1 /\ <<t>>[1] = t /\ 1..1 = {1}
      OBVIOUS
    <3>4. Whole(<<t>>, {}, Used')
      BY <3>2, <3>3 DEF Whole
    <3>5. history' = <<t>>
      BY <2>2 DEF t
    <3> QED
      BY <3>1, <3>4, <3>5, WholeRests
  <2> QED
    BY <1>6, <2>1, <2>2, RestoreDoes
<1> QED
  BY <1>2, <1>3, <1>4, <1>5, <1>6

LEMMA WholeNext ==
  ASSUME TypeIInv, AloneInv, WholeInv, [Next]_vars
  PROVE  WholeInv'
<1>1. ASSUME NEW l \in Lanes,
             \/ Admit(l) \/ Quiet(l) \/ Text(l) \/ Call(l) \/ ReadDone(l) \/ Offer(l)
             \/ Check(l) \/ Succeed(l) \/ Fail(l) \/ BatchDone(l)
      PROVE  WholeInv'
  <2>1. CASE mishaps = {}
    BY <1>1, <2>1, WholeAdmit, WholeQuiet, WholeText, WholeCall, WholeReadDone, WholeOffer, WholeWrites
  <2>2. CASE mishaps # {}
    BY <1>1, <2>2, StepWorks DEF WholeInv
  <2> QED
    BY <2>1, <2>2
<1> QED
  BY <1>1, StepIsOne, WholeClick, WholeSpeaks, WholeOutside

LEMMA WholeInit ==
  ASSUME Init
  PROVE  WholeInv
<1>1. Live = {} /\ history = <<>> /\ pending = {}
  BY IdleIsRecord DEF Init, Live
<1>2. Fine("idle", {}, pending, history, Used)
  BY <1>1, WholeNothing, FineEnds
<1> QED
  BY <1>1, <1>2 DEF WholeInv

(* A request has its instructions at the head and every call of it is      *)
(* answered in its place, as long as one lane is at work and nobody from   *)
(* outside meddles: a result is put behind the turn that made the call,    *)
(* wherever that is, and a lane asks only when no card waits               *)
(* (pushToolResultAfterPartner, completeFallback).                         *)
THEOREM RequestsArriveWhole == Spec => []RequestsAreWhole
<1>1. Spec => [](TypeIInv /\ AloneInv /\ WholeInv)
  BY TypeInit, AloneInit, WholeInit, TypeNext, AloneNext, WholeNext, PTL DEF Spec
<1>2. ASSUME TypeIInv, WholeInv
      PROVE  RequestsAreWhole
  <2> SUFFICES ASSUME mishaps = {}, NEW l \in Lanes, lane[l].at = "asking"
               PROVE  Acceptable(history)
    BY DEF RequestsAreWhole
  <2>1. Fine("asking", lane[l].calls, pending, history, Used) /\ "asking" \in Asks
    BY <1>2 DEF WholeInv, Live, Asks
  <2>2. Whole(history, {}, Used) /\ history # <<>>
    BY <2>1, FineAsks
  <2>3. history[1].kind = "system"
    BY <2>2 DEF Whole
  <2>4. ASSUME NEW i \in 1..Len(history)
        PROVE  history[i].kind # "stray" /\ history[i].answered = history[i].calls
    <3>1. /\ history[i].kind # "stray" /\ history[i].answered \subseteq history[i].calls
          /\ history[i].calls \ history[i].answered \subseteq {}
      BY <2>2 DEF Whole
    <3>2. history[i].calls \subseteq history[i].answered
      BY <3>1
    <3> QED
      BY <3>1, <3>2
  <2> QED
    BY <2>2, <2>3, <2>4 DEF Acceptable
<1> QED
  BY <1>1, <1>2, PTL
=============================================================================
