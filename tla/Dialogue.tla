------------------------------ MODULE Dialogue ------------------------------
(***************************************************************************)
(* What the assistant's engine keeps of a conversation and sends with      *)
(* every request.  A provider wants each tool call answered, and the       *)
(* answers directly behind the turn that made the calls.                   *)
(*                                                                         *)
(* Answers that stand behind their turn are kept with it; an answer that   *)
(* stands anywhere else is a turn of its own, a stray.                     *)
(***************************************************************************)
EXTENDS Naturals, Sequences

(* A turn and the conversation it was made for. *)
Turn(kind, of) == [kind |-> kind, calls |-> {}, answered |-> {}, of |-> of]
CallsTurn(calls, of) == [Turn("calls", of) EXCEPT !.calls = calls]
Stray(calls, of) == [Turn("stray", of) EXCEPT !.calls = calls, !.answered = calls]

Kinds == {"system", "user", "text", "calls", "stray"}

Last(h) == h[Len(h)]

(* Results pushed at the end of the history. *)
AnswerAtTail(h, calls, of) ==
  IF calls = {} THEN h
  ELSE IF h # <<>> /\ Last(h).kind = "calls" /\ calls \subseteq Last(h).calls
  THEN [h EXCEPT ![Len(h)].answered = @ \cup calls]
  ELSE Append(h, Stray(calls, of))

Partners(h, calls) == {i \in 1..Len(h) : h[i].kind = "calls" /\ calls \subseteq h[i].calls}

\* Faulty: every result at the end, as it once was.
FaultyAnswer(h, calls, of) == AnswerAtTail(h, calls, of)

(* Results put behind the turn that made the calls, wherever that is; at   *)
(* the end when there is no such turn.                                     *)
Answer(h, calls, of) ==
  IF calls = {} \/ Partners(h, calls) = {} THEN AnswerAtTail(h, calls, of)
  ELSE [i \in 1..Len(h) |-> IF i \in Partners(h, calls)
                            THEN [h[i] EXCEPT !.answered = @ \cup calls] ELSE h[i]]

(* The instructions stand at the head; they are written anew for every     *)
(* message of the user.                                                    *)
WithSystem(h, of) ==
  IF h # <<>> /\ h[1].kind = "system" THEN [h EXCEPT ![1] = Turn("system", of)]
                                      ELSE <<Turn("system", of)>> \o h

UserTurns(h) == {i \in 1..Len(h) : h[i].kind = "user"}

(* The last turn of the user and what follows is dropped.                  *)
BeforeLastUser(h) ==
  IF UserTurns(h) = {} THEN h
  ELSE LET cut == CHOOSE i \in UserTurns(h) : \A j \in UserTurns(h) : j <= i
       IN SubSeq(h, 1, cut - 1)

(* A request that a provider accepts. *)
Acceptable(h) ==
  /\ h # <<>> /\ h[1].kind = "system"
  /\ \A i \in 1..Len(h) : h[i].kind # "stray" /\ h[i].answered = h[i].calls
=============================================================================
