---------------------------- MODULE DesktopProofs ----------------------------
(***************************************************************************)
(* For any number of calls, servers and connections: a statement stays     *)
(* with the database its session was opened on, and nothing is kept twice. *)
(***************************************************************************)
EXTENDS Desktop, TLAPS, FiniteSetTheorems, SequenceTheorems

(* Every session was made on the pool there is.                            *)
SessionsHere == \A s \in sessions : s.on = Points

(* What is sent, is sent through a pool; a statement that may yet be kept, *)
(* through one of the database its session was made on.                    *)
SentThere ==
  \A j \in Jobs :
    /\ call[j].at = "sent" => call[j].on \in 1..Pool
    /\ call[j].at = "healing" => call[j].kind \in Statements
    /\ call[j].kind = "statement" /\ call[j].at \in {"sent", "healing"} =>
         call[j].on \in 1..Pool /\ pools[call[j].on].of = call[j].as.on

(* What is kept was the last thing its call did.                           *)
KeptAtTheEnd ==
  \A w \in kept : /\ call[w.job].at = "told" /\ call[w.job].kind \in Statements
                  /\ call[w.job].told \notin {"drift", "denied"}

KeptOnce == \A v, w \in kept : v.job = w.job => v = w

OkIsKept ==
  \A j \in Jobs : call[j].told = "ok" /\ call[j].kind \in Statements => \E w \in kept : w.job = j

TellsAtTheEnd == \A j \in Jobs : call[j].told # "none" => call[j].at = "told"

IInv ==
  /\ TypeOK /\ pools # <<>>
  /\ SessionsHere /\ SentThere /\ TellsAtTheEnd
  /\ KeptAtTheEnd /\ KeptOnce /\ OkIsKept /\ StatementsStay

-----------------------------------------------------------------------------
(* The vault and the records of calls. *)

LEMMA EmptyVault == Empty \in Vaults
<1>1. Empty.at \in [{} -> Servers]
  BY DEF Empty
<1>2. {} \in SUBSET Conns
  OBVIOUS
<1>3. Empty.at \in UNION {[C -> Servers] : C \in SUBSET Conns}
  BY <1>1, <1>2
<1> QED
  BY <1>3 DEF Empty, Vaults

LEMMA VaultDomain ==
  ASSUME NEW v \in Vaults
  PROVE  DOMAIN v.at \subseteq Conns /\ v.at \in [DOMAIN v.at -> Servers]
BY DEF Vaults

LEMMA VaultFrom ==
  ASSUME NEW C \in SUBSET Conns, NEW f \in [C -> Servers], NEW a \in Conns \cup {NoConn}
  PROVE  [at |-> f, active |-> a] \in Vaults
BY DEF Vaults

LEMMA ActivatedIsVault ==
  ASSUME NEW v \in Vaults, NEW c \in Conns \cup {NoConn}
  PROVE  Activated(v, c) \in Vaults
BY DEF Activated, Vaults

LEMMA WithoutIsVault ==
  ASSUME NEW v \in Vaults, NEW c
  PROVE  Without(v, c) \in Vaults
<1>1. [d \in DOMAIN v.at \ {c} |-> v.at[d]] \in [DOMAIN v.at \ {c} -> Servers]
  BY VaultDomain
<1>2. DOMAIN v.at \ {c} \in SUBSET Conns
  BY VaultDomain
<1>3. (IF v.active = c THEN NoConn ELSE v.active) \in Conns \cup {NoConn}
  BY DEF Vaults
<1> QED
  BY <1>1, <1>2, <1>3, VaultFrom DEF Without

LEMMA WithIsVault ==
  ASSUME NEW v \in Vaults, NEW c \in Conns, NEW server \in Servers
  PROVE  With(v, c, server) \in Vaults
<1> DEFINE C == DOMAIN v.at \cup {c}
           f == [d \in C |-> IF d = c THEN server ELSE v.at[d]]
<1>1. C \in SUBSET Conns /\ f \in [C -> Servers]
  BY VaultDomain
<1>2. v.active \in Conns \cup {NoConn}
  BY DEF Vaults
<1>3. With(v, c, server) = [at |-> f, active |-> v.active]
  BY DEF With, Vaults
<1> QED
  BY <1>1, <1>2, <1>3, VaultFrom

LEMMA TargetIsServer ==
  ASSUME NEW v \in Vaults
  PROVE  Target(v) \in Servers
BY VaultDomain, PoolsAssumption DEF Target

LEMMA IdleIsActivation == Idle \in Activations
BY EmptyVault, PoolsAssumption DEF Idle, Activations, Nobody, Sessions

LEMMA RestIsActivation ==
  ASSUME NEW a \in Activations
  PROVE  [a EXCEPT !.at = "told", !.try = 1] \in Activations
<1> PICK tries : tries = 1..3
  OBVIOUS
<1>1. 1 \in tries
  OBVIOUS
<1>2. [a EXCEPT !.at = "told", !.try = 1] \in Activations
  BY <1>1 DEF Activations
<1> QED
  BY <1>2

LEMMA ToldIsActivation ==
  ASSUME NEW a \in Activations, NEW what \in {"ok", "failed", "drift", "denied", "gone"}
  PROVE  /\ Told(a, what) \in Activations
         /\ Told(a, what).at = "told" /\ Told(a, what).told = what
         /\ a.kind \in Statements => Told(a, what).kind = a.kind /\ Told(a, what).as = a.as
         /\ a.kind \notin Statements => Told(a, what).kind = "none"
<1>1. CASE a.kind \in Statements
  <2>1. Told(a, what) = [a EXCEPT !.at = "told", !.told = what, !.try = 1]
    BY <1>1 DEF Told
  <2> PICK r : r = [a EXCEPT !.at = "told", !.told = what, !.try = 1]
    OBVIOUS
  <2>2. r \in Activations
    <3>1. PICK q \in Activations : q = [a EXCEPT !.at = "told", !.try = 1]
      BY RestIsActivation
    <3>2. [q EXCEPT !.told = what] \in Activations
      BY DEF Activations
    <3>3. r = [q EXCEPT !.told = what]
      BY <3>1 DEF Activations
    <3> QED
      BY <3>2, <3>3
  <2>3. r.at = "told" /\ r.told = what /\ r.kind = a.kind /\ r.as = a.as
    BY DEF Activations
  <2> QED
    BY <1>1, <2>1, <2>2, <2>3
<1>2. CASE a.kind \notin Statements
  <2>1. Told(a, what) = [Idle EXCEPT !.at = "told", !.told = what]
    BY <1>2 DEF Told
  <2>2. Idle \in Activations /\ Idle.kind = "none"
    BY IdleIsActivation DEF Idle
  <2> QED
    BY <1>2, <2>1, <2>2 DEF Activations
<1> QED
  BY <1>1, <1>2

LEMMA SentIsActivation ==
  ASSUME NEW a \in Activations, NEW n \in Nat
  PROVE  Sent(a, n) \in Activations
<1>1. CASE pools[n].ended
  <2>1. Sent(a, n) = Told(a, "failed")
    BY <1>1 DEF Sent
  <2> QED
    BY <2>1, ToldIsActivation
<1>2. CASE ~pools[n].ended
  <2>1. Sent(a, n) = [a EXCEPT !.at = "sent", !.on = n]
    BY <1>2 DEF Sent
  <2>2. [a EXCEPT !.at = "sent", !.on = n] \in Activations
    BY DEF Activations
  <2> QED
    BY <2>1, <2>2
<1> QED
  BY <1>1, <1>2

PoolRecords == [of : Servers, ended : BOOLEAN]

LEMMA ThePool ==
  ASSUME PoolsTypeOK, pools # <<>>
  PROVE  /\ Pool \in Nat \ {0} /\ Pool \in 1..Len(pools)
         /\ \A n \in 1..Pool : pools[n] \in PoolRecords
<1>1. pools \in Seq(PoolRecords)
  BY DEF PoolsTypeOK, PoolRecords
<1>2. Len(pools) \in Nat \ {0} /\ \A n \in 1..Len(pools) : pools[n] \in PoolRecords
  BY <1>1, EmptySeq, LenProperties, ElementOfSeq
<1> QED
  BY <1>2 DEF Pool

LEMMA EndingIsActivation ==
  ASSUME NEW a \in Activations, PoolsTypeOK, pools # <<>>
  PROVE  /\ Ending(a) \in Activations
         /\ Ending(a).at = "ending" /\ Ending(a).kind = a.kind /\ Ending(a).told = a.told
<1>1. Pool \in Nat
  BY ThePool
<1>2. (~pools[Pool].ended) \in BOOLEAN
  BY Zenon
<1>3. \A b \in BOOLEAN :
        LET e == [a EXCEPT !.at = "ending", !.on = Pool, !.first = b]
        IN e \in Activations /\ e.at = "ending" /\ e.kind = a.kind /\ e.told = a.told
  BY <1>1 DEF Activations
<1> QED
  BY <1>2, <1>3, Zenon DEF Ending

-----------------------------------------------------------------------------
(* The pools. *)

(* No pool is forgotten, and none changes its target.                      *)
Grows ==
  /\ pools' \in Seq(PoolRecords) /\ pools' # <<>>
  /\ Pool \in 1..Pool' /\ \A n \in 1..Pool : pools'[n].of = pools[n].of

LEMMA PoolsStay ==
  ASSUME PoolsTypeOK, pools # <<>>, UNCHANGED pools
  PROVE  Grows /\ Pool' = Pool /\ Points' = Points
<1>1. pools' \in Seq(PoolRecords) /\ Pool' = Pool /\ Points' = Points
  BY DEF PoolsTypeOK, PoolRecords, Pool, Points
<1> QED
  BY <1>1, ThePool DEF Grows

LEMMA EndsGrows ==
  ASSUME PoolsTypeOK, pools # <<>>, Ends(Pool)
  PROVE  Grows /\ Pool' = Pool /\ Points' = Points
<1>1. /\ pools \in Seq(PoolRecords) /\ Pool = Len(pools) /\ Pool \in 1..Len(pools)
      /\ \A n \in 1..Pool : pools[n] \in PoolRecords
  BY ThePool DEF PoolsTypeOK, PoolRecords, Pool
<1> DEFINE r == [pools[Pool] EXCEPT !.ended = TRUE]
<1>2. r \in PoolRecords /\ r.of = pools[Pool].of
  BY <1>1 DEF PoolRecords
<1>3. pools' = [pools EXCEPT ![Pool] = r]
  BY DEF Ends
<1> HIDE DEF r
<1>4. /\ pools' \in Seq(PoolRecords) /\ Len(pools') = Len(pools)
      /\ \A n \in 1..Len(pools) : pools'[n] = IF n = Pool THEN r ELSE pools[n]
  BY <1>1, <1>2, <1>3, ExceptSeq
<1>5. \A n \in 1..Pool : pools'[n].of = pools[n].of
  BY <1>1, <1>2, <1>4
<1>6. Pool' = Pool /\ Pool \in Nat \ {0}
  BY <1>4, ThePool DEF Pool
<1>7. Points' = Points
  BY <1>5, <1>6 DEF Points
<1>8. pools' # <<>>
  BY <1>4, <1>6, <1>1
<1> QED
  BY <1>4, <1>5, <1>6, <1>7, <1>8 DEF Grows

LEMMA BuildsGrows ==
  ASSUME PoolsTypeOK, pools # <<>>, NEW server \in Servers, Builds(server)
  PROVE  Grows /\ sessions' = {}
<1>1. /\ pools \in Seq(PoolRecords) /\ Pool = Len(pools) /\ Pool \in Nat \ {0}
  BY ThePool DEF PoolsTypeOK, PoolRecords, Pool
<1> DEFINE r == [of |-> server, ended |-> FALSE]
<1>2. r \in PoolRecords /\ pools' = Append(pools, r) /\ sessions' = {}
  BY DEF PoolRecords, Builds
<1> HIDE DEF r
<1>3. /\ pools' \in Seq(PoolRecords) /\ pools' # <<>> /\ Len(pools') = Len(pools) + 1
      /\ \A n \in 1..Len(pools) : pools'[n] = pools[n]
  BY <1>1, <1>2, AppendProperties
<1>4. Pool' = Pool + 1
  BY <1>1, <1>3 DEF Pool
<1> QED
  BY <1>1, <1>2, <1>3, <1>4 DEF Grows

-----------------------------------------------------------------------------
(* One call takes a step. *)

(* The rest of the state is typed, and its sessions are the pool's.        *)
Around ==
  /\ vault \in Vaults /\ sessions \subseteq Sessions /\ apart \in BOOLEAN
  /\ memo \in [state : {"none", "loading", "running", "done"}, of : Servers]
  /\ drifted \subseteq Servers /\ restarts \in 0..MaxRestarts
  /\ SessionsHere

(* What a call may become, if nothing is kept in the step.                 *)
Sound(a) ==
  /\ a.at = "sent" => a.on \in 1..Pool
  /\ a.at = "healing" => a.kind \in Statements
  /\ a.kind = "statement" /\ a.at \in {"sent", "healing"} =>
       a.on \in 1..Pool /\ pools[a.on].of = a.as.on
  /\ a.told # "none" => a.at = "told"

(* The statement of j is answered, and may be kept in the step.            *)
Closing(j, a) ==
  /\ call[j].at = "sent" /\ call[j].kind \in Statements
  /\ a.at = "told" /\ a.kind = call[j].kind /\ a.as = call[j].as
  /\ \/ Keeps(j) /\ a.told \in {"ok", "failed"}
     \/ kept' = kept /\ a.told = "failed"

LEMMA OthersStay ==
  ASSUME IInv, NEW j \in Jobs, NEW a \in Activations, Becomes(j, a)
  PROVE  /\ call' \in [Jobs -> Activations] /\ call'[j] = a
         /\ \A i \in Jobs \ {j} : call'[i] = call[i]
BY DEF IInv, TypeOK, Becomes

LEMMA SoundStays ==
  ASSUME IInv, Grows, NEW i \in Jobs
  PROVE  /\ Sound(call[i])
         /\ call[i].at = "sent" => call[i].on \in 1..Pool'
         /\ call[i].kind = "statement" /\ call[i].at \in {"sent", "healing"} =>
              call[i].on \in 1..Pool' /\ pools'[call[i].on].of = call[i].as.on
<1>1. Sound(call[i])
  BY DEF IInv, SentThere, TellsAtTheEnd, Sound
<1>2. Pool \in Nat /\ Pool' \in Nat /\ Pool <= Pool' /\ \A n \in 1..Pool : pools'[n].of = pools[n].of
  BY ThePool, EmptySeq DEF IInv, TypeOK, Grows, Pool
<1> QED
  BY <1>1, <1>2 DEF Sound

LEMMA TurnIsTyped ==
  ASSUME IInv, NEW j \in Jobs, NEW a \in Activations, Becomes(j, a), Grows, Around',
         kept' \subseteq [job : Jobs, try : 1..3, at : Servers]
  PROVE  TypeOK' /\ pools' # <<>>
BY OthersStay DEF Grows, Around, TypeOK, PoolsTypeOK, PoolRecords

LEMMA TurnIsSound ==
  ASSUME IInv, NEW j \in Jobs, NEW a \in Activations, Becomes(j, a), Grows, Around', Sound(a)
  PROVE  SessionsHere' /\ SentThere' /\ TellsAtTheEnd'
<1>1. SessionsHere'
  BY DEF Around
<1>2. ASSUME NEW i \in Jobs
      PROVE  /\ call'[i].at = "sent" => call'[i].on \in 1..Pool'
             /\ call'[i].at = "healing" => call'[i].kind \in Statements
             /\ call'[i].kind = "statement" /\ call'[i].at \in {"sent", "healing"} =>
                  call'[i].on \in 1..Pool' /\ pools'[call'[i].on].of = call'[i].as.on
             /\ call'[i].told # "none" => call'[i].at = "told"
  <2>1. CASE i # j
    <3>1. call'[i] = call[i]
      BY <2>1, OthersStay
    <3> QED
      BY <3>1, SoundStays DEF Sound
  <2>2. CASE i = j
    <3>1. call'[i] = a
      BY <2>2, OthersStay
    <3>2. Pool \in Nat /\ Pool' \in Nat /\ Pool <= Pool' /\ \A n \in 1..Pool : pools'[n].of = pools[n].of
      BY ThePool, EmptySeq DEF IInv, TypeOK, Grows, Pool
    <3> QED
      BY <3>1, <3>2 DEF Sound
  <2> QED
    BY <2>1, <2>2
<1> QED
  BY <1>1, <1>2 DEF SentThere, TellsAtTheEnd

(* A step that keeps nothing, of a call that was not answered yet.         *)
LEMMA QuietTurn ==
  ASSUME IInv, NEW j \in Jobs, NEW a \in Activations, Becomes(j, a), Grows, Around', Sound(a),
         kept' = kept, call[j].at # "told", a.told = "ok" => a.kind \notin Statements
  PROVE  IInv'
<1>1. TypeOK' /\ pools' # <<>>
  BY TurnIsTyped DEF IInv, TypeOK
<1>2. SessionsHere' /\ SentThere' /\ TellsAtTheEnd'
  BY TurnIsSound
<1>3. \A w \in kept : w.job \in Jobs /\ w.job # j /\ call'[w.job] = call[w.job]
  <2>1. \A w \in kept : w.job \in Jobs /\ w.job # j
    BY DEF IInv, KeptAtTheEnd, TypeOK
  <2> QED
    BY <2>1, OthersStay
<1>4. KeptAtTheEnd' /\ KeptOnce' /\ StatementsStay'
  BY <1>3 DEF IInv, KeptAtTheEnd, KeptOnce, StatementsStay
<1>5. OkIsKept'
  <2>1. \A i \in Jobs \ {j} : call'[i] = call[i]
    BY OthersStay
  <2>2. call'[j] = a
    BY OthersStay
  <2> QED
    BY <2>1, <2>2 DEF IInv, OkIsKept
<1> QED
  BY <1>1, <1>2, <1>4, <1>5 DEF IInv

(* The last step of a statement, which may keep it.                        *)
LEMMA ClosingTurn ==
  ASSUME IInv, NEW j \in Jobs, NEW a \in Activations, Becomes(j, a), Grows, Around', Closing(j, a)
  PROVE  IInv'
<1>1. Sound(a)
  BY DEF Closing, Sound
<1>2. \A w \in kept : w.job \in Jobs /\ w.job # j /\ call'[w.job] = call[w.job]
  <2>1. \A w \in kept : w.job \in Jobs /\ w.job # j
    BY DEF IInv, KeptAtTheEnd, TypeOK, Closing
  <2> QED
    BY <2>1, OthersStay
<1>3. call'[j] = a /\ \A i \in Jobs \ {j} : call'[i] = call[i]
  BY OthersStay
<1> DEFINE new == [job |-> j, try |-> call[j].try, at |-> pools[call[j].on].of]
<1>4. call[j] \in Activations /\ Sound(call[j])
  BY SoundStays DEF IInv, TypeOK
<1>5. new \in [job : Jobs, try : 1..3, at : Servers]
  <2>1. pools[call[j].on] \in PoolRecords
    BY <1>4, ThePool DEF Closing, Sound, IInv, TypeOK
  <2> QED
    BY <1>4, <2>1 DEF Activations, PoolRecords
<1>6. kept' = kept \cup {new} \/ kept' = kept
  BY DEF Closing, Keeps
<1>7. TypeOK' /\ pools' # <<>>
  <2>1. kept' \subseteq [job : Jobs, try : 1..3, at : Servers]
    BY <1>5, <1>6 DEF IInv, TypeOK
  <2> QED
    BY <2>1, TurnIsTyped
<1>8. SessionsHere' /\ SentThere' /\ TellsAtTheEnd'
  BY <1>1, TurnIsSound
<1>9. KeptAtTheEnd'
  BY <1>2, <1>3, <1>6 DEF IInv, KeptAtTheEnd, Closing
<1>10. KeptOnce'
  BY <1>2, <1>6 DEF IInv, KeptOnce
<1>11. StatementsStay'
  <2>1. call[j].kind = "statement" => new.at = a.as.on
    BY <1>4 DEF Sound, Closing
  <2> QED
    BY <1>2, <1>3, <1>6, <2>1 DEF IInv, StatementsStay, Closing
<1>12. OkIsKept'
  <2> SUFFICES ASSUME NEW i \in Jobs, call'[i].told = "ok", call'[i].kind \in Statements
               PROVE  \E w \in kept' : w.job = i
    BY DEF OkIsKept
  <2>1. CASE i = j
    <3>1. Keeps(j)
      BY <1>3, <2>1 DEF Closing
    <3>2. new \in kept' /\ new.job = j
      BY <3>1 DEF Keeps
    <3> HIDE DEF new
    <3> QED
      BY <2>1, <3>2
  <2>2. CASE i # j
    <3>1. PICK w \in kept : w.job = i
      BY <1>3, <2>2 DEF IInv, OkIsKept
    <3>2. w \in kept'
      BY <1>6
    <3> QED
      BY <3>1, <3>2
  <2> QED
    BY <2>1, <2>2
<1> QED
  BY <1>7, <1>8, <1>9, <1>10, <1>11, <1>12 DEF IInv

-----------------------------------------------------------------------------
(* The steps of Next. *)

LEMMA SentShape ==
  ASSUME IInv, NEW a \in Activations, NEW n \in 1..Pool, a.told = "none",
         a.kind = "statement" => pools[n].of = a.as.on
  PROVE  Sent(a, n) \in Activations /\ Sound(Sent(a, n)) /\ Sent(a, n).told # "ok"
<1>1. Sent(a, n) \in Activations
  BY SentIsActivation, ThePool DEF IInv, TypeOK
<1>2. CASE pools[n].ended
  <2>1. Sent(a, n) = Told(a, "failed")
    BY <1>2 DEF Sent
  <2>2. Told(a, "failed").at = "told" /\ Told(a, "failed").told = "failed"
    BY ToldIsActivation
  <2> QED
    BY <1>1, <2>1, <2>2 DEF Sound
<1>3. CASE ~pools[n].ended
  <2>1. Sent(a, n) = [a EXCEPT !.at = "sent", !.on = n]
    BY <1>3 DEF Sent
  <2> DEFINE c == [a EXCEPT !.at = "sent", !.on = n]
  <2>2. c.on = n /\ c.kind = a.kind /\ c.as = a.as /\ c.told = "none"
    BY DEF Activations
  <2> HIDE DEF c
  <2> QED
    BY <1>1, <2>1, <2>2 DEF Sound
<1> QED
  BY <1>2, <1>3

LEMMA AroundKept ==
  ASSUME IInv, Points' = Points, sessions' \subseteq sessions,
         vault' \in Vaults, apart' \in BOOLEAN, restarts' = restarts, drifted' \subseteq Servers,
         memo' \in [state : {"none", "loading", "running", "done"}, of : Servers]
  PROVE  Around'
BY DEF IInv, TypeOK, PoolsTypeOK, Around, SessionsHere

LEMMA AroundBuilt ==
  ASSUME IInv, sessions' = {},
         vault' \in Vaults, apart' \in BOOLEAN, restarts' \in 0..MaxRestarts, drifted' \subseteq Servers,
         memo' \in [state : {"none", "loading", "running", "done"}, of : Servers]
  PROVE  Around'
BY DEF Around, SessionsHere

LEMMA TargetStays ==
  ASSUME IInv, UNCHANGED target, restarts' = restarts, drifted' \subseteq Servers,
         memo' \in [state : {"none", "loading", "running", "done"}, of : Servers]
  PROVE  Grows /\ Around' /\ Pool' = Pool
<1>1. Grows /\ Points' = Points /\ Pool' = Pool
  BY PoolsStay DEF IInv, TypeOK, target
<1>2. Around'
  BY <1>1, AroundKept DEF IInv, TypeOK, PoolsTypeOK, target
<1> QED
  BY <1>1, <1>2

(* The shape most steps have: nothing but call[j] and kept change.         *)
LEMMA OnlyTurn ==
  ASSUME IInv, NEW j \in Jobs, NEW a \in Activations, Becomes(j, a), Sound(a),
         UNCHANGED <<target, memo, drifted, kept, restarts>>,
         call[j].at # "told", a.told = "ok" => a.kind \notin Statements
  PROVE  IInv'
BY TargetStays, QuietTurn DEF IInv, TypeOK

LEMMA FreshCall ==
  ASSUME IInv, NEW j \in Jobs
  PROVE  /\ call[j] \in Activations
         /\ call[j].at # "told" => call[j].told = "none"
         /\ Pool \in 1..Pool
BY ThePool DEF IInv, TypeOK, TellsAtTheEnd, Pool

LEMMA StartStatementStep ==
  ASSUME IInv, NEW j \in Jobs, NEW kind \in Statements, NEW s \in sessions, StartStatement(j, kind, s)
  PROVE  IInv'
<1> DEFINE a == [Idle EXCEPT !.kind = kind, !.as = s]
<1>1. a \in Activations /\ a.told = "none" /\ a.as = s /\ a.kind = kind
  BY IdleIsActivation DEF Activations, Idle, Statements, IInv, TypeOK, PoolsTypeOK
<1>2. pools[Pool].of = s.on
  BY DEF IInv, SessionsHere, Points
<1>3. Becomes(j, Sent(a, Pool)) /\ call[j].at = "new"
  BY DEF StartStatement, NextUp
<1> HIDE DEF a
<1>4. Sent(a, Pool) \in Activations /\ Sound(Sent(a, Pool)) /\ Sent(a, Pool).told # "ok"
  BY <1>1, <1>2, SentShape, FreshCall
<1> QED
  BY <1>3, <1>4, OnlyTurn DEF StartStatement

LEMMA TellsStep ==
  ASSUME IInv, NEW j \in Jobs, NEW what \in {"failed", "denied", "drift"}, Tells(j, what),
         call[j].at # "told", UNCHANGED <<target, memo, drifted, kept, restarts>>
  PROVE  IInv'
<1> DEFINE a == Told(call[j], what)
<1>1. a \in Activations /\ a.at = "told" /\ a.told = what
  BY ToldIsActivation, FreshCall
<1>2. Becomes(j, a)
  BY DEF Tells
<1> HIDE DEF a
<1>3. Sound(a)
  BY <1>1 DEF Sound
<1> QED
  BY <1>1, <1>2, <1>3, OnlyTurn

LEMMA AnsweredStep ==
  ASSUME IInv, NEW j \in Jobs, Answered(j) \/ Fails(j)
  PROVE  IInv'
<1>1. PICK what \in {"ok", "failed"} :
        /\ call[j].at = "sent" /\ call[j].kind \in Statements
        /\ Tells(j, what) /\ (Keeps(j) \/ (kept' = kept /\ what = "failed"))
        /\ UNCHANGED <<target, memo, drifted, restarts>>
  BY Zenon DEF Answered, Fails
<1> DEFINE a == Told(call[j], what)
<1>2. a \in Activations /\ a.at = "told" /\ a.told = what /\ a.kind = call[j].kind /\ a.as = call[j].as
  BY <1>1, ToldIsActivation, FreshCall
<1>3. Becomes(j, a)
  BY <1>1 DEF Tells
<1> HIDE DEF a
<1>4. Closing(j, a)
  BY <1>1, <1>2 DEF Closing
<1>5. Grows /\ Around'
  BY <1>1, TargetStays DEF IInv, TypeOK
<1> QED
  BY <1>2, <1>3, <1>4, <1>5, ClosingTurn

LEMMA MeetsDriftStep ==
  ASSUME IInv, NEW j \in Jobs, MeetsDrift(j)
  PROVE  IInv'
<1>1. CASE call[j].try = 1
  <2> DEFINE a == [call[j] EXCEPT !.at = "healing"]
  <2>1. /\ a \in Activations /\ a.told = "none" /\ a.at = "healing"
        /\ a.kind = call[j].kind /\ a.as = call[j].as /\ a.on = call[j].on
    BY FreshCall DEF MeetsDrift, Activations
  <2>2. /\ Becomes(j, a) /\ call[j].at = "sent" /\ call[j].kind \in Statements
        /\ UNCHANGED <<target, drifted, kept, restarts>>
    BY <1>1 DEF MeetsDrift
  <2> HIDE DEF a
  <2>3. Sound(a)
    BY <2>1, <2>2, FreshCall DEF Sound, IInv, SentThere
  <2>4. memo' \in [state : {"none", "loading", "running", "done"}, of : Servers]
    BY <1>1, PoolsAssumption DEF MeetsDrift, NoMemo, IInv, TypeOK
  <2>5. Grows /\ Around'
    BY <2>2, <2>4, TargetStays DEF IInv, TypeOK
  <2> QED
    BY <2>1, <2>2, <2>3, <2>5, QuietTurn
<1>2. CASE call[j].try # 1
  <2>1. Tells(j, "drift") /\ UNCHANGED <<target, memo, drifted, kept, restarts>> /\ call[j].at = "sent"
    BY <1>2 DEF MeetsDrift
  <2> QED
    BY <2>1, TellsStep
<1> QED
  BY <1>1, <1>2

LEMMA RetriesStep ==
  ASSUME IInv, NEW j \in Jobs, Retries(j)
  PROVE  IInv'
<1> DEFINE a == [call[j] EXCEPT !.try = 2]
           n == IF a.kind = "batch" THEN Pool ELSE a.on
<1>1. /\ a \in Activations /\ a.told = "none"
      /\ a.kind = call[j].kind /\ a.as = call[j].as /\ a.on = call[j].on
  BY FreshCall DEF Retries, Activations
<1>2. Becomes(j, Sent(a, n)) /\ call[j].at = "healing"
  BY DEF Retries
<1> HIDE DEF a
<1>3. n \in 1..Pool /\ (a.kind = "statement" => pools[n].of = a.as.on)
  BY <1>1, <1>2, FreshCall DEF IInv, SentThere, Statements
<1> HIDE DEF n
<1>4. Sent(a, n) \in Activations /\ Sound(Sent(a, n)) /\ Sent(a, n).told # "ok"
  BY <1>1, <1>3, SentShape
<1> QED
  BY <1>2, <1>4, OnlyTurn DEF Retries

LEMMA StartLoginStep ==
  ASSUME IInv, NEW j \in Jobs, StartLogin(j)
  PROVE  IInv'
<1> DEFINE a == [Idle EXCEPT !.kind = "login"]
<1>1. a \in Activations /\ a.told = "none" /\ a.kind = "login"
  BY IdleIsActivation DEF Activations, Idle
<1>2. Becomes(j, Sent(a, Pool)) /\ call[j].at = "new"
  BY DEF StartLogin, NextUp
<1> HIDE DEF a
<1>3. Sent(a, Pool) \in Activations /\ Sound(Sent(a, Pool)) /\ Sent(a, Pool).told # "ok"
  BY <1>1, SentShape, FreshCall
<1> QED
  BY <1>2, <1>3, OnlyTurn DEF StartLogin

LEMMA LoginReadStep ==
  ASSUME IInv, NEW j \in Jobs, LoginRead(j)
  PROVE  IInv'
<1> DEFINE user == IF call[j].try = 1 THEN [of |-> pools[call[j].on].of, on |-> Env] ELSE call[j].as
           a == [call[j] EXCEPT !.try = @ + 1, !.as = user]
<1>1. call[j].at = "sent" /\ call[j].kind = "login" /\ call[j].try \in {1, 2}
  BY FreshCall DEF LoginRead, Activations
<1>2. user \in Sessions
  <2>1. pools[call[j].on] \in PoolRecords
    BY <1>1, ThePool DEF IInv, TypeOK, SentThere
  <2> QED
    BY <2>1, FreshCall, PoolsAssumption DEF PoolRecords, Sessions, Activations
<1>3. Becomes(j, Sent(a, Pool))
  BY DEF LoginRead
<1> HIDE DEF user
<1>4. a \in Activations /\ a.told = "none" /\ a.kind = "login"
  <2>1. call[j].try + 1 \in 1..3 /\ call[j].told = "none"
    BY <1>1, FreshCall
  <2>2. \A t \in 1..3, u \in Sessions :
          LET e == [call[j] EXCEPT !.try = t, !.as = u]
          IN e \in Activations /\ e.told = call[j].told /\ e.kind = call[j].kind
    BY FreshCall DEF Activations
  <2> QED
    BY <1>1, <1>2, <2>1, <2>2, Zenon
<1> HIDE DEF a
<1>5. Sent(a, Pool) \in Activations /\ Sound(Sent(a, Pool)) /\ Sent(a, Pool).told # "ok"
  BY <1>4, SentShape, FreshCall
<1> QED
  BY <1>1, <1>3, <1>5, OnlyTurn DEF LoginRead

LEMMA LoginDoneStep ==
  ASSUME IInv, NEW j \in Jobs, LoginDone(j)
  PROVE  IInv'
<1> DEFINE a == Told(call[j], "ok")
           s == [call[j].as EXCEPT !.on = Points]
<1>1. a \in Activations /\ a.at = "told" /\ a.kind = "none"
  BY ToldIsActivation, FreshCall DEF LoginDone, Statements
<1>2. s \in Sessions /\ s.on = Points
  <2>1. pools[Pool] \in PoolRecords /\ call[j].as \in Sessions
    BY ThePool, FreshCall DEF IInv, TypeOK, Activations
  <2> QED
    BY <2>1 DEF PoolRecords, Points, Sessions
<1>3. Becomes(j, a) /\ call[j].at = "sent" /\ sessions' = sessions \cup {s}
  BY DEF LoginDone, Tells
<1> HIDE DEF a, s
<1>4. Grows /\ Points' = Points
  BY PoolsStay DEF LoginDone, IInv, TypeOK
<1>5. Around'
  BY <1>2, <1>3, <1>4 DEF LoginDone, IInv, TypeOK, PoolsTypeOK, Around, SessionsHere
<1>6. Sound(a) /\ a.kind \notin Statements
  BY <1>1 DEF Sound, Statements
<1> QED
  BY <1>1, <1>3, <1>4, <1>5, <1>6, QuietTurn DEF LoginDone

(* A command ends the pool and awaits that.                                *)
LEMMA EndingStep ==
  ASSUME IInv, NEW j \in Jobs, NEW a \in Activations, Becomes(j, a),
         a.at = "ending", a.told = "none", call[j].at # "told",
         Ends(Pool), vault' \in Vaults, UNCHANGED <<sessions, apart, memo, drifted, kept, restarts>>
  PROVE  IInv'
<1>1. Grows /\ Points' = Points
  BY EndsGrows DEF IInv, TypeOK
<1>2. Around'
  BY <1>1, AroundKept DEF IInv, TypeOK, PoolsTypeOK
<1>3. Sound(a)
  BY DEF Sound
<1> QED
  BY <1>1, <1>2, <1>3, QuietTurn

(* A command that is one synchronous step.                                 *)
LEMMA AtOnceStep ==
  ASSUME IInv, NEW j \in Jobs, NEW c \in Activations, c.kind \notin Statements, Becomes(j, Told(c, "ok")),
         call[j].at # "told", vault' \in Vaults, apart' \in BOOLEAN,
         UNCHANGED <<pools, sessions, memo, drifted, kept, restarts>>
  PROVE  IInv'
<1> DEFINE a == Told(c, "ok")
<1>1. a \in Activations /\ a.at = "told" /\ a.kind = "none"
  BY ToldIsActivation
<1> HIDE DEF a
<1>2. Sound(a) /\ a.kind \notin Statements
  BY <1>1 DEF Sound, Statements
<1>3. Grows /\ Points' = Points
  BY PoolsStay DEF IInv, TypeOK
<1>4. Around'
  BY <1>3, AroundKept DEF IInv, TypeOK
<1> QED
  BY <1>1, <1>2, <1>3, <1>4, QuietTurn DEF a

(* A new pool, when the old one has ended.                                 *)
LEMMA EndedStep ==
  ASSUME IInv, NEW j \in Jobs, NEW kind \in Commands, EndedFor(j, kind),
         NEW server \in Servers, Builds(server), vault' \in Vaults, apart' \in BOOLEAN
  PROVE  IInv'
<1> DEFINE a == Told(call[j], "ok")
<1>1. call[j].at = "ending" /\ call[j].kind \notin Statements
  BY DEF EndedFor, Commands, Statements
<1>2. a \in Activations /\ a.at = "told" /\ a.kind = "none"
  BY <1>1, ToldIsActivation, FreshCall
<1>3. Becomes(j, a)
  BY DEF EndedFor, Tells
<1> HIDE DEF a
<1>4. Sound(a) /\ a.kind \notin Statements
  BY <1>2 DEF Sound, Statements
<1>5. UNCHANGED <<memo, drifted, kept, restarts>>
  BY DEF EndedFor
<1>6. Grows /\ sessions' = {}
  BY BuildsGrows DEF IInv, TypeOK
<1>7. Around'
  BY <1>5, <1>6, AroundBuilt DEF IInv, TypeOK
<1> QED
  BY <1>1, <1>2, <1>3, <1>4, <1>5, <1>6, <1>7, QuietTurn

LEMMA IdleKind ==
  ASSUME NEW kind \in {"save", "login"} \cup Commands
  PROVE  LET a == [Idle EXCEPT !.kind = kind]
         IN a \in Activations /\ a.told = "none" /\ a.kind = kind /\ kind \notin Statements
BY IdleIsActivation DEF Activations, Idle, Commands, Statements

LEMMA VaultTyped ==
  ASSUME IInv
  PROVE  vault \in Vaults /\ apart \in BOOLEAN
BY DEF IInv, TypeOK, PoolsTypeOK

LEMMA SetActiveStep ==
  ASSUME IInv, NEW j \in Jobs, NEW c \in Conns \cup {NoConn}, SetActive(j, c)
  PROVE  IInv'
<1> DEFINE i == [Idle EXCEPT !.kind = "setActive"]
<1>1. i \in Activations /\ i.told = "none"
  BY IdleKind DEF Commands
<1> HIDE DEF i
<1>2. Ending(i) \in Activations /\ Ending(i).at = "ending" /\ Ending(i).told = "none"
  BY <1>1, EndingIsActivation DEF IInv, TypeOK
<1>3. vault' \in Vaults
  BY VaultTyped, ActivatedIsVault DEF SetActive
<1>4. /\ Becomes(j, Ending(i)) /\ call[j].at = "new" /\ Ends(Pool)
      /\ UNCHANGED <<sessions, apart, memo, drifted, kept, restarts>>
  BY DEF SetActive, NextUp, i
<1> QED
  BY <1>2, <1>3, <1>4, EndingStep

(* A command that will save the vault, or has to know it again.            *)
LEMMA SeenIsActivation ==
  ASSUME NEW a \in Activations, NEW v \in Vaults
  PROVE  LET e == [a EXCEPT !.seen = v]
         IN e \in Activations /\ e.at = a.at /\ e.told = a.told /\ e.kind = a.kind
BY DEF Activations

LEMMA EntriesAreConns ==
  ASSUME NEW v \in Vaults, NEW server \in Servers
  PROVE  EntriesFor(v, server) \subseteq Conns
BY VaultDomain DEF EntriesFor

LEMMA UpdateConfigStep ==
  ASSUME IInv, NEW j \in Jobs, NEW c \in Conns, NEW server \in Servers, UpdateConfig(j, c, server)
  PROVE  IInv'
<1> DEFINE i == [Idle EXCEPT !.kind = "update", !.to = server]
           a == [Ending(i) EXCEPT !.seen = vault']
<1>1. i \in Activations /\ i.told = "none"
  BY IdleIsActivation DEF Activations, Idle, Commands
<1>2. /\ Becomes(j, a) /\ call[j].at = "new" /\ Ends(Pool)
      /\ UNCHANGED <<sessions, apart, memo, drifted, kept, restarts>>
  BY DEF UpdateConfig, NextUp
<1> HIDE DEF i
<1>3. Ending(i) \in Activations /\ Ending(i).at = "ending" /\ Ending(i).told = "none"
  BY <1>1, EndingIsActivation DEF IInv, TypeOK
<1>4. vault' \in Vaults
  BY VaultTyped, WithIsVault, ActivatedIsVault DEF UpdateConfig
<1>5. a \in Activations /\ a.at = "ending" /\ a.told = "none"
  BY <1>3, <1>4, SeenIsActivation
<1> HIDE DEF a
<1> QED
  BY <1>2, <1>4, <1>5, EndingStep

LEMMA RemoveOtherStep ==
  ASSUME IInv, NEW j \in Jobs, NEW c \in Conns, RemoveOther(j, c)
  PROVE  IInv'
<1> DEFINE i == [Idle EXCEPT !.kind = "remove"]
<1>1. i \in Activations /\ i.kind \notin Statements
  BY IdleKind DEF Commands
<1>2. /\ Becomes(j, Told(i, "ok")) /\ call[j].at = "new"
      /\ UNCHANGED <<pools, sessions, apart, memo, drifted, kept, restarts>>
  BY DEF RemoveOther, NextUp
<1> HIDE DEF i
<1>3. vault' \in Vaults /\ apart' \in BOOLEAN
  BY <1>2, VaultTyped, WithoutIsVault DEF RemoveOther
<1> QED
  BY <1>1, <1>2, <1>3, AtOnceStep

LEMMA RemoveActiveStep ==
  ASSUME IInv, NEW j \in Jobs, RemoveActive(j)
  PROVE  IInv'
<1> DEFINE i == [Idle EXCEPT !.kind = "remove"]
           v == Without(vault, vault.active)
           a == [Ending(i) EXCEPT !.seen = v]
<1>1. i \in Activations /\ i.told = "none"
  BY IdleKind DEF Commands
<1>2. /\ Becomes(j, a) /\ call[j].at = "new" /\ Ends(Pool)
      /\ UNCHANGED <<vault, sessions, apart, memo, drifted, kept, restarts>>
  BY DEF RemoveActive, NextUp
<1> HIDE DEF i
<1>3. Ending(i) \in Activations /\ Ending(i).at = "ending" /\ Ending(i).told = "none"
  BY <1>1, EndingIsActivation DEF IInv, TypeOK
<1>4. v \in Vaults /\ vault' \in Vaults
  BY <1>2, VaultTyped, WithoutIsVault
<1> HIDE DEF v
<1>5. a \in Activations /\ a.at = "ending" /\ a.told = "none"
  BY <1>3, <1>4, SeenIsActivation
<1> HIDE DEF a
<1> QED
  BY <1>2, <1>4, <1>5, EndingStep

LEMMA SaveStep ==
  ASSUME IInv, NEW j \in Jobs, NEW c \in Conns, NEW server \in Servers, Save(j, c, server)
  PROVE  IInv'
<1> DEFINE i == [Idle EXCEPT !.kind = "save"]
<1>1. i \in Activations /\ i.kind \notin Statements
  BY IdleKind
<1>2. /\ Becomes(j, Told(i, "ok")) /\ call[j].at = "new"
      /\ UNCHANGED <<pools, sessions, memo, drifted, kept, restarts>>
  BY DEF Save, SaveConnection, NextUp
<1> HIDE DEF i
<1>3. vault' \in Vaults
  BY VaultTyped, WithIsVault DEF Save, SaveConnection
<1>4. apart' \in BOOLEAN
  BY Zenon DEF Save, SaveConnection
<1> QED
  BY <1>1, <1>2, <1>3, <1>4, AtOnceStep

LEMMA CommandEndsStep ==
  ASSUME IInv, NEW j \in Jobs, ActiveSet(j) \/ ConfigUpdated(j) \/ ActiveRemoved(j)
  PROVE  IInv'
<1>1. Target(vault) \in Servers /\ call[j] \in Activations
  BY VaultTyped, TargetIsServer, FreshCall
<1>2. CASE ActiveSet(j)
  BY <1>1, <1>2, VaultTyped, EndedStep DEF ActiveSet, CreatePool, Commands
<1>3. CASE ConfigUpdated(j)
  <2>1. apart' \in BOOLEAN
    BY <1>3, Zenon DEF ConfigUpdated
  <2>2. call[j].to \in Servers
    BY <1>1 DEF Activations
  <2> QED
    BY <1>3, <2>1, <2>2, VaultTyped, EndedStep DEF ConfigUpdated, Commands
<1>4. CASE ActiveRemoved(j)
  <2>1. apart' \in BOOLEAN
    BY <1>4, Zenon DEF ActiveRemoved
  <2>2. vault' \in Vaults
    BY <1>1, <1>4 DEF ActiveRemoved, Activations
  <2> QED
    BY <1>1, <1>4, <2>1, <2>2, EndedStep DEF ActiveRemoved, Commands
<1> QED
  BY <1>2, <1>3, <1>4

Copy(j) == [job |-> j, try |-> call[j].try, at |-> pools[call[j].on].of]

LEMMA CopyIsTyped ==
  ASSUME IInv, NEW j \in Jobs, call[j].at = "sent"
  PROVE  /\ Copy(j) \in [job : Jobs, try : 1..3, at : Servers] /\ Copy(j).job = j
         /\ call[j].kind = "statement" => Copy(j).at = call[j].as.on
<1>1. pools[call[j].on] \in PoolRecords
  BY ThePool DEF IInv, TypeOK, SentThere
<1>2. call[j].kind = "statement" => pools[call[j].on].of = call[j].as.on
  BY DEF IInv, SentThere
<1> QED
  BY <1>1, <1>2, FreshCall DEF Copy, PoolRecords, Activations

(* Several calls fail at once; those of K were applied nevertheless.       *)
LEMMA ManyTurn ==
  ASSUME IInv, Grows, Around', NEW what \in {"failed", "gone"},
         NEW S \in SUBSET Jobs, \A j \in S : call[j].at # "told",
         call' = [j \in Jobs |-> IF j \in S THEN Told(call[j], what) ELSE call[j]],
         NEW K \in SUBSET S, \A j \in K : call[j].at = "sent" /\ call[j].kind \in Statements,
         kept' = kept \cup {Copy(j) : j \in K}
  PROVE  IInv'
<1>1. ASSUME NEW j \in S
      PROVE  /\ call'[j] \in Activations /\ call'[j].at = "told" /\ call'[j].told = what
             /\ call[j].kind \in Statements => call'[j].kind = call[j].kind /\ call'[j].as = call[j].as
  <2>1. call'[j] = Told(call[j], what)
    OBVIOUS
  <2> QED
    BY <2>1, ToldIsActivation, FreshCall
<1>2. \A j \in Jobs \ S : call'[j] = call[j]
  OBVIOUS
<1>3. \A w \in kept : w.job \in Jobs \ S
  BY DEF IInv, KeptAtTheEnd, TypeOK
<1>4. ASSUME NEW w \in kept', w \notin kept
      PROVE  /\ w \in [job : Jobs, try : 1..3, at : Servers] /\ w.job \in K /\ w = Copy(w.job)
             /\ call[w.job].kind = "statement" => w.at = call[w.job].as.on
  <2>1. PICK j \in K : w = Copy(j)
    BY <1>4
  <2>2. j \in Jobs /\ call[j].at = "sent"
    BY <2>1
  <2> QED
    BY <2>1, <2>2, CopyIsTyped
<1>5. TypeOK' /\ pools' # <<>>
  <2>1. call' \in [Jobs -> Activations]
    <3>1. \A j \in Jobs : call'[j] \in Activations
      BY <1>1, <1>2, FreshCall
    <3> QED
      BY <3>1
  <2>2. kept' \subseteq [job : Jobs, try : 1..3, at : Servers]
    <3>1. kept \subseteq [job : Jobs, try : 1..3, at : Servers]
      BY DEF IInv, TypeOK
    <3> QED
      BY <3>1, <1>4
  <2> QED
    BY <2>1, <2>2 DEF Grows, Around, TypeOK, PoolsTypeOK, PoolRecords
<1>6. SessionsHere' /\ SentThere' /\ TellsAtTheEnd'
  <2>1. ASSUME NEW i \in Jobs
        PROVE  /\ call'[i].at = "sent" => call'[i].on \in 1..Pool'
               /\ call'[i].at = "healing" => call'[i].kind \in Statements
               /\ call'[i].kind = "statement" /\ call'[i].at \in {"sent", "healing"} =>
                    call'[i].on \in 1..Pool' /\ pools'[call'[i].on].of = call'[i].as.on
               /\ call'[i].told # "none" => call'[i].at = "told"
    <3>1. CASE i \in S
      BY <1>1, <3>1
    <3>2. CASE i \notin S
      BY <1>2, <3>2, SoundStays DEF Sound
    <3> QED
      BY <3>1, <3>2
  <2> QED
    BY <2>1 DEF Around, SentThere, TellsAtTheEnd
<1>7. KeptAtTheEnd'
  <2> SUFFICES ASSUME NEW w \in kept'
               PROVE  /\ call'[w.job].at = "told" /\ call'[w.job].kind \in Statements
                      /\ call'[w.job].told \notin {"drift", "denied"}
    BY DEF KeptAtTheEnd
  <2>1. CASE w \in kept
    BY <1>2, <1>3, <2>1 DEF IInv, KeptAtTheEnd
  <2>2. CASE w \notin kept
    BY <1>1, <1>4, <2>2
  <2> QED
    BY <2>1, <2>2
<1>8. KeptOnce'
  <2> SUFFICES ASSUME NEW v \in kept', NEW w \in kept', v.job = w.job
               PROVE  v = w
    BY DEF KeptOnce
  <2>1. CASE v \in kept /\ w \in kept
    BY <2>1 DEF IInv, KeptOnce
  <2>2. CASE v \notin kept /\ w \notin kept
    BY <1>4, <2>2
  <2>3. CASE v \in kept /\ w \notin kept
    BY <1>3, <1>4, <2>3
  <2>4. CASE v \notin kept /\ w \in kept
    BY <1>3, <1>4, <2>4
  <2> QED
    BY <2>1, <2>2, <2>3, <2>4
<1>9. OkIsKept'
  <2> SUFFICES ASSUME NEW i \in Jobs, call'[i].told = "ok", call'[i].kind \in Statements
               PROVE  \E w \in kept' : w.job = i
    BY DEF OkIsKept
  <2>1. i \notin S
    BY <1>1
  <2>2. PICK w \in kept : w.job = i
    BY <1>2, <2>1 DEF IInv, OkIsKept
  <2> QED
    BY <2>2
<1>10. StatementsStay'
  <2> SUFFICES ASSUME NEW w \in kept', call'[w.job].kind = "statement"
               PROVE  w.at = call'[w.job].as.on
    BY DEF StatementsStay
  <2>1. CASE w \in kept
    BY <1>2, <1>3, <2>1 DEF IInv, StatementsStay
  <2>2. CASE w \notin kept
    <3>1. /\ w.job \in S /\ call[w.job].kind \in Statements
          /\ call'[w.job].kind = call[w.job].kind /\ call'[w.job].as = call[w.job].as
      BY <1>1, <1>4, <2>2
    <3> QED
      BY <1>4, <2>2, <3>1
  <2> QED
    BY <2>1, <2>2
<1> QED
  BY <1>5, <1>6, <1>7, <1>8, <1>9, <1>10 DEF IInv

LEMMA SyncFailsStep ==
  ASSUME IInv, SyncFails
  PROVE  IInv'
<1> DEFINE S == {j \in Jobs : call[j].at = "healing"}
           K == {}
<1>1. memo' \in [state : {"none", "loading", "running", "done"}, of : Servers]
  BY PoolsAssumption DEF SyncFails, NoMemo
<1>2. Grows /\ Around'
  BY <1>1, TargetStays DEF SyncFails, IInv, TypeOK
<1>3. call' = [j \in Jobs |-> IF j \in S THEN Told(call[j], "failed") ELSE call[j]]
  BY DEF SyncFails
<1>4. kept' = kept \cup {Copy(j) : j \in K}
  BY DEF SyncFails
<1>5. S \in SUBSET Jobs /\ K \in SUBSET S /\ \A j \in S : call[j].at # "told"
  OBVIOUS
<1> HIDE DEF S
<1>6. \A j \in K : call[j].at = "sent" /\ call[j].kind \in Statements
  OBVIOUS
<1> HIDE DEF K
<1> QED
  BY <1>2, <1>3, <1>4, <1>5, <1>6, ManyTurn

LEMMA RestartStep ==
  ASSUME IInv, Restart
  PROVE  IInv'
<1> DEFINE S == {j \in Jobs : call[j].at \notin {"new", "told"}}
<1>1. PICK K \in SUBSET {j \in Jobs : call[j].at = "sent" /\ call[j].kind \in Statements} :
        kept' = kept \cup {Copy(j) : j \in K}
  BY DEF Restart, Copy
<1>2. Target(vault) \in Servers
  BY VaultTyped, TargetIsServer
<1>3. Grows /\ sessions' = {}
  BY <1>2, BuildsGrows DEF Restart, CreatePool, IInv, TypeOK
<1>4. Around'
  <2>1. restarts' \in 0..MaxRestarts
    BY CallsAssumption DEF Restart, IInv, TypeOK
  <2>2. memo' \in [state : {"none", "loading", "running", "done"}, of : Servers]
    BY PoolsAssumption DEF Restart, NoMemo
  <2> QED
    BY <1>3, <2>1, <2>2, VaultTyped, AroundBuilt DEF Restart, CreatePool, IInv, TypeOK
<1>5. call' = [j \in Jobs |-> IF j \in S THEN Told(call[j], "gone") ELSE call[j]]
  BY DEF Restart
<1>6. S \in SUBSET Jobs /\ K \in SUBSET S /\ \A j \in S : call[j].at # "told"
  OBVIOUS
<1> HIDE DEF S
<1> QED
  BY <1>1, <1>3, <1>4, <1>5, <1>6, ManyTurn

(* Nothing but what the calls point at changes.                            *)
LEMMA CallsRest ==
  ASSUME IInv, Grows, Around', UNCHANGED <<call, kept>>
  PROVE  IInv'
<1>1. TypeOK' /\ pools' # <<>>
  BY DEF IInv, TypeOK, PoolsTypeOK, Grows, Around, PoolRecords
<1>2. SentThere'
  BY SoundStays DEF Sound, SentThere
<1>3. SessionsHere' /\ TellsAtTheEnd' /\ KeptAtTheEnd' /\ KeptOnce' /\ OkIsKept' /\ StatementsStay'
  BY DEF Around, IInv, TellsAtTheEnd, KeptAtTheEnd, KeptOnce, OkIsKept, StatementsStay
<1> QED
  BY <1>1, <1>2, <1>3 DEF IInv

LEMMA SyncStep ==
  ASSUME IInv, SyncBegins \/ SyncSucceeds
  PROVE  IInv'
<1>1. memo' \in [state : {"none", "loading", "running", "done"}, of : Servers]
  <2>1. pools[Pool] \in PoolRecords
    BY ThePool DEF IInv, TypeOK
  <2> QED
    BY <2>1 DEF SyncBegins, SyncSucceeds, Points, PoolRecords, IInv, TypeOK
<1>2. UNCHANGED <<target, restarts, call, kept>> /\ drifted' \subseteq Servers
  BY DEF SyncBegins, SyncSucceeds, IInv, TypeOK
<1>3. Grows /\ Around'
  BY <1>1, <1>2, TargetStays
<1> QED
  BY <1>2, <1>3, CallsRest

LEMMA SessionEndsStep ==
  ASSUME IInv, SessionEnds, UNCHANGED desk
  PROVE  IInv'
<1>1. sessions' \subseteq sessions /\ UNCHANGED <<vault, pools, apart>>
  BY DEF SessionEnds
<1>2. Grows /\ Points' = Points
  BY <1>1, PoolsStay DEF IInv, TypeOK
<1>3. Around'
  BY <1>1, <1>2, AroundKept, VaultTyped DEF desk, IInv, TypeOK
<1> QED
  BY <1>2, <1>3, CallsRest DEF desk

LEMMA StutterStep ==
  ASSUME IInv, UNCHANGED vars
  PROVE  IInv'
<1>1. UNCHANGED target /\ UNCHANGED <<call, memo, drifted, kept, restarts>>
  BY DEF vars, desk
<1>2. Grows /\ Around'
  BY <1>1, TargetStays DEF IInv, TypeOK
<1> QED
  BY <1>1, <1>2, CallsRest

LEMMA InitIsSound == Init => IInv
<1> SUFFICES ASSUME Init
             PROVE  IInv
  OBVIOUS
<1> DEFINE r == [of |-> Target(vault), ended |-> FALSE]
<1>1. vault \in Vaults
  <2>1. [c \in {} |-> Env] = Empty.at
    BY DEF Empty
  <2>2. Empty.at \in UNION {[C -> Servers] : C \in SUBSET Conns}
    BY EmptyVault DEF Vaults
  <2>3. Conns \in SUBSET Conns
    OBVIOUS
  <2>4. [Conns -> Servers] \subseteq UNION {[C -> Servers] : C \in SUBSET Conns}
    BY <2>3
  <2> QED
    BY <2>1, <2>2, <2>4 DEF Init, PoolsInit, Vaults
<1>2. r \in PoolRecords /\ Target(vault) \in Servers /\ r.of = Target(vault)
  BY <1>1, TargetIsServer DEF PoolRecords
<1>3. pools = <<r>>
  BY DEF Init, PoolsInit
<1> HIDE DEF r
<1>4. pools \in Seq(PoolRecords) /\ pools # <<>> /\ Pool = 1 /\ Points = Target(vault)
  BY <1>2, <1>3 DEF Pool, Points
<1>5. sessions \subseteq Sessions /\ \A s \in sessions : s.on = Points
  BY <1>2, <1>4 DEF Init, PoolsInit, Sessions
<1>6. call = [j \in Jobs |-> Idle] /\ Idle \in Activations
  BY IdleIsActivation DEF Init
<1>7. TypeOK
  <2>1. memo \in [state : {"none", "loading", "running", "done"}, of : Servers]
    BY PoolsAssumption DEF Init, NoMemo
  <2>2. restarts \in 0..MaxRestarts
    BY CallsAssumption DEF Init
  <2>3. PoolsTypeOK
    BY <1>1, <1>4, <1>5 DEF PoolsTypeOK, PoolRecords, Init, PoolsInit
  <2> QED
    BY <1>6, <2>1, <2>2, <2>3 DEF TypeOK, Init
<1>8. \A j \in Jobs : call[j].at = "new" /\ call[j].told = "none" /\ call[j].kind = "none"
  BY <1>6 DEF Idle
<1>9. SentThere /\ TellsAtTheEnd /\ OkIsKept
  BY <1>8 DEF SentThere, TellsAtTheEnd, OkIsKept
<1>10. KeptAtTheEnd /\ KeptOnce /\ StatementsStay
  BY DEF Init, KeptAtTheEnd, KeptOnce, StatementsStay
<1> QED
  BY <1>4, <1>5, <1>7, <1>9, <1>10 DEF IInv, SessionsHere

LEMMA NextIsSound == IInv /\ [Next]_vars => IInv'
<1> SUFFICES ASSUME IInv, [Next]_vars
             PROVE  IInv'
  OBVIOUS
<1>1. ASSUME NEW j \in Jobs, Starts(j)
      PROVE  IInv'
  <2>1. CASE \E kind \in Statements, s \in sessions : StartStatement(j, kind, s)
    BY <2>1, StartStatementStep
  <2>2. CASE Denied(j)
    BY <2>2, TellsStep DEF Denied, NextUp
  <2>3. CASE StartLogin(j)
    BY <2>3, StartLoginStep
  <2>4. CASE \E c \in Conns \cup {NoConn} : SetActive(j, c)
    BY <2>4, SetActiveStep
  <2>5. CASE \E c \in Conns, server \in Servers : UpdateConfig(j, c, server) \/ Save(j, c, server)
    BY <2>5, UpdateConfigStep, SaveStep
  <2>6. CASE \E c \in Conns : RemoveOther(j, c)
    BY <2>6, RemoveOtherStep
  <2>7. CASE RemoveActive(j)
    BY <2>7, RemoveActiveStep
  <2> QED
    BY <1>1, <2>1, <2>2, <2>3, <2>4, <2>5, <2>6, <2>7 DEF Starts
<1>2. ASSUME NEW j \in Jobs, Proceeds(j)
      PROVE  IInv'
  <2>1. CASE Answered(j) \/ Fails(j)
    BY <2>1, AnsweredStep
  <2>2. CASE MeetsDrift(j)
    BY <2>2, MeetsDriftStep
  <2>3. CASE Retries(j)
    BY <2>3, RetriesStep
  <2>4. CASE LoginRead(j)
    BY <2>4, LoginReadStep
  <2>5. CASE LoginDone(j)
    BY <2>5, LoginDoneStep
  <2>6. CASE LoginFails(j)
    BY <2>6, TellsStep DEF LoginFails
  <2>7. CASE ActiveSet(j) \/ ConfigUpdated(j) \/ ActiveRemoved(j)
    BY <2>7, CommandEndsStep
  <2> QED
    BY <1>2, <2>1, <2>2, <2>3, <2>4, <2>5, <2>6, <2>7 DEF Proceeds
<1>3. CASE Syncs
  BY <1>3, SyncStep, SyncFailsStep DEF Syncs
<1>4. CASE Restart
  BY <1>4, RestartStep
<1>5. CASE SessionEnds /\ UNCHANGED desk
  BY <1>5, SessionEndsStep
<1>6. CASE UNCHANGED vars
  BY <1>6, StutterStep
<1> QED
  BY <1>1, <1>2, <1>3, <1>4, <1>5, <1>6 DEF Next

-----------------------------------------------------------------------------
(* The theorems. *)

(* Everything that happens in the main process keeps the types of Desktop, *)
(* for any number of calls, servers, connections and restarts.             *)
THEOREM DesktopTypeCorrect == Spec => []TypeOK
<1>1. IInv => TypeOK
  BY DEF IInv
<1> QED
  BY <1>1, InitIsSound, NextIsSound, PTL DEF Spec

(* A statement is kept by the database its session was opened on: a        *)
(* session is dropped with the pool it was made on, a statement is retried *)
(* on the pool it was given, and no pool changes its target.               *)
THEOREM StatementsStayHome == Spec => []StatementsStay
<1>1. IInv => StatementsStay
  BY DEF IInv
<1> QED
  BY <1>1, InitIsSound, NextIsSound, PTL DEF Spec

LEMMA KeptIsOnce == IInv => TransactionOnce
<1> SUFFICES ASSUME IInv, NEW j \in Jobs
             PROVE  LET copies == Cardinality({w \in kept : w.job = j})
                    IN /\ copies <= 1
                       /\ call[j].told = "ok" /\ call[j].kind \in Statements => copies = 1
                       /\ call[j].told \in {"drift", "denied"} => copies = 0
  BY DEF TransactionOnce
<1> DEFINE W == {w \in kept : w.job = j}
<1>1. CASE W = {}
  <2>1. Cardinality(W) = 0
    BY <1>1, FS_EmptySet
  <2>2. ~(call[j].told = "ok" /\ call[j].kind \in Statements)
    BY <1>1 DEF IInv, OkIsKept
  <2> QED
    BY <2>1, <2>2
<1>2. CASE W # {}
  <2>1. PICK w \in kept : w.job = j
    BY <1>2
  <2>2. W = {w}
    BY <2>1 DEF IInv, KeptOnce
  <2>3. Cardinality(W) = 1
    BY <2>2, FS_Singleton
  <2>4. call[j].told \notin {"drift", "denied"}
    BY <2>1 DEF IInv, KeptAtTheEnd
  <2> QED
    BY <2>3, <2>4
<1> QED
  BY <1>1, <1>2

(* A healed retry repeats nothing that was kept: a call keeps its write in *)
(* its last step only, and a try that meets the drift has kept nothing.    *)
THEOREM WritesAreKeptOnce == Spec => []TransactionOnce
<1> QED
  BY KeptIsOnce, InitIsSound, NextIsSound, PTL DEF Spec

-----------------------------------------------------------------------------
(* The pool and the vault. *)

(* What update-config has written names the server it will build for.      *)
SeenNames ==
  \A j \in Jobs : call[j].at = "ending" /\ call[j].kind = "update" => Target(call[j].seen) = call[j].to

VInv == IInv /\ SeenNames /\ PoolFollowsVault

(* No command starts or ends, and the vault goes on naming the server.     *)
StillNames ==
  /\ UNCHANGED pools
  /\ \A i \in Jobs : /\ call[i].at = "ending" <=> call'[i].at = "ending"
                     /\ call[i].at = "ending" => call'[i] = call[i]
  /\ ~apart' => ~apart /\ Target(vault') = Target(vault)

(* A command starts.                                                       *)
OneEnds ==
  \E j \in Jobs : /\ call'[j].at = "ending" /\ (call'[j].kind = "update" => Target(call'[j].seen) = call'[j].to)
                  /\ \A i \in Jobs \ {j} : call'[i] = call[i]

(* There is a new pool.                                                    *)
BuiltAnew ==
  /\ Pool' \in Nat /\ ~pools'[Pool'].ended /\ (apart' \/ Points' = Target(vault'))
  /\ \A i \in Jobs : call'[i].at = "ending" => call'[i] = call[i]

LEMMA NamesStay ==
  ASSUME VInv, StillNames \/ OneEnds \/ BuiltAnew
  PROVE  SeenNames' /\ PoolFollowsVault'
<1>1. CASE StillNames
  <2>1. SeenNames'
    BY <1>1 DEF VInv, SeenNames, StillNames
  <2>2. Pool' = Pool /\ Points' = Points
    BY <1>1 DEF StillNames, Pool, Points
  <2> QED
    BY <1>1, <2>1, <2>2 DEF VInv, PoolFollowsVault, StillNames
<1>2. CASE OneEnds
  BY <1>2 DEF VInv, SeenNames, PoolFollowsVault, OneEnds
<1>3. CASE BuiltAnew
  BY <1>3 DEF VInv, SeenNames, PoolFollowsVault, BuiltAnew
<1> QED
  BY <1>1, <1>2, <1>3

LEMMA BuildsAnew ==
  ASSUME IInv, NEW server \in Servers, Builds(server)
  PROVE  Pool' \in Nat /\ ~pools'[Pool'].ended /\ Points' = server
<1>1. pools \in Seq(PoolRecords) /\ Len(pools) \in Nat
  BY ThePool DEF IInv, TypeOK, PoolsTypeOK, PoolRecords, Pool
<1> DEFINE r == [of |-> server, ended |-> FALSE]
<1>2. r \in PoolRecords /\ pools' = Append(pools, r) /\ r.of = server /\ ~r.ended
  BY DEF PoolRecords, Builds
<1> HIDE DEF r
<1>3. Pool' = Len(pools) + 1 /\ pools'[Len(pools) + 1] = r
  BY <1>1, <1>2, AppendProperties DEF Pool
<1> QED
  BY <1>1, <1>2, <1>3 DEF Points

(* A call that is no command goes on.                                      *)
LEMMA OtherTurn ==
  ASSUME IInv, NEW j \in Jobs, NEW a \in Activations, Becomes(j, a),
         call[j].at # "ending", a.at # "ending",
         UNCHANGED pools, ~apart' => ~apart /\ Target(vault') = Target(vault)
  PROVE  StillNames
<1>1. call'[j] = a /\ \A i \in Jobs \ {j} : call'[i] = call[i]
  BY OthersStay
<1> QED
  BY <1>1 DEF StillNames

LEMMA SentIsNoEnd ==
  ASSUME NEW a \in Activations, NEW n \in Nat
  PROVE  Sent(a, n) \in Activations /\ Sent(a, n).at # "ending"
<1>1. Sent(a, n) \in Activations
  BY SentIsActivation
<1>2. CASE pools[n].ended
  <2>1. Sent(a, n) = Told(a, "failed")
    BY <1>2 DEF Sent
  <2>2. Told(a, "failed").at = "told"
    BY ToldIsActivation
  <2> QED
    BY <1>1, <2>1, <2>2
<1>3. CASE ~pools[n].ended
  <2>1. Sent(a, n).at = "sent"
    BY <1>3 DEF Sent, Activations
  <2> QED
    BY <1>1, <2>1
<1> QED
  BY <1>2, <1>3

LEMMA ToldNames ==
  ASSUME IInv, NEW j \in Jobs, NEW c \in Activations,
         NEW what \in {"ok", "failed", "drift", "denied", "gone"}, Becomes(j, Told(c, what)),
         call[j].at # "ending", UNCHANGED pools, ~apart' => ~apart /\ Target(vault') = Target(vault)
  PROVE  StillNames
<1>1. Told(c, what) \in Activations /\ Told(c, what).at # "ending"
  BY ToldIsActivation
<1> QED
  BY <1>1, OtherTurn

LEMMA WithoutNames ==
  ASSUME NEW v \in Vaults, NEW c \in DOMAIN v.at, v.active # c
  PROVE  Target(Without(v, c)) = Target(v)
<1> DEFINE at == [d \in DOMAIN v.at \ {c} |-> v.at[d]]
<1>1. Without(v, c) = [at |-> at, active |-> v.active]
  BY DEF Without
<1>2. DOMAIN at = DOMAIN v.at \ {c} /\ \A d \in DOMAIN at : at[d] = v.at[d]
  OBVIOUS
<1> HIDE DEF at
<1> QED
  BY <1>1, <1>2 DEF Target

LEMMA UpdatedNames ==
  ASSUME NEW v \in Vaults, NEW c \in Conns, NEW server \in Servers
  PROVE  Target(Activated(With(v, c, server), c)) = server
<1> DEFINE at == [d \in DOMAIN v.at \cup {c} |-> IF d = c THEN server ELSE v.at[d]]
<1>1. With(v, c, server).at = at /\ With(v, c, server) \in Vaults
  BY WithIsVault DEF With, Vaults
<1>2. Activated(With(v, c, server), c).at = at /\ Activated(With(v, c, server), c).active = c
  BY <1>1 DEF Activated, Vaults
<1>3. c \in DOMAIN at /\ at[c] = server
  OBVIOUS
<1> HIDE DEF at
<1> QED
  BY <1>2, <1>3 DEF Target

LEMMA EndingNames ==
  ASSUME IInv, NEW j \in Jobs, NEW a \in Activations, Becomes(j, a),
         a.at = "ending", a.kind = "update" => Target(a.seen) = a.to
  PROVE  OneEnds
<1>1. call'[j] = a /\ \A i \in Jobs \ {j} : call'[i] = call[i]
  BY OthersStay
<1> QED
  BY <1>1 DEF OneEnds

LEMMA StartsNames ==
  ASSUME VInv, NEW j \in Jobs, Starts(j)
  PROVE  StillNames \/ OneEnds
<1>1. call[j].at = "new" /\ IInv /\ vault \in Vaults /\ Pool \in Nat
  <2>1. IInv
    BY DEF VInv
  <2>2. call[j].at = "new"
    BY DEF Starts, StartStatement, Denied, StartLogin, SetActive, UpdateConfig, Save,
           RemoveOther, RemoveActive, NextUp
  <2> QED
    BY <2>1, <2>2, VaultTyped, FreshCall
<1>2. CASE \E kind \in Statements, s \in sessions : StartStatement(j, kind, s)
  <2>1. PICK kind \in Statements, s \in sessions : StartStatement(j, kind, s)
    BY <1>2
  <2> DEFINE a == [Idle EXCEPT !.kind = kind, !.as = s]
  <2>2. a \in Activations
    BY <1>1, IdleIsActivation DEF Activations, Idle, Statements, IInv, TypeOK, PoolsTypeOK
  <2>3. Becomes(j, Sent(a, Pool)) /\ UNCHANGED <<vault, pools, apart>>
    BY <2>1 DEF StartStatement, target
  <2> HIDE DEF a
  <2> QED
    BY <1>1, <2>2, <2>3, SentIsNoEnd, OtherTurn
<1>3. CASE Denied(j)
  BY <1>1, <1>3, ToldNames, FreshCall DEF Denied, Tells, target
<1>4. CASE StartLogin(j)
  <2> DEFINE a == [Idle EXCEPT !.kind = "login"]
  <2>1. a \in Activations
    BY IdleKind
  <2>2. Becomes(j, Sent(a, Pool)) /\ UNCHANGED <<vault, pools, apart>>
    BY <1>4 DEF StartLogin, target
  <2> HIDE DEF a
  <2> QED
    BY <1>1, <2>1, <2>2, SentIsNoEnd, OtherTurn
<1>5. CASE \E c \in Conns \cup {NoConn} : SetActive(j, c)
  <2> DEFINE i == [Idle EXCEPT !.kind = "setActive"]
  <2>1. i \in Activations /\ i.kind = "setActive"
    BY IdleKind DEF Commands
  <2>2. Becomes(j, Ending(i))
    BY <1>5 DEF SetActive
  <2> HIDE DEF i
  <2>3. Ending(i) \in Activations /\ Ending(i).at = "ending" /\ Ending(i).kind = "setActive"
    BY <1>1, <2>1, EndingIsActivation DEF IInv, TypeOK
  <2> QED
    BY <1>1, <2>2, <2>3, EndingNames
<1>6. CASE \E c \in Conns, server \in Servers : UpdateConfig(j, c, server)
  <2>1. PICK c \in Conns, server \in Servers : UpdateConfig(j, c, server)
    BY <1>6
  <2> DEFINE i == [Idle EXCEPT !.kind = "update", !.to = server]
             v == Activated(With(vault, c, server), c)
             a == [Ending(i) EXCEPT !.seen = v]
  <2>2. i \in Activations /\ i.to = server
    BY IdleIsActivation DEF Activations, Idle, Commands
  <2>3. Becomes(j, a)
    BY <2>1 DEF UpdateConfig
  <2>4. Ending(i).to = i.to
    BY DEF Ending
  <2> HIDE DEF i
  <2>5. Ending(i) \in Activations /\ Ending(i).at = "ending" /\ Ending(i).to = server
    BY <1>1, <2>2, <2>4, EndingIsActivation DEF IInv, TypeOK
  <2>6. v \in Vaults /\ Target(v) = server
    BY <1>1, WithIsVault, ActivatedIsVault, UpdatedNames
  <2> HIDE DEF v
  <2>7. a \in Activations /\ a.at = "ending" /\ a.seen = v /\ a.to = server
    BY <2>5, <2>6 DEF Activations
  <2> HIDE DEF a
  <2> QED
    BY <1>1, <2>3, <2>6, <2>7, EndingNames
<1>7. CASE \E c \in Conns, server \in Servers : Save(j, c, server)
  <2> DEFINE i == [Idle EXCEPT !.kind = "save"]
  <2>1. i \in Activations
    BY IdleKind
  <2>2. /\ Becomes(j, Told(i, "ok")) /\ UNCHANGED pools
        /\ ~apart' => ~apart /\ Target(vault') = Target(vault)
    BY <1>7 DEF Save, SaveConnection
  <2> HIDE DEF i
  <2> QED
    BY <1>1, <2>1, <2>2, ToldNames
<1>8. CASE \E c \in Conns : RemoveOther(j, c)
  <2>1. PICK c \in Conns : RemoveOther(j, c)
    BY <1>8
  <2> DEFINE i == [Idle EXCEPT !.kind = "remove"]
  <2>2. i \in Activations
    BY IdleKind DEF Commands
  <2>3. Becomes(j, Told(i, "ok")) /\ UNCHANGED <<pools, apart>>
    BY <2>1 DEF RemoveOther
  <2> HIDE DEF i
  <2>4. Target(vault') = Target(vault)
    BY <1>1, <2>1, WithoutNames DEF RemoveOther
  <2> QED
    BY <1>1, <2>2, <2>3, <2>4, ToldNames
<1>9. CASE RemoveActive(j)
  <2> DEFINE i == [Idle EXCEPT !.kind = "remove"]
             v == Without(vault, vault.active)
             a == [Ending(i) EXCEPT !.seen = v]
  <2>1. i \in Activations /\ i.kind = "remove"
    BY IdleKind DEF Commands
  <2>2. Becomes(j, a)
    BY <1>9 DEF RemoveActive
  <2> HIDE DEF i
  <2>3. Ending(i) \in Activations /\ Ending(i).at = "ending" /\ Ending(i).kind = "remove"
    BY <1>1, <2>1, EndingIsActivation DEF IInv, TypeOK
  <2>4. v \in Vaults
    BY <1>1, WithoutIsVault
  <2> HIDE DEF v
  <2>5. a \in Activations /\ a.at = "ending" /\ a.kind = "remove"
    BY <2>3, <2>4, SeenIsActivation
  <2> HIDE DEF a
  <2> QED
    BY <1>1, <2>2, <2>5, EndingNames
<1> QED
  BY <1>2, <1>3, <1>4, <1>5, <1>6, <1>7, <1>8, <1>9 DEF Starts

LEMMA ProceedsNames ==
  ASSUME VInv, NEW j \in Jobs, Proceeds(j)
  PROVE  StillNames \/ BuiltAnew
<1>1. IInv /\ Pool \in Nat /\ call[j] \in Activations
  BY FreshCall DEF VInv
<1>2. CASE \/ Answered(j) \/ Fails(j) \/ LoginFails(j) \/ LoginDone(j)
           \/ MeetsDrift(j) /\ call[j].try # 1
  <2>1. \E what \in {"ok", "failed", "drift", "denied", "gone"} : Becomes(j, Told(call[j], what))
    BY <1>2 DEF Answered, Fails, LoginFails, LoginDone, MeetsDrift, Tells
  <2>2. call[j].at = "sent" /\ UNCHANGED <<vault, pools, apart>>
    BY <1>2 DEF Answered, Fails, LoginFails, LoginDone, MeetsDrift, target
  <2> QED
    BY <1>1, <2>1, <2>2, ToldNames
<1>3. CASE MeetsDrift(j) /\ call[j].try = 1
  <2> DEFINE a == [call[j] EXCEPT !.at = "healing"]
  <2>1. a \in Activations /\ a.at = "healing"
    BY <1>1 DEF Activations
  <2>2. Becomes(j, a) /\ call[j].at = "sent" /\ UNCHANGED <<vault, pools, apart>>
    BY <1>3 DEF MeetsDrift, target
  <2> HIDE DEF a
  <2> QED
    BY <1>1, <2>1, <2>2, OtherTurn
<1>4. CASE Retries(j)
  <2> DEFINE a == [call[j] EXCEPT !.try = 2]
             n == IF a.kind = "batch" THEN Pool ELSE a.on
  <2>1. a \in Activations /\ n \in Nat
    BY <1>1 DEF Activations
  <2>2. Becomes(j, Sent(a, n)) /\ call[j].at = "healing" /\ UNCHANGED <<vault, pools, apart>>
    BY <1>4 DEF Retries, target
  <2> HIDE DEF a, n
  <2> QED
    BY <1>1, <2>1, <2>2, SentIsNoEnd, OtherTurn
<1>5. CASE LoginRead(j)
  <2>1. PICK a \in Activations : Becomes(j, Sent(a, Pool))
    <3> DEFINE user == IF call[j].try = 1 THEN [of |-> pools[call[j].on].of, on |-> Env] ELSE call[j].as
    <3>1. call[j].at = "sent" /\ call[j].try + 1 \in 1..3
      BY <1>1, <1>5 DEF LoginRead, Activations
    <3>2. pools[call[j].on] \in PoolRecords
      BY <1>1, <3>1, ThePool DEF IInv, TypeOK, SentThere
    <3>3. user \in Sessions
      BY <1>1, <3>2, PoolsAssumption DEF PoolRecords, Sessions, Activations
    <3>4. Becomes(j, Sent([call[j] EXCEPT !.try = @ + 1, !.as = user], Pool))
      BY <1>5 DEF LoginRead
    <3> HIDE DEF user
    <3>5. \A t \in 1..3, u \in Sessions : [call[j] EXCEPT !.try = t, !.as = u] \in Activations
      BY <1>1 DEF Activations
    <3> QED
      BY <3>1, <3>3, <3>4, <3>5
  <2>2. call[j].at = "sent" /\ UNCHANGED <<vault, pools, apart>>
    BY <1>5 DEF LoginRead, target
  <2> QED
    BY <1>1, <2>1, <2>2, SentIsNoEnd, OtherTurn
<1>6. CASE ActiveSet(j) \/ ConfigUpdated(j) \/ ActiveRemoved(j)
  <2>1. Becomes(j, Told(call[j], "ok")) /\ call[j].at = "ending"
    BY <1>6 DEF ActiveSet, ConfigUpdated, ActiveRemoved, EndedFor, Tells
  <2>2. \A i \in Jobs : call'[i].at = "ending" => call'[i] = call[i]
    <3>1. Told(call[j], "ok") \in Activations /\ Told(call[j], "ok").at = "told"
      BY <1>1, ToldIsActivation
    <3> QED
      BY <1>1, <2>1, <3>1, OthersStay
  <2>3. Target(vault) \in Servers /\ call[j].to \in Servers
    BY <1>1, VaultTyped, TargetIsServer DEF Activations
  <2>4. CASE ActiveSet(j)
    BY <1>1, <2>2, <2>3, <2>4, BuildsAnew DEF ActiveSet, CreatePool, BuiltAnew
  <2>5. CASE ConfigUpdated(j)
    <3>1. Builds(call[j].to) /\ vault' = vault /\ (apart' \/ vault = call[j].seen)
      BY <2>5 DEF ConfigUpdated
    <3>2. Target(call[j].seen) = call[j].to
      BY <2>1, <2>5 DEF ConfigUpdated, EndedFor, VInv, SeenNames
    <3> QED
      BY <1>1, <2>2, <2>3, <3>1, <3>2, BuildsAnew DEF BuiltAnew
  <2>6. CASE ActiveRemoved(j)
    <3>1. Builds(Target(vault)) /\ (apart' \/ Target(vault') = Target(vault))
      BY <2>6 DEF ActiveRemoved
    <3> QED
      BY <1>1, <2>2, <2>3, <3>1, BuildsAnew DEF BuiltAnew
  <2> QED
    BY <1>6, <2>4, <2>5, <2>6
<1> QED
  BY <1>2, <1>3, <1>4, <1>5, <1>6 DEF Proceeds

LEMMA NextFollows == VInv /\ [Next]_vars => VInv'
<1> SUFFICES ASSUME VInv, [Next]_vars
             PROVE  VInv'
  OBVIOUS
<1>1. IInv /\ IInv'
  BY NextIsSound DEF VInv
<1>2. CASE \E j \in Jobs : Starts(j) \/ Proceeds(j)
  BY <1>1, <1>2, StartsNames, ProceedsNames, NamesStay DEF VInv
<1>3. CASE SyncFails
  <2>1. UNCHANGED <<vault, pools, apart>>
    BY <1>3 DEF SyncFails, target
  <2>2. \A i \in Jobs : call[i].at # "healing" => call'[i] = call[i]
    BY <1>3 DEF SyncFails
  <2>3. \A i \in Jobs : call[i].at = "healing" => call'[i].at = "told"
    BY <1>1, <1>3, ToldIsActivation, FreshCall DEF SyncFails
  <2>4. StillNames
    BY <2>1, <2>2, <2>3 DEF StillNames
  <2> QED
    BY <1>1, <2>4, NamesStay DEF VInv
<1>4. CASE Restart
  <2>1. ASSUME NEW i \in Jobs
        PROVE  call'[i].at # "ending"
    BY <1>1, <1>4, ToldIsActivation, FreshCall DEF Restart
  <2>2. Target(vault) \in Servers
    BY <1>1, VaultTyped, TargetIsServer
  <2>3. BuiltAnew
    BY <1>1, <1>4, <2>1, <2>2, BuildsAnew DEF Restart, CreatePool, BuiltAnew
  <2> QED
    BY <1>1, <2>3, NamesStay DEF VInv
<1>5. CASE SyncBegins \/ SyncSucceeds \/ (SessionEnds /\ UNCHANGED desk) \/ UNCHANGED vars
  <2>1. UNCHANGED <<vault, pools, apart, call>>
    BY <1>5 DEF SyncBegins, SyncSucceeds, SessionEnds, desk, vars, target
  <2>2. StillNames
    BY <2>1 DEF StillNames
  <2> QED
    BY <1>1, <2>2, NamesStay DEF VInv
<1> QED
  BY <1>2, <1>3, <1>4, <1>5 DEF Next, Syncs

LEMMA InitFollows == Init => VInv
<1> SUFFICES ASSUME Init
             PROVE  VInv
  OBVIOUS
<1>1. Pool = 1 /\ pools[1].of = Target(vault) /\ ~pools[1].ended
  BY DEF Init, PoolsInit, Pool
<1>2. \A j \in Jobs : call[j].at = "new"
  BY DEF Init, Idle
<1> QED
  BY <1>1, <1>2, InitIsSound DEF VInv, SeenNames, PoolFollowsVault, Points

(* When no command is under way the pool is open and is the one the vault  *)
(* names, unless a command wrote one without the other: whichever command  *)
(* is the last to build a pool has read, or written, the vault it leaves.  *)
THEOREM TheVaultIsFollowed == Spec => []PoolFollowsVault
<1>1. VInv => PoolFollowsVault
  BY DEF VInv
<1> QED
  BY <1>1, InitFollows, NextFollows, PTL DEF Spec
=============================================================================
