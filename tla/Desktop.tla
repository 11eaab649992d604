------------------------------- MODULE Desktop -------------------------------
(***************************************************************************)
(* The IPC handlers of electron/dbHandler.js as activations that wait for  *)
(* the database: statements and transactions with their healing of schema  *)
(* drift, logins, and the commands that point the pool at another server.  *)
(***************************************************************************)
EXTENDS Pools

CONSTANTS
  Calls,        \* number of activations; they are numbered in the order they start
  MaxRestarts   \* bound

ASSUME CallsAssumption == Calls \in Nat \ {0} /\ MaxRestarts \in Nat

VARIABLES
  call,      \* each activation
  memo,      \* schemaHealPromise, and the server it was for
  drifted,   \* servers whose schema is behind the shipped migrations
  kept,      \* writes the servers have kept
  restarts

desk == <<call, memo, drifted, kept, restarts>>
vars == <<target, desk>>

Jobs == 1..Calls
Statements == {"statement", "batch"}
Commands == {"setActive", "update", "remove"}

Nobody == [of |-> Env, on |-> Env]
Empty == [at |-> [c \in {} |-> Env], active |-> NoConn]
Idle == [at |-> "new", kind |-> "none", on |-> 0, try |-> 1, as |-> Nobody,
         to |-> Env, first |-> FALSE, seen |-> Empty, told |-> "none"]

Activations ==
  [at : {"new", "sent", "healing", "ending", "told"},
   kind : {"none", "login", "save"} \cup Statements \cup Commands,
   on : Nat, try : 1..3, as : Sessions, to : Servers, first : BOOLEAN, seen : Vaults,
   told : {"none", "ok", "failed", "drift", "denied", "gone"}]

TypeOK ==
  /\ PoolsTypeOK
  /\ call \in [Jobs -> Activations]
  /\ memo \in [state : {"none", "loading", "running", "done"}, of : Servers]
  /\ drifted \subseteq Servers
  /\ kept \subseteq [job : Jobs, try : 1..3, at : Servers]
  /\ restarts \in 0..MaxRestarts

NoMemo == [state |-> "none", of |-> Env]

Init ==
  /\ PoolsInit
  /\ call = [j \in Jobs |-> Idle] /\ memo = NoMemo
  /\ drifted \in SUBSET Servers /\ kept = {} /\ restarts = 0

-----------------------------------------------------------------------------
NextUp(j) == call[j].at = "new" /\ \A i \in 1..(j - 1) : call[i].at # "new"
Becomes(j, c) == call' = [call EXCEPT ![j] = c]
\* Of a command or a login nothing is of interest once it is answered.
Told(c, what) ==
  IF c.kind \in Statements THEN [c EXCEPT !.at = "told", !.told = what, !.try = 1]
  ELSE [Idle EXCEPT !.at = "told", !.told = what]
Tells(j, what) == Becomes(j, Told(call[j], what))

\* Faulty: a transaction that failed does not release its client.
FaultyHolders(n) ==
  {j \in Jobs : call[j].on = n /\ (call[j].at = "sent" \/ (call[j].kind = "batch" /\ call[j].told = "failed"))}

(* Who has a client of the pool checked out.                               *)
Holders(n) == {j \in Jobs : call[j].on = n /\ call[j].at = "sent"}

(* A request through pool n, refused once the pool was told to end.        *)
Sent(c, n) == IF pools[n].ended THEN Told(c, "failed") ELSE [c EXCEPT !.at = "sent", !.on = n]

(* pool.end(): a second one rejects at once, which is ignored.             *)
Ending(c) == [c EXCEPT !.at = "ending", !.on = Pool, !.first = ~pools[Pool].ended]

-----------------------------------------------------------------------------
(* db:internal-query and db:rpc:*, db:internal-transaction *)

StartStatement(j, kind, s) ==
  /\ NextUp(j) /\ s \in sessions
  /\ Becomes(j, Sent([Idle EXCEPT !.kind = kind, !.as = s], Pool))
  /\ UNCHANGED <<target, memo, drifted, kept, restarts>>

(* A token whose session is gone.                                          *)
Denied(j) ==
  /\ NextUp(j) /\ Tells(j, "denied")
  /\ UNCHANGED <<target, memo, drifted, kept, restarts>>

Keeps(j) == kept' = kept \cup {[job |-> j, try |-> call[j].try, at |-> pools[call[j].on].of]}

(* The statement, or the COMMIT, is answered.                              *)
Answered(j) ==
  /\ call[j].at = "sent" /\ call[j].kind \in Statements
  /\ Keeps(j) /\ Tells(j, "ok")
  /\ UNCHANGED <<target, memo, drifted, restarts>>

\* Faulty: any failure of the first try is taken for drift.
FaultyFails(j) ==
  /\ call[j].at = "sent" /\ call[j].kind \in Statements
  /\ IF call[j].try = 1 THEN Becomes(j, [call[j] EXCEPT !.at = "healing"]) ELSE Tells(j, "failed")
  /\ Keeps(j) \/ UNCHANGED kept
  /\ memo' = IF memo.state = "none" THEN [NoMemo EXCEPT !.state = "loading"] ELSE memo
  /\ UNCHANGED <<target, drifted, restarts>>

(* Any other error, or a connection lost before or after it was applied.   *)
Fails(j) ==
  /\ call[j].at = "sent" /\ call[j].kind \in Statements
  /\ Keeps(j) \/ UNCHANGED kept
  /\ Tells(j, "failed")
  /\ UNCHANGED <<target, memo, drifted, restarts>>

(* 42703 or 42P01: the transaction is rolled back and its client released, *)
(* then the one healing of the process is started or awaited.              *)
MeetsDrift(j) ==
  /\ call[j].at = "sent" /\ call[j].kind \in Statements
  /\ pools[call[j].on].of \in drifted
  /\ IF call[j].try = 1
     THEN /\ Becomes(j, [call[j] EXCEPT !.at = "healing"])
          /\ memo' = IF memo.state = "none" THEN [NoMemo EXCEPT !.state = "loading"] ELSE memo
     ELSE Tells(j, "drift") /\ UNCHANGED memo
  /\ UNCHANGED <<target, drifted, kept, restarts>>

(* The second try: a statement on the pool it was given, a transaction on  *)
(* the pool there is now.                                                  *)
Retries(j) ==
  /\ call[j].at = "healing" /\ memo.state = "done"
  /\ LET c == [call[j] EXCEPT !.try = 2]
     IN Becomes(j, Sent(c, IF c.kind = "batch" THEN Pool ELSE c.on))
  /\ UNCHANGED <<target, memo, drifted, kept, restarts>>

-----------------------------------------------------------------------------
(* healSchemaDriftOnce *)

(* The runner is loaded; only now the configuration is read.               *)
SyncBegins ==
  /\ memo.state = "loading"
  /\ memo' = [state |-> "running", of |-> Points]
  /\ UNCHANGED <<target, call, drifted, kept, restarts>>

SyncSucceeds ==
  /\ memo.state = "running"
  /\ memo' = [memo EXCEPT !.state = "done"] /\ drifted' = drifted \ {memo.of}
  /\ UNCHANGED <<target, call, kept, restarts>>

(* Everyone who waits for it fails, and the next one may try again.        *)
SyncFails ==
  /\ memo.state = "running" /\ memo' = NoMemo
  /\ call' = [j \in Jobs |-> IF call[j].at = "healing" THEN Told(call[j], "failed") ELSE call[j]]
  /\ UNCHANGED <<target, drifted, kept, restarts>>

-----------------------------------------------------------------------------
(* auth:login: the user, the role, the stamp, each through `pool`. *)

StartLogin(j) ==
  /\ NextUp(j)
  /\ Becomes(j, Sent([Idle EXCEPT !.kind = "login"], Pool))
  /\ UNCHANGED <<target, memo, drifted, kept, restarts>>

LoginRead(j) ==
  /\ call[j].at = "sent" /\ call[j].kind = "login" /\ call[j].try < 3
  /\ LET user == IF call[j].try = 1 THEN [of |-> pools[call[j].on].of, on |-> Env] ELSE call[j].as
     IN Becomes(j, Sent([call[j] EXCEPT !.try = @ + 1, !.as = user], Pool))
  /\ UNCHANGED <<target, memo, drifted, kept, restarts>>

(* createSession, after the last answer.                                   *)
LoginDone(j) ==
  /\ call[j].at = "sent" /\ call[j].kind = "login" /\ call[j].try = 3
  /\ sessions' = sessions \cup {[call[j].as EXCEPT !.on = Points]}
  /\ Tells(j, "ok")
  /\ UNCHANGED <<vault, pools, apart, memo, drifted, kept, restarts>>

(* No such user, or an error at any of the three.                          *)
LoginFails(j) ==
  /\ call[j].at = "sent" /\ call[j].kind = "login" /\ Tells(j, "failed")
  /\ UNCHANGED <<target, memo, drifted, kept, restarts>>

-----------------------------------------------------------------------------
(* The commands. The vault is saved, the pool ended, its clients awaited,  *)
(* and only then there is a new one.                                       *)

SetActive(j, c) ==
  /\ NextUp(j) /\ c \in DOMAIN vault.at \cup {NoConn}
  /\ vault' = Activated(vault, c)
  /\ Ends(Pool) /\ Becomes(j, Ending([Idle EXCEPT !.kind = "setActive"]))
  /\ UNCHANGED <<sessions, apart, memo, drifted, kept, restarts>>

\* Faulty: only an entry that is new becomes the active one.
FaultyUpdateConfig(j, c, server) ==
  /\ NextUp(j) /\ c \in EntriesFor(vault, server)
  /\ vault' = IF c \in DOMAIN vault.at THEN vault ELSE Activated(With(vault, c, server), c)
  /\ Ends(Pool)
  /\ Becomes(j, [Ending([Idle EXCEPT !.kind = "update", !.to = server]) EXCEPT !.seen = vault'])
  /\ UNCHANGED <<sessions, apart, memo, drifted, kept, restarts>>

UpdateConfig(j, c, server) ==
  /\ NextUp(j) /\ c \in EntriesFor(vault, server)
  /\ vault' = Activated(With(vault, c, server), c)
  /\ Ends(Pool)
  /\ Becomes(j, [Ending([Idle EXCEPT !.kind = "update", !.to = server]) EXCEPT !.seen = vault'])
  /\ UNCHANGED <<sessions, apart, memo, drifted, kept, restarts>>

RemoveOther(j, c) ==
  /\ NextUp(j) /\ c \in DOMAIN vault.at /\ vault.active # c
  /\ vault' = Without(vault, c)
  /\ Becomes(j, Told([Idle EXCEPT !.kind = "remove"], "ok"))
  /\ UNCHANGED <<pools, sessions, apart, memo, drifted, kept, restarts>>

(* The active one: the vault without it is in memory only.                 *)
RemoveActive(j) ==
  /\ NextUp(j) /\ vault.active \in DOMAIN vault.at
  /\ Ends(Pool)
  /\ Becomes(j, [Ending([Idle EXCEPT !.kind = "remove"]) EXCEPT !.seen = Without(vault, vault.active)])
  /\ UNCHANGED <<vault, sessions, apart, memo, drifted, kept, restarts>>

Save(j, c, server) ==
  /\ NextUp(j) /\ SaveConnection(c, server)
  /\ Becomes(j, Told([Idle EXCEPT !.kind = "save"], "ok"))
  /\ UNCHANGED <<memo, drifted, kept, restarts>>

(* pool.end() has settled.                                                 *)
EndedFor(j, kind) ==
  /\ call[j].at = "ending" /\ call[j].kind = kind
  /\ call[j].first => Holders(call[j].on) = {}
  /\ Tells(j, "ok")
  /\ UNCHANGED <<memo, drifted, kept, restarts>>

ActiveSet(j) == EndedFor(j, "setActive") /\ CreatePool /\ UNCHANGED vault

(* The pool is the configuration's, whatever another handler has written   *)
(* to the vault meanwhile.                                                 *)
ConfigUpdated(j) ==
  /\ EndedFor(j, "update") /\ Builds(call[j].to)
  /\ apart' = (vault # call[j].seen) /\ UNCHANGED vault

(* createPool() reads the vault before the shorter one is saved over it.   *)
ActiveRemoved(j) ==
  /\ EndedFor(j, "remove") /\ Builds(Target(vault))
  /\ vault' = call[j].seen
  /\ apart' = (Target(vault') # Target(vault))

-----------------------------------------------------------------------------
(* The process ends and is started again; what was sent may yet be kept.   *)
Restart ==
  /\ restarts < MaxRestarts /\ restarts' = restarts + 1
  /\ \E S \in SUBSET {j \in Jobs : call[j].at = "sent" /\ call[j].kind \in Statements} :
       kept' = kept \cup {[job |-> j, try |-> call[j].try, at |-> pools[call[j].on].of] : j \in S}
  /\ call' = [j \in Jobs |-> IF call[j].at \in {"new", "told"} THEN call[j] ELSE Told(call[j], "gone")]
  /\ CreatePool /\ memo' = NoMemo
  /\ UNCHANGED <<vault, drifted>>

-----------------------------------------------------------------------------
Starts(j) ==
  \/ \E kind \in Statements, s \in sessions : StartStatement(j, kind, s)
  \/ Denied(j)
  \/ StartLogin(j)
  \/ \E c \in Conns \cup {NoConn} : SetActive(j, c)
  \/ \E c \in Conns, server \in Servers : UpdateConfig(j, c, server) \/ Save(j, c, server)
  \/ \E c \in Conns : RemoveOther(j, c)
  \/ RemoveActive(j)

Proceeds(j) ==
  \/ Answered(j) \/ Fails(j) \/ MeetsDrift(j) \/ Retries(j)
  \/ LoginRead(j) \/ LoginDone(j) \/ LoginFails(j)
  \/ ActiveSet(j) \/ ConfigUpdated(j) \/ ActiveRemoved(j)

Syncs == SyncBegins \/ SyncSucceeds \/ SyncFails

Next ==
  \/ \E j \in Jobs : Starts(j) \/ Proceeds(j)
  \/ Syncs \/ Restart
  \/ SessionEnds /\ UNCHANGED desk

Spec == Init /\ [][Next]_vars

(* Requests are answered or time out (connectionTimeoutMillis, the cap on  *)
(* statements), and so does the runner. Calls are finitely many, so it is  *)
(* enough that the process goes on while anything can.                     *)
FairSpec == Spec /\ WF_vars(Syncs \/ \E j \in Jobs : Proceeds(j))

-----------------------------------------------------------------------------
(* Properties *)

(* A healed retry repeats nothing that was kept, though a try that failed  *)
(* may have been applied: a statement or transaction is kept at most once, *)
(* and exactly once when its caller is told so (execQueryWithSelfHeal, and *)
(* runBatch after its ROLLBACK).                                           *)
TransactionOnce ==
  \A j \in Jobs :
    LET copies == Cardinality({w \in kept : w.job = j})
    IN /\ copies <= 1
       /\ call[j].told = "ok" /\ call[j].kind \in Statements => copies = 1
       /\ call[j].told \in {"drift", "denied"} => copies = 0

(* A statement is kept by the database the pool pointed at when its        *)
(* session was opened, however switches, logins and healings interleave:   *)
(* createPool() and update-config drop every session with the old pool.    *)
StatementsStay ==
  \A w \in kept : call[w.job].kind = "statement" => w.at = call[w.job].as.on

(* When no command is under way the pool is open and is the one the vault  *)
(* names, so that a restart changes nothing, unless a command wrote one    *)
(* without the other: commands overlap at the await of pool.end().         *)
PoolFollowsVault ==
  (\A j \in Jobs : call[j].at # "ending") =>
    ~pools[Pool].ended /\ (apart \/ Points = Target(vault))

(* Every activation is answered: a switch waits for the clients of the old *)
(* pool, and these for the one healing, and nobody for a switch.           *)
EveryCallIsAnswered ==
  []<>(\A j \in Jobs : call[j].at \in {"new", "told"})

(* Of the comment above healSchemaDriftOnce: healing works against         *)
(* whatever database the app is connected to, so that no caller is told of *)
(* a drift that a schema sync would have removed.                          *)
DriftIsHealed == \A j \in Jobs : call[j].told # "drift"

(* Of the comment in createPool(): no identity of the old database         *)
(* authorises a write on the new one.                                      *)
WritesStayHome == \A w \in kept : w.at = call[w.job].as.of

(* Removing the active connection leaves the pool where a restart would.   *)
PoolIsTheVaults ==
  (\A j \in Jobs : call[j].at # "ending") => Points = Target(vault)
=============================================================================
