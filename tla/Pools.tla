-------------------------------- MODULE Pools --------------------------------
(***************************************************************************)
(* What the main process of the desktop points at: the vault of saved      *)
(* connections on disk, the pools it has built, and the sessions opened    *)
(* through them (electron/dbHandler.js).                                   *)
(***************************************************************************)
EXTENDS Integers, Sequences, FiniteSets

CONSTANTS
  Servers,  \* databases
  Env,      \* the one .env.local names, or its localhost defaults
  Conns,    \* ids of saved connections
  NoConn

ASSUME PoolsAssumption == Env \in Servers /\ NoConn \notin Conns

VARIABLES
  vault,     \* connections.json: the server each saved connection names, the active one
  pools,     \* the pools built so far; the last one is `pool`
  sessions,  \* [of |-> where the user was read, on |-> where the pool pointed then]
  apart      \* history: vault and pool were changed without regard to each other

target == <<vault, pools, sessions, apart>>

Vaults == [at : UNION {[C -> Servers] : C \in SUBSET Conns}, active : Conns \cup {NoConn}]
Sessions == [of : Servers, on : Servers]

PoolsTypeOK ==
  /\ vault \in Vaults /\ pools \in Seq([of : Servers, ended : BOOLEAN])
  /\ sessions \subseteq Sessions /\ apart \in BOOLEAN

(* A saved connection wins over the environment; without one, the latter.  *)
Target(v) == IF v.active \in DOMAIN v.at THEN v.at[v.active] ELSE Env

Pool == Len(pools)
Points == pools[Pool].of

Ends(n) == pools' = [pools EXCEPT ![n].ended = TRUE]

(* new Pool, on which every session is dropped.                            *)
Builds(server) ==
  /\ pools' = Append(pools, [of |-> server, ended |-> FALSE])
  /\ sessions' = {}

\* Faulty: createPool() that keeps the sessions.
FaultyCreatePool ==
  /\ pools' = Append(pools, [of |-> Target(vault), ended |-> FALSE])
  /\ apart' = FALSE /\ UNCHANGED sessions

(* createPool(): from the vault as it is on disk now.                      *)
CreatePool == Builds(Target(vault)) /\ apart' = FALSE

PoolsInit ==
  /\ vault \in [at : {[c \in {} |-> Env]} \cup [Conns -> Servers], active : Conns \cup {NoConn}]
  /\ vault.active \in DOMAIN vault.at \cup {NoConn}
  /\ pools = <<[of |-> Target(vault), ended |-> FALSE]>>
  /\ sessions \in {{}, {[of |-> Target(vault), on |-> Target(vault)]}}
  /\ apart = FALSE

-----------------------------------------------------------------------------
(* The vault: what a handler writes between loading and saving it. *)

Activated(v, c) == [v EXCEPT !.active = c]
Without(v, c) ==
  [at |-> [d \in DOMAIN v.at \ {c} |-> v.at[d]], active |-> IF v.active = c THEN NoConn ELSE v.active]
With(v, c, server) ==
  [v EXCEPT !.at = [d \in DOMAIN @ \cup {c} |-> IF d = c THEN server ELSE @[d]]]

(* The entry update-config writes: the one of that server, or a new one.   *)
EntriesFor(v, server) ==
  LET same == {c \in DOMAIN v.at : v.at[c] = server}
  IN IF same # {} THEN same ELSE Conns \ DOMAIN v.at

-----------------------------------------------------------------------------
(* db:connections-save: one synchronous step; an entry may be edited, the  *)
(* active one as well, whose pool stays.                                   *)
SaveConnection(c, server) ==
  /\ vault' = With(vault, c, server)
  /\ apart' = (apart \/ Target(vault') # Target(vault))
  /\ UNCHANGED <<pools, sessions>>

(* auth:logout, the sweeper, a password changed elsewhere.                 *)
SessionEnds ==
  /\ \E s \in sessions : sessions' = sessions \ {s}
  /\ UNCHANGED <<vault, pools, apart>>
=============================================================================
