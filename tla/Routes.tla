------------------------------- MODULE Routes -------------------------------
(***************************************************************************)
(* Which database a call of a browser window is given: the stored choice   *)
(* of the user, the module variables that cache the last adapter, and the  *)
(* acquisitions under way.                                                 *)
(*                                                                         *)
(* An acquisition that takes longer than 15 seconds fails its caller and   *)
(* goes on by itself.  Every await of acquireDbAdapter is a step.          *)
(***************************************************************************)
EXTENDS Engine

VARIABLES
  server,    \* the server's adapter: "neon" or "relay", "electron" on a desktop
  mode,      \* the stored backend: "pglite" or "pg"
  explicit,  \* the user has picked it
  fresh,     \* the onboarding is not completed
  cache,     \* adapter, adapterMode, and whether the last ping is recent
  acq,       \* acquisitions: where each is, the mode it read, the adapter
             \* it pings, and the one it has returned
  crossed    \* history: acquisitions during which the mode changed

routes == <<server, mode, explicit, fresh, cache, acq, crossed>>

Modes == {"pglite", "pg"}
DbAdapters == {"pglite", "server"}
AdapterOf == [m \in Modes |-> IF m = "pglite" THEN "pglite" ELSE "server"]

Acquisition(at, want, pinged, got) == [at |-> at, want |-> want, pinged |-> pinged, got |-> got]
NotAsked == Acquisition("start", "pglite", "none", "pending")
Under == {"probe", "ping", "open"}

RoutesTypeOK ==
  /\ server \in {"neon", "relay", "electron"}
  /\ mode \in Modes /\ explicit \in BOOLEAN /\ fresh \in BOOLEAN /\ crossed \subseteq Flows
  /\ cache \in [adapter : DbAdapters \cup {"none"}, mode : Modes, trusted : BOOLEAN]
  /\ acq \in [Flows -> [at : {"start", "done"} \cup Under, want : Modes,
                        pinged : DbAdapters \cup {"none"},
                        got : DbAdapters \cup {"pending", "none", "failed"}]]

Empty == [adapter |-> "none", mode |-> "pglite", trusted |-> FALSE]

RoutesInit ==
  /\ server \in {"neon", "relay", "electron"}
  /\ mode \in Modes /\ fresh \in BOOLEAN
  /\ explicit \in BOOLEAN /\ (mode = "pg" => explicit)
  /\ cache = Empty
  /\ acq = [f \in Flows |-> NotAsked]
  /\ crossed = {}

-----------------------------------------------------------------------------
Moves(f, a) == acq' = [acq EXCEPT ![f] = a]
Returns(f, adapter) == Moves(f, Acquisition("done", "pglite", "none", adapter))
Fails(f) == Returns(f, "failed")

\* The mode changes under the acquisitions that have read it.
Crosses(m) ==
  crossed' = IF m = mode THEN crossed ELSE crossed \cup {f \in Flows : acq[f].at \in Under}

(* Only a desktop that never finished the wizard and whose user never      *)
(* picked a backend asks whether there is a server.                        *)
Asks == server = "electron" /\ mode = "pglite" /\ ~explicit /\ fresh

\* Faulty: the adapter in use serves whatever the mode.
FaultyReuse(f, m) ==
  IF cache.adapter # "none"
  THEN IF cache.trusted THEN Returns(f, cache.adapter)
                        ELSE Moves(f, Acquisition("ping", m, cache.adapter, "pending"))
  ELSE Moves(f, Acquisition("open", m, "none", "pending"))

(* The adapter in use serves if the mode is still its own: at once when    *)
(* its last ping is recent, else after another.                            *)
Reuse(f, m) ==
  IF cache.adapter # "none" /\ cache.mode = m
  THEN IF cache.trusted THEN Returns(f, cache.adapter)
                        ELSE Moves(f, Acquisition("ping", m, cache.adapter, "pending"))
  ELSE Moves(f, Acquisition("open", m, "none", "pending"))

StartAcquire(f) ==
  /\ acq[f].at = "start"
  /\ IF Asks THEN Moves(f, Acquisition("probe", mode, "none", "pending")) ELSE Reuse(f, mode)
  /\ UNCHANGED <<engine, server, mode, explicit, fresh, cache, crossed>>

(* The answer of the main process is stored, so that everybody agrees with *)
(* the adapter in use.                                                     *)
Probed(f) ==
  /\ acq[f].at = "probe"
  /\ \E m \in Modes :
       /\ mode' = IF m = acq[f].want THEN mode ELSE m
       /\ Crosses(mode') /\ Reuse(f, m)
  /\ UNCHANGED <<engine, server, explicit, fresh, cache>>

\* A ping is a SELECT: PGlite answers it in the session, a server at will.
Pings(adapter, ok) ==
  IF adapter = "pglite"
  THEN Answers(Request("SELECT", NoWrite), ok) \/ (~ok /\ GivesUp(Request("SELECT", NoWrite)))
  ELSE UNCHANGED engine

(* The variable is returned after the await: what it holds by then.        *)
Pinged(f) ==
  /\ acq[f].at = "ping"
  /\ \E ok \in BOOLEAN :
       /\ Pings(acq[f].pinged, ok)
       /\ IF ok THEN /\ cache' = [cache EXCEPT !.trusted = TRUE]
                     /\ Returns(f, cache.adapter)
                ELSE /\ cache' = [cache EXCEPT !.adapter = "none"]
                     /\ Moves(f, [acq[f] EXCEPT !.at = "open"])
  /\ UNCHANGED <<server, mode, explicit, fresh, crossed>>

(* Each backend is tried under its own mode only; when it does not answer  *)
(* there is no other.  The failure of a remote one clears the cache, that  *)
(* of PGlite, of the desktop's channel or of a missing URL does not.       *)
Opened(f) ==
  /\ acq[f].at = "open"
  /\ \E ok \in BOOLEAN :
       LET adapter == AdapterOf[acq[f].want] IN
       /\ Pings(adapter, ok)
       /\ IF ok THEN /\ cache' = [adapter |-> adapter, mode |-> acq[f].want, trusted |-> TRUE]
                     /\ Returns(f, adapter)
                ELSE /\ \/ UNCHANGED cache
                        \/ adapter = "server" /\ server # "electron" /\ cache' = [cache EXCEPT !.adapter = "none"]
                     /\ Fails(f)
  /\ UNCHANGED <<server, mode, explicit, fresh, crossed>>

\* Thirty seconds without a ping.
TrustExpires ==
  /\ cache.trusted
  /\ cache' = [cache EXCEPT !.trusted = FALSE]
  /\ UNCHANGED <<engine, server, mode, explicit, fresh, acq, crossed>>

-----------------------------------------------------------------------------
(* What the user does. *)

\* Settings, the wizard's Next and the error screen pin the choice.
Choose(m) ==
  /\ mode' = m /\ explicit' = TRUE
  /\ Crosses(m)
  /\ UNCHANGED <<engine, server, fresh, cache, acq>>

\* The wizard's test of the local database does not.
TestLocal ==
  /\ fresh /\ mode' = "pglite"
  /\ Crosses("pglite")
  /\ UNCHANGED <<engine, server, explicit, fresh, cache, acq>>

RoutesReload ==
  /\ cache' = Empty /\ crossed' = {}
  /\ acq' = [f \in Flows |-> IF acq[f].at = "start" THEN NotAsked ELSE Acquisition("done", "pglite", "none", "failed")]
  /\ UNCHANGED <<server, mode, explicit>>
=============================================================================
