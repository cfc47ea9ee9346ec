------------------------------ MODULE AdminServer ------------------------------
(***************************************************************************)
(* The sessions of an admin server: /start starts the plugins of a new     *)
(* session and then registers it, and a session is stopped by its own      *)
(* /stop, by a /reset, by an error of its stream, or by the stop() of the  *)
(* server, all of which may overlap.                                       *)
(*                                                                         *)
(* What follows in microtasks, when the last plugin of a session settles,  *)
(* is part of that step.                                                   *)
(***************************************************************************)
EXTENDS Integers

CONSTANTS
    Session, \* the sessions that clients ask for, numbered in the order of their /start
    Plugin,  \* the plugins of a session
    Call     \* calls of /stop, /reset and stop(), numbered in the order they are made

ASSUME ServerAssumption ==
    /\ Session \subseteq Nat
    /\ Call \subseteq Nat
    /\ Plugin # {}

VARIABLES
    server,   \* this.server: null ("down"), listening, not listening, or being destroyed
    sessions, \* the keys of this.sessions
    phase,    \* how far the start, and then the stop, of a session is
    plugin,   \* the state of a plugin of a session
    stream,   \* the stream websocket of a session; "ended" is a close with 1000
    at,       \* where each call is
    kind,     \* what is called
    waits     \* the sessions whose stop a call awaits

callVars == <<at, kind, waits>>
vars == <<server, sessions, phase, plugin, stream, callVars>>

TypeOK ==
    /\ server \in {"down", "up", "broken", "closing"}
    /\ sessions = {s \in Session : phase[s] = "live"}
    /\ phase \in [Session -> {"none", "starting", "failed", "live", "stopping", "stopped",
                              "stopFailed"}]
    /\ plugin \in [Session \X Plugin ->
                      {"none", "starting", "running", "failed", "stopping", "stopped",
                       "stopFailed"}]
    /\ stream \in [Session -> {"none", "open", "ended"}]
    /\ at \in [Call -> {"new", "waiting", "destroying", "returned", "threw"}]
    /\ kind \in [Call -> {"stop", "reset", "server"}]
    /\ waits \in [Call -> SUBSET Session]

Init ==
    /\ server = "down"
    /\ sessions = {}
    /\ phase = [s \in Session |-> "none"]
    /\ plugin = [x \in Session \X Plugin |-> "none"]
    /\ stream = [s \in Session |-> "none"]
    /\ at = [c \in Call |-> "new"]
    /\ kind = [c \in Call |-> "stop"]
    /\ waits = [c \in Call |-> {}]

All(s, state) == \A p \in Plugin : plugin[s, p] = state

-----------------------------------------------------------------------------
(* start() and /start *)

Start ==
    /\ server = "down"
    /\ server' = "up"
    /\ UNCHANGED <<sessions, phase, plugin, stream, callVars>>

\* It cannot listen: start() throws, with this.server set.
StartFails ==
    /\ server = "down"
    /\ server' = "broken"
    /\ UNCHANGED <<sessions, phase, plugin, stream, callVars>>

\* /start calls the start() of every plugin at once.
StartSession(s) ==
    /\ server = "up"
    /\ phase[s] = "none" /\ \A t \in Session : t < s => phase[t] # "none"
    /\ phase' = [phase EXCEPT ![s] = "starting"]
    /\ plugin' = [x \in Session \X Plugin |-> IF x[1] = s THEN "starting" ELSE plugin[x]]
    /\ UNCHANGED <<server, sessions, stream, callVars>>

\* Mutant: the session is registered as soon as one plugin has started.
PluginStartsRegistered(s, p) ==
    /\ plugin[s, p] = "starting"
    /\ plugin' = [plugin EXCEPT ![<<s, p>>] = "running"]
    /\ IF phase[s] = "starting"
          THEN /\ phase' = [phase EXCEPT ![s] = "live"]
               /\ sessions' = sessions \cup {s}
          ELSE UNCHANGED <<phase, sessions>>
    /\ UNCHANGED <<server, stream, callVars>>

\* The last plugin to start registers the session, even if the server is gone.
PluginStarts(s, p) ==
    /\ plugin[s, p] = "starting"
    /\ plugin' = [plugin EXCEPT ![<<s, p>>] = "running"]
    /\ IF \A q \in Plugin : plugin'[s, q] = "running"
          THEN /\ phase' = [phase EXCEPT ![s] = "live"]
               /\ sessions' = sessions \cup {s}
          ELSE UNCHANGED <<phase, sessions>>
    /\ UNCHANGED <<server, stream, callVars>>

\* A failed plugin fails /start at once; the other plugins are left alone.
PluginStartFails(s, p) ==
    /\ plugin[s, p] = "starting"
    /\ plugin' = [plugin EXCEPT ![<<s, p>>] = "failed"]
    /\ phase' = [phase EXCEPT ![s] = "failed"]
    /\ UNCHANGED <<server, sessions, stream, callVars>>

-----------------------------------------------------------------------------
(* Streams *)

\* An upgrade request finds the session that it names.
StreamConnects(s) ==
    /\ server = "up"
    /\ s \in sessions
    /\ stream[s] = "none"
    /\ stream' = [stream EXCEPT ![s] = "open"]
    /\ UNCHANGED <<server, sessions, phase, plugin, callVars>>

\* The client closes its stream, or loses it.
StreamLost(s) ==
    /\ stream[s] = "open"
    /\ stream' = [stream EXCEPT ![s] = "none"]
    /\ UNCHANGED <<server, sessions, phase, plugin, callVars>>

-----------------------------------------------------------------------------
(* stopSession() *)

\* Mutant: a session remains registered until its plugins have stopped.
BeginStopRegistered(S) ==
    /\ phase' = [s \in Session |-> IF s \in S THEN "stopping" ELSE phase[s]]
    /\ plugin' = [x \in Session \X Plugin |-> IF x[1] \in S THEN "stopping" ELSE plugin[x]]
    /\ UNCHANGED <<server, sessions, stream>>

\* stopSession() of each of the sessions S, all of them registered.
BeginStop(S) ==
    /\ sessions' = sessions \ S
    /\ phase' = [s \in Session |-> IF s \in S THEN "stopping" ELSE phase[s]]
    /\ plugin' = [x \in Session \X Plugin |-> IF x[1] \in S THEN "stopping" ELSE plugin[x]]
    /\ UNCHANGED <<server, stream>>

\* Mutant: the stream is closed as the first plugin stops.
PluginStopsClosing(s, p) ==
    /\ plugin[s, p] = "stopping"
    /\ plugin' = [plugin EXCEPT ![<<s, p>>] = "stopped"]
    /\ phase' = [phase EXCEPT ![s] = IF \A q \in Plugin : plugin'[s, q] = "stopped"
                                        THEN "stopped" ELSE @]
    /\ stream' = [stream EXCEPT ![s] = IF @ = "open" THEN "ended" ELSE @]
    /\ UNCHANGED <<server, sessions, callVars>>

\* Mutant: the stream is not closed.
PluginStopsOpen(s, p) ==
    /\ plugin[s, p] = "stopping"
    /\ plugin' = [plugin EXCEPT ![<<s, p>>] = "stopped"]
    /\ phase' = [phase EXCEPT ![s] = IF \A q \in Plugin : plugin'[s, q] = "stopped"
                                        THEN "stopped" ELSE @]
    /\ UNCHANGED <<server, sessions, stream, callVars>>

\* When the last plugin has stopped, the streams are closed, with code 1000.
PluginStops(s, p) ==
    /\ plugin[s, p] = "stopping"
    /\ plugin' = [plugin EXCEPT ![<<s, p>>] = "stopped"]
    /\ IF \A q \in Plugin : plugin'[s, q] = "stopped"
          THEN /\ phase' = [phase EXCEPT ![s] = "stopped"]
               /\ stream' = [stream EXCEPT ![s] = IF @ = "open" THEN "ended" ELSE @]
          ELSE UNCHANGED <<phase, stream>>
    /\ UNCHANGED <<server, sessions, callVars>>

\* Mutant: the failure is swallowed, and the stop never settles.
PluginStopFailsQuietly(s, p) ==
    /\ plugin[s, p] = "stopping"
    /\ plugin' = [plugin EXCEPT ![<<s, p>>] = "stopFailed"]
    /\ UNCHANGED <<server, sessions, phase, stream, callVars>>

\* A plugin that fails to stop fails the stop, which closes nothing.
PluginStopFails(s, p) ==
    /\ plugin[s, p] = "stopping"
    /\ plugin' = [plugin EXCEPT ![<<s, p>>] = "stopFailed"]
    /\ phase' = [phase EXCEPT ![s] = "stopFailed"]
    /\ UNCHANGED <<server, sessions, stream, callVars>>

\* An error on the stream of a running session stops it, for nobody in particular.
StreamError(s) ==
    /\ s \in sessions
    /\ BeginStop({s})
    /\ UNCHANGED callVars

-----------------------------------------------------------------------------
(* /stop, /reset and stop() *)

IsNext(c) == at[c] = "new" /\ \A d \in Call : d < c => at[d] # "new"

\* Call c stops the sessions S and awaits those stops.
CallFor(c, k, S) ==
    /\ IsNext(c)
    /\ at' = [at EXCEPT ![c] = "waiting"]
    /\ kind' = [kind EXCEPT ![c] = k]
    /\ waits' = [waits EXCEPT ![c] = S]
    /\ BeginStop(S)

\* A client requests /stop; a session that is not registered (any more) is a 404.
CallStop(c, s) ==
    /\ server = "up"
    /\ CallFor(c, "stop", sessions \cap {s})

\* /reset stops the sessions that are registered.
CallReset(c) ==
    /\ server = "up"
    /\ CallFor(c, "reset", sessions)

\* stop() stops them too, if the server is up; the server is destroyed later.
CallServerStop(c) ==
    \/ /\ server # "down"
       /\ CallFor(c, "server", sessions)
    \/ /\ server = "down"
       /\ IsNext(c)
       /\ at' = [at EXCEPT ![c] = "returned"]
       /\ kind' = [kind EXCEPT ![c] = "server"]
       /\ UNCHANGED <<server, sessions, phase, plugin, stream, waits>>

AllStopped(c) == \A s \in waits[c] : phase[s] = "stopped"

\* The handler of /stop or /reset responds.
CallReturns(c) ==
    /\ at[c] = "waiting" /\ kind[c] # "server"
    /\ AllStopped(c)
    /\ at' = [at EXCEPT ![c] = "returned"]
    /\ UNCHANGED <<server, sessions, phase, plugin, stream, kind, waits>>

\* One of the stops failed: a 500, or stop() throws and leaves the server up.
CallFails(c) ==
    /\ at[c] = "waiting"
    /\ \E s \in waits[c] : phase[s] = "stopFailed"
    /\ at' = [at EXCEPT ![c] = "threw"]
    /\ UNCHANGED <<server, sessions, phase, plugin, stream, kind, waits>>

\* Mutant: stop() destroys the server without waiting for the sessions.
DestroyAtOnce(c) ==
    /\ at[c] = "waiting" /\ kind[c] = "server"
    /\ server' = "closing"
    /\ stream' = [s \in Session |-> IF stream[s] = "open" THEN "none" ELSE stream[s]]
    /\ at' = [at EXCEPT ![c] = "destroying"]
    /\ UNCHANGED <<sessions, phase, plugin, kind, waits>>

\* stop() destroys the server, with all its connections.
Destroy(c) ==
    /\ at[c] = "waiting" /\ kind[c] = "server"
    /\ AllStopped(c)
    /\ server # "down"
    /\ server' = IF server = "broken" THEN server ELSE "closing"
    /\ stream' = [s \in Session |-> IF stream[s] = "open" THEN "none" ELSE stream[s]]
    /\ at' = [at EXCEPT ![c] = "destroying"]
    /\ UNCHANGED <<sessions, phase, plugin, kind, waits>>

\* A stop() that overlapped this one has destroyed the server: a TypeError.
DestroyNothing(c) ==
    /\ at[c] = "waiting" /\ kind[c] = "server"
    /\ AllStopped(c)
    /\ server = "down"
    /\ at' = [at EXCEPT ![c] = "threw"]
    /\ UNCHANGED <<server, sessions, phase, plugin, stream, kind, waits>>

\* The server is closed; to close it twice, or when it never listened, may be an error.
Destroyed(c) ==
    /\ at[c] = "destroying"
    /\ \/ /\ at' = [at EXCEPT ![c] = "returned"]
          /\ server' = "down"
       \/ /\ server # "closing" \/ \E d \in Call \ {c} : at[d] = "destroying"
          /\ at' = [at EXCEPT ![c] = "threw"]
          /\ UNCHANGED server
    /\ UNCHANGED <<sessions, phase, plugin, stream, kind, waits>>

-----------------------------------------------------------------------------
PluginSettles(s, p) ==
    \/ PluginStarts(s, p) \/ PluginStartFails(s, p)
    \/ PluginStops(s, p) \/ PluginStopFails(s, p)

CallProceeds(c) ==
    CallReturns(c) \/ CallFails(c) \/ Destroy(c) \/ DestroyNothing(c) \/ Destroyed(c)

Next ==
    \/ Start \/ StartFails
    \/ \E s \in Session :
          \/ StartSession(s)
          \/ StreamConnects(s) \/ StreamLost(s) \/ StreamError(s)
          \/ \E p \in Plugin : PluginSettles(s, p)
          \/ \E c \in Call : CallStop(c, s)
    \/ \E c \in Call : CallReset(c) \/ CallServerStop(c) \/ CallProceeds(c)

Spec == Init /\ [][Next]_vars

(***************************************************************************)
(* Plugins settle their start() and stop(), and the server goes on when    *)
(* they have.                                                              *)
(***************************************************************************)
FairSpec ==
    /\ Spec
    /\ \A s \in Session, p \in Plugin : WF_vars(PluginSettles(s, p))
    /\ \A c \in Call : WF_vars(CallProceeds(c))

-----------------------------------------------------------------------------
(* Properties *)

(***************************************************************************)
(* A request or a websocket that is routed to a session finds all of its   *)
(* plugins running: a session is registered only after the last of them    *)
(* has started and deleted before the first of them stops.                 *)
(***************************************************************************)
RoutedSessionRuns == \A s \in sessions : All(s, "running")

(***************************************************************************)
(* A client takes the closure of its stream with code 1000 for the end of  *)
(* the session: by then all its plugins have stopped.                      *)
(***************************************************************************)
CleanCloseMeansStopped == \A s \in Session : stream[s] = "ended" => All(s, "stopped")

(***************************************************************************)
(* A stop, a reset or the stop() of the server that succeeds has stopped   *)
(* every plugin of every session that it could find, however the calls     *)
(* overlap: what was registered runs until some stop, its own or another's.*)
(***************************************************************************)
SuccessMeansStopped ==
    \A c \in Call :
        at[c] = "returned" =>
            \A s \in waits[c] : All(s, "stopped") /\ stream[s] # "open"

\* Stopped is stopped, for the clients and for those who call.
StopsAreWhole == CleanCloseMeansStopped /\ SuccessMeansStopped

(***************************************************************************)
(* Every call ends, in success or failure.                                 *)
(***************************************************************************)
CallsReturn == \A c \in Call : at[c] = "waiting" ~> at[c] \in {"returned", "threw"}

(***************************************************************************)
(* The clients of a session that is stopping hear of it, unless a plugin   *)
(* fails to stop.                                                          *)
(***************************************************************************)
StreamsClose ==
    \A s \in Session :
        phase[s] = "stopping" ~>
            stream[s] # "open" \/ \E p \in Plugin : plugin[s, p] = "stopFailed"

\* Stops settle, for those who call and for the clients.
StopsSettle == CallsReturn /\ StreamsClose

=============================================================================
