--------------------------- MODULE AdminServer_proofs ---------------------------
(***************************************************************************)
(* Theorems of AdminServer, for any number of sessions, plugins and calls  *)
(* that overlap: the phase of a session says how far its plugins and its   *)
(* stream are, and a session that stopped remains stopped.                 *)
(***************************************************************************)
EXTENDS AdminServer, TLAPS

Some(s, state) == \E p \in Plugin : plugin[s, p] = state

AllIn(s, states) == \A p \in Plugin : plugin[s, p] \in states

\* What the phase of a session means for its plugins and its stream.
SessionOK(s) ==
    /\ phase[s] = "none" => All(s, "none") /\ stream[s] = "none"
    /\ phase[s] = "starting" =>
           AllIn(s, {"starting", "running"}) /\ Some(s, "starting") /\ stream[s] = "none"
    /\ phase[s] = "failed" =>
           /\ AllIn(s, {"starting", "running", "failed"}) /\ Some(s, "failed")
           /\ stream[s] = "none"
    /\ phase[s] = "live" => All(s, "running") /\ stream[s] \in {"none", "open"}
    /\ phase[s] = "stopping" =>
           AllIn(s, {"stopping", "stopped"}) /\ Some(s, "stopping") /\ stream[s] # "ended"
    /\ phase[s] = "stopped" => All(s, "stopped") /\ stream[s] # "open"
    /\ phase[s] = "stopFailed" =>
           /\ AllIn(s, {"stopping", "stopped", "stopFailed"}) /\ Some(s, "stopFailed")
           /\ stream[s] # "ended"

SessionsOK == \A s \in Session : SessionOK(s)

\* A call that has succeeded, or waits for the server alone, waited for what is stopped.
CallsOK ==
    \A c \in Call :
        /\ at[c] = "new" => waits[c] = {}
        /\ at[c] \in {"destroying", "returned"} => AllStopped(c)

IInv == TypeOK /\ SessionsOK /\ CallsOK

LEMMA InitIInv == Init => IInv
<1> SUFFICES ASSUME Init
             PROVE  IInv
    OBVIOUS
<1>1. TypeOK
    BY DEF Init, TypeOK
<1>2. SessionsOK
    BY DEF Init, SessionsOK, SessionOK, All, AllIn, Some
<1>3. CallsOK
    BY DEF Init, CallsOK
<1> QED BY <1>1, <1>2, <1>3 DEF IInv

-----------------------------------------------------------------------------
(* What steps do to sessions.                                              *)

\* The types of sessions, kept as names.
Phases == [Session -> {"none", "starting", "failed", "live", "stopping", "stopped", "stopFailed"}]
Plugins ==
    [Session \X Plugin ->
        {"none", "starting", "running", "failed", "stopping", "stopped", "stopFailed"}]
Streams == [Session -> {"none", "open", "ended"}]
ServerAndCallsTyped ==
    /\ server \in {"down", "up", "broken", "closing"}
    /\ at \in [Call -> {"new", "waiting", "destroying", "returned", "threw"}]
    /\ kind \in [Call -> {"stop", "reset", "server"}]
    /\ waits \in [Call -> SUBSET Session]

LEMMA SessionTypes ==
    /\ TypeOK <=> /\ sessions = {s \in Session : phase[s] = "live"}
                  /\ phase \in Phases /\ plugin \in Plugins /\ stream \in Streams
                  /\ ServerAndCallsTyped
    /\ TypeOK' <=> /\ sessions' = {s \in Session : phase'[s] = "live"}
                   /\ phase' \in Phases /\ plugin' \in Plugins /\ stream' \in Streams
                   /\ ServerAndCallsTyped'
BY Zenon DEF TypeOK, Phases, Plugins, Streams, ServerAndCallsTyped

\* A step of sessions leaves the server and the calls alone.
LEMMA SessionsTyped ==
    ASSUME TypeOK, UNCHANGED <<server, callVars>>,
           sessions' = {s \in Session : phase'[s] = "live"},
           phase' \in Phases, plugin' \in Plugins, stream' \in Streams
    PROVE  TypeOK'
<1>1. UNCHANGED <<server, at, kind, waits>>
    BY DEF callVars
<1>2. ServerAndCallsTyped'
    BY <1>1, SessionTypes DEF ServerAndCallsTyped
<1> QED BY <1>2, SessionTypes

\* A plugin of a session goes on to one of the states that they may have.
LEMMA OnePluginMoves ==
    ASSUME NEW s \in Session, NEW p \in Plugin, NEW states, AllIn(s, states),
           plugin'[s, p] \in states, \A q \in Plugin \ {p} : plugin'[s, q] = plugin[s, q]
    PROVE  AllIn(s, states)'
BY DEF AllIn

\* Of the plugins that are each in one of two states, some are not in the second.
LEMMA SomeRemain ==
    ASSUME NEW s \in Session, NEW x, NEW y, AllIn(s, {x, y})', \E q \in Plugin : plugin'[s, q] # y
    PROVE  Some(s, x)'
BY DEF AllIn, Some

\* Session s is as it was.
Same(s) ==
    /\ phase'[s] = phase[s] /\ stream'[s] = stream[s]
    /\ \A p \in Plugin : plugin'[s, p] = plugin[s, p]

LEMMA SameSession ==
    ASSUME NEW s \in Session, SessionOK(s), Same(s)
    PROVE  SessionOK(s)'
BY DEF SessionOK, Same, All, AllIn, Some

\* A session changes, and it was not stopped.
LEMMA SessionStep ==
    ASSUME IInv, TypeOK', NEW s \in Session, SessionOK(s)',
           \A t \in Session \ {s} : Same(t),
           phase[s] = "stopped" => phase'[s] = "stopped",
           UNCHANGED callVars
    PROVE  IInv'
<1>1. SessionsOK'
    BY SameSession DEF IInv, SessionsOK
<1>2. \A t \in Session : phase[t] = "stopped" => phase'[t] = "stopped"
    BY DEF Same
<1>3. UNCHANGED <<at, waits>> /\ waits \in [Call -> SUBSET Session]
    BY DEF callVars, IInv, TypeOK
<1>4. CallsOK'
    BY <1>2, <1>3 DEF IInv, CallsOK, AllStopped
<1> QED BY <1>1, <1>4 DEF IInv

\* No session changes.
LEMMA CallStep ==
    ASSUME IInv, TypeOK', CallsOK', UNCHANGED <<phase, plugin>>,
           \A s \in Session :
               stream'[s] = stream[s] \/ (stream[s] = "open" /\ stream'[s] = "none")
    PROVE  IInv'
<1>1. ASSUME NEW s \in Session
      PROVE  SessionOK(s)'
  <2>1. SessionOK(s) /\ phase'[s] = phase[s]
      BY DEF IInv, SessionsOK
  <2>2. CASE stream'[s] = stream[s]
      BY <2>1, <2>2, SameSession DEF Same
  <2>3. CASE stream[s] = "open" /\ stream'[s] = "none"
      BY <2>1, <2>3 DEF SessionOK, All, AllIn, Some
  <2> QED BY <2>2, <2>3
<1>2. SessionsOK'
    BY <1>1 DEF SessionsOK
<1> QED BY <1>2 DEF IInv

LEMMA StartSessionStep ==
    ASSUME IInv, NEW s \in Session, StartSession(s)
    PROVE  IInv'
<1> USE DEF IInv, StartSession
<1>1. TypeOK'
    BY DEF TypeOK, callVars
<1>2. \A t \in Session \ {s} : Same(t)
    BY DEF Same, TypeOK
<1>3. /\ phase'[s] = "starting" /\ stream'[s] = "none"
      /\ \A p \in Plugin : plugin'[s, p] = "starting"
    BY DEF SessionsOK, SessionOK, TypeOK
<1>4. SessionOK(s)'
    BY <1>3, ServerAssumption DEF SessionOK, All, AllIn, Some
<1> QED BY <1>1, <1>2, <1>4, SessionStep

LEMMA StreamStep ==
    ASSUME IInv, NEW s \in Session, StreamConnects(s) \/ StreamLost(s)
    PROVE  IInv'
<1> USE DEF IInv, StreamConnects, StreamLost
<1>1. TypeOK'
    BY DEF TypeOK, callVars
<1>2. \A t \in Session \ {s} : Same(t)
    BY DEF Same, TypeOK
<1>3. UNCHANGED <<phase, plugin>> /\ stream'[s] \in {"open", "none"}
    BY DEF TypeOK
<1>4. phase[s] = "live" \/ (phase[s] \in {"stopping", "stopFailed"} /\ stream'[s] = "none")
    BY DEF TypeOK, SessionsOK, SessionOK
<1>5. SessionOK(s)'
    BY <1>3, <1>4 DEF SessionsOK, SessionOK, All, AllIn, Some
<1> QED BY <1>1, <1>2, <1>3, <1>5, SessionStep

\* Plugin p of session s settles as `state`.
LEMMA PluginTypes ==
    ASSUME TypeOK, NEW s \in Session, NEW p \in Plugin,
           NEW state \in {"running", "failed", "stopped", "stopFailed"},
           plugin' = [plugin EXCEPT ![<<s, p>>] = state]
    PROVE  /\ plugin' \in Plugins
           /\ \A t \in Session \ {s}, q \in Plugin : plugin'[t, q] = plugin[t, q]
           /\ \A q \in Plugin \ {p} : plugin'[s, q] = plugin[s, q]
           /\ plugin'[s, p] = state
<1>1. plugin \in Plugins
    BY SessionTypes
<1> QED BY <1>1 DEF Plugins

\* The phase of session s changes.
LEMMA PhaseTypes ==
    ASSUME TypeOK, NEW s \in Session,
           NEW new \in {"failed", "live", "stopped", "stopFailed"},
           phase' = [phase EXCEPT ![s] = new]
    PROVE  /\ phase' \in Phases /\ phase'[s] = new
           /\ \A t \in Session \ {s} : phase'[t] = phase[t]
<1>1. phase \in Phases
    BY SessionTypes
<1> QED BY <1>1 DEF Phases

LEMMA RegisteredSession ==
    ASSUME TypeOK, NEW s \in Session, phase' = [phase EXCEPT ![s] = "live"],
           sessions' = sessions \cup {s}
    PROVE  sessions' = {t \in Session : phase'[t] = "live"}
<1>1. \A t \in Session : phase'[t] = "live" <=> (t = s \/ phase[t] = "live")
    BY PhaseTypes
<1>2. sessions = {t \in Session : phase[t] = "live"}
    BY SessionTypes
<1> QED BY <1>1, <1>2

LEMMA UnregisteredSession ==
    ASSUME TypeOK, NEW s \in Session, phase[s] # "live",
           NEW new \in {"failed", "stopped", "stopFailed"}, phase' = [phase EXCEPT ![s] = new],
           UNCHANGED sessions
    PROVE  sessions' = {t \in Session : phase'[t] = "live"}
<1>1. \A t \in Session : phase'[t] = "live" <=> phase[t] = "live"
    BY PhaseTypes
<1>2. sessions = {t \in Session : phase[t] = "live"}
    BY SessionTypes
<1> QED BY <1>1, <1>2

LEMMA ClosedStream ==
    ASSUME TypeOK, NEW s \in Session,
           stream' = [stream EXCEPT ![s] = IF @ = "open" THEN "ended" ELSE @]
    PROVE  /\ stream' \in Streams
           /\ stream'[s] # "open"
           /\ \A t \in Session \ {s} : stream'[t] = stream[t]
<1>1. stream \in Streams
    BY SessionTypes
<1> QED BY <1>1 DEF Streams

\* A plugin that starts belongs to a session that starts or has failed.
LEMMA StartingSession ==
    ASSUME IInv, NEW s \in Session, NEW p \in Plugin, plugin[s, p] = "starting"
    PROVE  /\ SessionOK(s) /\ phase[s] \in {"starting", "failed"} /\ stream[s] = "none"
           /\ AllIn(s, {"starting", "running", "failed"})
<1>1. SessionOK(s) /\ phase \in Phases
    BY SessionTypes DEF IInv, SessionsOK
<1>2. phase[s] \in {"starting", "failed"}
    BY <1>1 DEF SessionOK, All, AllIn, Phases
<1> QED BY <1>1, <1>2 DEF SessionOK, AllIn

\* A plugin that stops belongs to a session that stops or could not.
LEMMA StoppingSession ==
    ASSUME IInv, NEW s \in Session, NEW p \in Plugin, plugin[s, p] = "stopping"
    PROVE  /\ SessionOK(s) /\ phase[s] \in {"stopping", "stopFailed"} /\ stream[s] # "ended"
           /\ AllIn(s, {"stopping", "stopped", "stopFailed"})
<1>1. SessionOK(s) /\ phase \in Phases
    BY SessionTypes DEF IInv, SessionsOK
<1>2. phase[s] \in {"stopping", "stopFailed"}
    BY <1>1 DEF SessionOK, All, AllIn, Phases
<1> QED BY <1>1, <1>2 DEF SessionOK, AllIn

LEMMA PluginStartsStep ==
    ASSUME IInv, NEW s \in Session, NEW p \in Plugin, PluginStarts(s, p)
    PROVE  IInv'
<1>1. TypeOK /\ UNCHANGED <<server, callVars>> /\ phase \in Phases /\ stream \in Streams
    BY SessionTypes DEF IInv, PluginStarts
<1>2. /\ plugin' \in Plugins
      /\ \A t \in Session \ {s}, q \in Plugin : plugin'[t, q] = plugin[t, q]
      /\ \A q \in Plugin \ {p} : plugin'[s, q] = plugin[s, q]
      /\ plugin'[s, p] = "running"
    BY <1>1, PluginTypes DEF PluginStarts
<1>3. plugin[s, p] = "starting"
    BY DEF PluginStarts
<1>4. /\ SessionOK(s) /\ phase[s] \in {"starting", "failed"}
      /\ stream[s] = "none"
      /\ AllIn(s, {"starting", "running", "failed"})
    BY <1>3, StartingSession
<1>5. AllIn(s, {"starting", "running", "failed"})'
    BY <1>2, <1>4, OnePluginMoves
<1>6. CASE \A q \in Plugin : plugin'[s, q] = "running"
  <2>1. phase' = [phase EXCEPT ![s] = "live"] /\ sessions' = sessions \cup {s}
      BY <1>6 DEF PluginStarts
  <2>2. /\ phase' \in Phases /\ phase'[s] = "live"
        /\ \A t \in Session \ {s} : phase'[t] = phase[t]
      BY <1>1, <2>1, PhaseTypes
  <2>3. stream' = stream /\ stream' \in Streams
      BY <1>1 DEF PluginStarts
  <2>4. sessions' = {t \in Session : phase'[t] = "live"}
      BY <1>1, <2>1, RegisteredSession
  <2>5. TypeOK'
      BY <1>1, <1>2, <2>2, <2>3, <2>4, SessionsTyped
  <2>6. \A t \in Session \ {s} : Same(t)
      BY <1>2, <2>2, <2>3 DEF Same
  <2>7. SessionOK(s)'
      BY <1>4, <1>6, <2>2, <2>3 DEF SessionOK, All
  <2> QED BY <1>1, <1>4, <2>5, <2>6, <2>7, SessionStep
<1>7. CASE ~(\A q \in Plugin : plugin'[s, q] = "running")
  <2>1. UNCHANGED <<phase, sessions, stream>>
      BY <1>7 DEF PluginStarts
  <2>2. TypeOK'
      BY <1>1, <1>2, <2>1, SessionTypes, SessionsTyped
  <2>3. \A t \in Session \ {s} : Same(t)
      BY <1>2, <2>1 DEF Same
  <2>4. phase[s] = "starting" => AllIn(s, {"starting", "running"})' /\ Some(s, "starting")'
    <3>1. ASSUME phase[s] = "starting"
          PROVE  AllIn(s, {"starting", "running"})'
      <4>1. AllIn(s, {"starting", "running"})
          BY <1>4, <3>1 DEF SessionOK
      <4> QED BY <1>2, <4>1, OnePluginMoves
    <3> QED BY <1>7, <3>1, SomeRemain
  <2>5. phase[s] = "failed" => Some(s, "failed")'
    <3>1. ASSUME phase[s] = "failed"
          PROVE  Some(s, "failed")'
      <4>1. PICK q \in Plugin : plugin[s, q] = "failed"
          BY <1>4, <3>1 DEF SessionOK, Some
      <4>2. plugin'[s, q] = "failed"
          BY <1>2, <1>3, <4>1
      <4> QED BY <4>2 DEF Some
    <3> QED BY <3>1
  <2>6. SessionOK(s)'
      BY <1>4, <1>5, <2>1, <2>4, <2>5 DEF SessionOK
  <2> QED BY <1>1, <2>1, <2>2, <2>3, <2>6, SessionStep
<1> QED BY <1>6, <1>7

LEMMA PluginStartFailsStep ==
    ASSUME IInv, NEW s \in Session, NEW p \in Plugin, PluginStartFails(s, p)
    PROVE  IInv'
<1>1. /\ TypeOK /\ UNCHANGED <<server, callVars>> /\ UNCHANGED <<sessions, stream>>
      /\ stream \in Streams /\ plugin[s, p] = "starting"
    BY SessionTypes DEF IInv, PluginStartFails
<1>2. /\ plugin' \in Plugins
      /\ \A t \in Session \ {s}, q \in Plugin : plugin'[t, q] = plugin[t, q]
      /\ \A q \in Plugin \ {p} : plugin'[s, q] = plugin[s, q]
      /\ plugin'[s, p] = "failed"
    BY <1>1, PluginTypes DEF PluginStartFails
<1>3. /\ phase[s] \in {"starting", "failed"}
      /\ stream[s] = "none"
      /\ AllIn(s, {"starting", "running", "failed"})
    BY <1>1, StartingSession
<1>4. AllIn(s, {"starting", "running", "failed"})' /\ Some(s, "failed")'
    BY <1>2, <1>3, OnePluginMoves DEF Some
<1>5. phase' = [phase EXCEPT ![s] = "failed"]
    BY DEF PluginStartFails
<1>6. /\ phase' \in Phases /\ phase'[s] = "failed"
      /\ \A t \in Session \ {s} : phase'[t] = phase[t]
    BY <1>1, <1>5, PhaseTypes
<1>7. sessions' = {t \in Session : phase'[t] = "live"}
    BY <1>1, <1>3, <1>5, UnregisteredSession
<1>8. TypeOK'
    BY <1>1, <1>2, <1>6, <1>7, SessionsTyped
<1>9. \A t \in Session \ {s} : Same(t)
    BY <1>1, <1>2, <1>6 DEF Same
<1>10. SessionOK(s)'
    BY <1>1, <1>3, <1>4, <1>6 DEF SessionOK
<1> QED BY <1>1, <1>3, <1>8, <1>9, <1>10, SessionStep

LEMMA PluginStopsStep ==
    ASSUME IInv, NEW s \in Session, NEW p \in Plugin, PluginStops(s, p)
    PROVE  IInv'
<1>1. TypeOK /\ UNCHANGED <<server, callVars>> /\ phase \in Phases /\ stream \in Streams
    BY SessionTypes DEF IInv, PluginStops
<1>2. /\ plugin' \in Plugins
      /\ \A t \in Session \ {s}, q \in Plugin : plugin'[t, q] = plugin[t, q]
      /\ \A q \in Plugin \ {p} : plugin'[s, q] = plugin[s, q]
      /\ plugin'[s, p] = "stopped"
    BY <1>1, PluginTypes DEF PluginStops
<1>3. plugin[s, p] = "stopping"
    BY DEF PluginStops
<1>4. /\ SessionOK(s) /\ phase[s] \in {"stopping", "stopFailed"}
      /\ stream[s] # "ended"
      /\ AllIn(s, {"stopping", "stopped", "stopFailed"})
    BY <1>3, StoppingSession
<1>5. AllIn(s, {"stopping", "stopped", "stopFailed"})'
    BY <1>2, <1>4, OnePluginMoves
<1>6. CASE \A q \in Plugin : plugin'[s, q] = "stopped"
  <2>1. /\ phase' = [phase EXCEPT ![s] = "stopped"] /\ UNCHANGED sessions
        /\ stream' = [stream EXCEPT ![s] = IF @ = "open" THEN "ended" ELSE @]
      BY <1>6 DEF PluginStops
  <2>2. /\ phase' \in Phases /\ phase'[s] = "stopped"
        /\ \A t \in Session \ {s} : phase'[t] = phase[t]
      BY <1>1, <2>1, PhaseTypes
  <2>3. /\ stream' \in Streams /\ stream'[s] # "open"
        /\ \A t \in Session \ {s} : stream'[t] = stream[t]
      BY <1>1, <2>1, ClosedStream
  <2>4. sessions' = {t \in Session : phase'[t] = "live"}
      BY <1>1, <1>4, <2>1, UnregisteredSession
  <2>5. TypeOK'
      BY <1>1, <1>2, <2>2, <2>3, <2>4, SessionsTyped
  <2>6. \A t \in Session \ {s} : Same(t)
      BY <1>2, <2>2, <2>3 DEF Same
  <2>7. SessionOK(s)'
      BY <1>4, <1>6, <2>2, <2>3 DEF SessionOK, All
  <2> QED BY <1>1, <1>4, <2>5, <2>6, <2>7, SessionStep
<1>7. CASE ~(\A q \in Plugin : plugin'[s, q] = "stopped")
  <2>1. UNCHANGED <<phase, sessions, stream>>
      BY <1>7 DEF PluginStops
  <2>2. TypeOK'
      BY <1>1, <1>2, <2>1, SessionTypes, SessionsTyped
  <2>3. \A t \in Session \ {s} : Same(t)
      BY <1>2, <2>1 DEF Same
  <2>4. phase[s] = "stopping" => AllIn(s, {"stopping", "stopped"})' /\ Some(s, "stopping")'
    <3>1. ASSUME phase[s] = "stopping"
          PROVE  AllIn(s, {"stopping", "stopped"})'
      <4>1. AllIn(s, {"stopping", "stopped"})
          BY <1>4, <3>1 DEF SessionOK
      <4> QED BY <1>2, <4>1, OnePluginMoves
    <3> QED BY <1>7, <3>1, SomeRemain
  <2>5. phase[s] = "stopFailed" => Some(s, "stopFailed")'
    <3>1. ASSUME phase[s] = "stopFailed"
          PROVE  Some(s, "stopFailed")'
      <4>1. PICK q \in Plugin : plugin[s, q] = "stopFailed"
          BY <1>4, <3>1 DEF SessionOK, Some
      <4>2. plugin'[s, q] = "stopFailed"
          BY <1>2, <1>3, <4>1
      <4> QED BY <4>2 DEF Some
    <3> QED BY <3>1
  <2>6. SessionOK(s)'
      BY <1>4, <1>5, <2>1, <2>4, <2>5 DEF SessionOK
  <2> QED BY <1>1, <2>1, <2>2, <2>3, <2>6, SessionStep
<1> QED BY <1>6, <1>7

LEMMA PluginStopFailsStep ==
    ASSUME IInv, NEW s \in Session, NEW p \in Plugin, PluginStopFails(s, p)
    PROVE  IInv'
<1>1. /\ TypeOK /\ UNCHANGED <<server, callVars>> /\ UNCHANGED <<sessions, stream>>
      /\ stream \in Streams /\ plugin[s, p] = "stopping"
    BY SessionTypes DEF IInv, PluginStopFails
<1>2. /\ plugin' \in Plugins
      /\ \A t \in Session \ {s}, q \in Plugin : plugin'[t, q] = plugin[t, q]
      /\ \A q \in Plugin \ {p} : plugin'[s, q] = plugin[s, q]
      /\ plugin'[s, p] = "stopFailed"
    BY <1>1, PluginTypes DEF PluginStopFails
<1>3. /\ phase[s] \in {"stopping", "stopFailed"}
      /\ stream[s] # "ended"
      /\ AllIn(s, {"stopping", "stopped", "stopFailed"})
    BY <1>1, StoppingSession
<1>4. AllIn(s, {"stopping", "stopped", "stopFailed"})' /\ Some(s, "stopFailed")'
    BY <1>2, <1>3, OnePluginMoves DEF Some
<1>5. phase' = [phase EXCEPT ![s] = "stopFailed"]
    BY DEF PluginStopFails
<1>6. /\ phase' \in Phases /\ phase'[s] = "stopFailed"
      /\ \A t \in Session \ {s} : phase'[t] = phase[t]
    BY <1>1, <1>5, PhaseTypes
<1>7. sessions' = {t \in Session : phase'[t] = "live"}
    BY <1>1, <1>3, <1>5, UnregisteredSession
<1>8. TypeOK'
    BY <1>1, <1>2, <1>6, <1>7, SessionsTyped
<1>9. \A t \in Session \ {s} : Same(t)
    BY <1>1, <1>2, <1>6 DEF Same
<1>10. SessionOK(s)'
    BY <1>1, <1>3, <1>4, <1>6 DEF SessionOK
<1> QED BY <1>1, <1>3, <1>8, <1>9, <1>10, SessionStep

-----------------------------------------------------------------------------
(* Stops, and the calls that wait for them.                                *)

LEMMA BeginStopKeeps ==
    ASSUME IInv, NEW S \in SUBSET sessions, BeginStop(S)
    PROVE  /\ sessions' = {s \in Session : phase'[s] = "live"}
           /\ phase' \in [Session -> {"none", "starting", "failed", "live", "stopping",
                                      "stopped", "stopFailed"}]
           /\ plugin' \in [Session \X Plugin ->
                              {"none", "starting", "running", "failed", "stopping", "stopped",
                               "stopFailed"}]
           /\ S \subseteq Session
           /\ \A s \in Session : phase[s] = "stopped" => phase'[s] = "stopped"
           /\ SessionsOK'
<1> USE DEF IInv, BeginStop
<1>1. S \subseteq {s \in Session : phase[s] = "live"}
    BY DEF TypeOK
<1>2. \A s \in Session \ S : Same(s)
  <2>1. \A s \in Session \ S : phase'[s] = phase[s]
      BY DEF TypeOK
  <2>2. \A s \in Session \ S, p \in Plugin : plugin'[s, p] = plugin[s, p]
    <3>1. plugin' = [x \in Session \X Plugin |-> IF x[1] \in S THEN "stopping" ELSE plugin[x]]
        BY DEF BeginStop
    <3> HIDE DEF IInv, BeginStop
    <3> QED BY <3>1
  <2> QED BY <2>1, <2>2 DEF Same
<1>3. ASSUME NEW s \in S
      PROVE  SessionOK(s)'
  <2>1. /\ phase'[s] = "stopping" /\ stream'[s] # "ended"
        /\ \A p \in Plugin : plugin'[s, p] = "stopping"
      BY <1>1 DEF SessionsOK, SessionOK, TypeOK
  <2> QED BY <2>1, ServerAssumption DEF SessionOK, All, AllIn, Some
<1>4. SessionsOK'
    BY <1>2, <1>3, SameSession DEF SessionsOK
<1> QED BY <1>1, <1>4 DEF TypeOK

LEMMA StreamErrorStep ==
    ASSUME IInv, NEW s \in Session, StreamError(s)
    PROVE  IInv'
<1> USE DEF IInv, StreamError
<1>1. {s} \in SUBSET sessions /\ BeginStop({s})
    OBVIOUS
<1>2. TypeOK'
    BY <1>1, BeginStopKeeps DEF TypeOK, callVars, BeginStop
<1>3. CallsOK'
    BY <1>1, BeginStopKeeps DEF CallsOK, AllStopped, callVars, TypeOK
<1> QED BY <1>1, <1>2, <1>3, BeginStopKeeps

LEMMA CallForStep ==
    ASSUME IInv, NEW c \in Call, NEW k \in {"stop", "reset", "server"},
           NEW S \in SUBSET sessions, CallFor(c, k, S)
    PROVE  IInv'
<1> USE DEF IInv, CallFor
<1>1. TypeOK'
    BY BeginStopKeeps DEF TypeOK, BeginStop
<1>2. CallsOK'
    BY BeginStopKeeps DEF CallsOK, AllStopped, TypeOK
<1> QED BY <1>1, <1>2, BeginStopKeeps

LEMMA CallStopStep ==
    ASSUME IInv, NEW c \in Call, NEW s \in Session, CallStop(c, s)
    PROVE  IInv'
BY CallForStep DEF CallStop

LEMMA CallServerStopStep ==
    ASSUME IInv, NEW c \in Call, CallServerStop(c)
    PROVE  IInv'
<1>1. CASE server # "down"
    BY <1>1, CallForStep DEF CallServerStop
<1>2. CASE server = "down"
  <2>1. /\ at' = [at EXCEPT ![c] = "returned"] /\ kind' = [kind EXCEPT ![c] = "server"]
        /\ at[c] = "new" /\ UNCHANGED <<server, sessions, phase, plugin, stream, waits>>
      BY <1>2 DEF CallServerStop, IsNext
  <2>2. TypeOK'
      BY <2>1 DEF IInv, TypeOK
  <2>3. CallsOK'
      BY <2>1 DEF IInv, CallsOK, AllStopped, TypeOK
  <2> QED BY <2>1, <2>2, <2>3, CallStep
<1> QED BY <1>1, <1>2

LEMMA CallProceedsStep ==
    ASSUME IInv, NEW c \in Call, CallProceeds(c)
    PROVE  IInv'
<1> USE DEF IInv, CallProceeds, CallReturns, CallFails, Destroy, DestroyNothing, Destroyed
<1>1. TypeOK'
    BY DEF TypeOK
<1>2. CallsOK'
    BY DEF CallsOK, AllStopped, TypeOK
<1>3. \A s \in Session :
          stream'[s] = stream[s] \/ (stream[s] = "open" /\ stream'[s] = "none")
    BY DEF TypeOK
<1> QED BY <1>1, <1>2, <1>3, CallStep

LEMMA NextIInv == IInv /\ [Next]_vars => IInv'
<1> SUFFICES ASSUME IInv, [Next]_vars
             PROVE  IInv'
    OBVIOUS
<1>1. CASE Start \/ StartFails \/ UNCHANGED vars
  <2>1. TypeOK' /\ CallsOK' /\ UNCHANGED <<phase, plugin, stream>>
      BY <1>1 DEF Start, StartFails, vars, callVars, IInv, TypeOK, CallsOK, AllStopped
  <2> QED BY <2>1, CallStep
<1>2. ASSUME NEW s \in Session, NEW p \in Plugin, PluginSettles(s, p)
      PROVE  IInv'
    BY <1>2, PluginStartsStep, PluginStartFailsStep, PluginStopsStep, PluginStopFailsStep
    DEF PluginSettles
<1>3. ASSUME NEW c \in Call, CallReset(c)
      PROVE  IInv'
    BY <1>3, CallForStep DEF CallReset
<1> QED
    BY <1>1, <1>2, <1>3, StartSessionStep, StreamStep, StreamErrorStep, CallStopStep,
       CallServerStopStep, CallProceedsStep DEF Next

-----------------------------------------------------------------------------

\* The invariant of the whole module.
THEOREM SessionInvariant == Spec => []IInv
BY InitIInv, NextIInv, PTL DEF Spec

\* Type correctness, with the keys of this.sessions as the sessions that are live.
THEOREM SessionTypeOK == Spec => []TypeOK
<1>1. IInv => TypeOK
    BY DEF IInv
<1> QED BY <1>1, SessionInvariant, PTL

(***************************************************************************)
(* A request or a websocket that is routed to a session finds all of its   *)
(* plugins running, for any number of plugins that settle in any order.    *)
(***************************************************************************)
THEOREM SessionRoutedRuns == Spec => []RoutedSessionRuns
<1>1. IInv => RoutedSessionRuns
    BY DEF IInv, TypeOK, SessionsOK, SessionOK, RoutedSessionRuns
<1> QED BY <1>1, SessionInvariant, PTL

(***************************************************************************)
(* A stream that is closed with code 1000 and a call that succeeds both    *)
(* mean that every plugin has stopped, however the stops overlap.          *)
(***************************************************************************)
THEOREM SessionStopsAreWhole == Spec => []StopsAreWhole
<1>1. IInv => CleanCloseMeansStopped
    BY DEF IInv, TypeOK, SessionsOK, SessionOK, CleanCloseMeansStopped
<1>2. IInv => SuccessMeansStopped
    BY DEF IInv, TypeOK, SessionsOK, SessionOK, CallsOK, AllStopped, SuccessMeansStopped
<1> QED BY <1>1, <1>2, SessionInvariant, PTL DEF StopsAreWhole

=============================================================================
