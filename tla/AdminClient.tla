------------------------------ MODULE AdminClient ------------------------------
(***************************************************************************)
(* The start and stop protocol of a remote client, AdminClient: `running`  *)
(* is a boolean, or a promise for one while a start or stop is going on,   *)
(* and the admin stream is reconnected when it drops and stops the client  *)
(* when the server shuts it down.                                          *)
(*                                                                         *)
(* A call goes on in a microtask once what it awaits has settled, before   *)
(* any reply or stream event is handled (Quiet), but after other calls     *)
(* made in the same turn.                                                  *)
(***************************************************************************)
EXTENDS Integers, Sequences, FiniteSets, Functions

CONSTANTS
    CallSeq,     \* calls of start() and stop(), in the order they are made
    SessionSeq,  \* sessions, in the order that the admin server creates them
    None,        \* undefined
    MaxParallel, \* bound: calls that the user has in progress together
    Attempts     \* adminStreamReconnectAttempts

Call == Range(CallSeq)
Session == Range(SessionSeq)

ASSUME ClientAssumption ==
    /\ IsInjective(CallSeq) /\ IsInjective(SessionSeq)
    /\ None \notin Session
    /\ Call \cap {"stopped", "running"} = {} \* a promise is not a boolean
    /\ MaxParallel \in Nat /\ Attempts \in Nat

VARIABLES
    baseUrl,     \* adminSessionBaseUrl
    adminStream, \* adminServerStream, named by its session
    running,     \* "stopped" (false), "running" (true) or a call's promise
    at,          \* where each call is
    seen,        \* what the call awaits: the value of `running` it read
    promised,    \* what the promise of a call resolved to
    target,      \* the session that a call is about
    own,         \* the session whose shutdown made the client call stop() itself
    session,     \* the sessions on the admin server
    stream,      \* the stream of each session
    decides,     \* what a dropped stream awaits before it reconnects
    tries,       \* failed reconnections of the stream
    overlapped   \* history: the user made a call during another one, or in its turn

madeVars == <<seen, own, overlapped>>
callVars == <<at, promised, target, madeVars>>
streamVars == <<stream, decides, tries>>
vars == <<baseUrl, adminStream, running, callVars, session, streamVars>>

Value == {"stopped", "running"}
Connected == {"connected", "dropped", "retrying"}

TypeOK ==
    /\ baseUrl \in Session \cup {None}
    /\ adminStream \in Session \cup {None}
    /\ running \in Value \cup Call
    /\ at \in [Call -> {"new", "starts", "requesting", "connecting", "querying",
                        "stops", "stopping", "ended"}]
    /\ seen \in [Call -> Value \cup Call \cup {None}]
    /\ promised \in [Call -> Value \cup {"pending"}]
    /\ target \in [Call -> Session \cup {None}]
    /\ own \in [Call -> Session \cup {None}]
    /\ session \in [Session -> {"none", "live", "gone"}]
    /\ stream \in [Session -> Connected \cup {"none", "ended"}]
    /\ decides \in [Session -> Value \cup Call \cup {None}]
    /\ tries \in [Session -> 0..Attempts]
    /\ overlapped \in BOOLEAN

Init ==
    /\ baseUrl = None
    /\ adminStream = None
    /\ running = "stopped"
    /\ at = [c \in Call |-> "new"]
    /\ seen = [c \in Call |-> None]
    /\ promised = [c \in Call |-> "pending"]
    /\ target = [c \in Call |-> None]
    /\ own = [c \in Call |-> None]
    /\ session = [s \in Session |-> "none"]
    /\ stream = [s \in Session |-> "none"]
    /\ decides = [s \in Session |-> None]
    /\ tries = [s \in Session |-> 0]
    /\ overlapped = FALSE

-----------------------------------------------------------------------------
(* Promises *)

\* What `await x` gives, when x is a value or a promise that has settled.
Awaited(x) == IF x \in Call THEN promised[x] ELSE x

\* Call c awaits this.running, in state `here`.
Awaits(c, here) ==
    /\ at' = [at EXCEPT ![c] = here]
    /\ seen' = [seen EXCEPT ![c] = running]

\* A call, or a dropped stream, has a microtask to run.
Awaiting(c) == at[c] \in {"starts", "stops"}
Resumable(c) == Awaiting(c) /\ Awaited(seen[c]) # "pending"
Deciding(s) == stream[s] = "dropped" /\ Awaited(decides[s]) # "pending"

Quiet == (\A c \in Call : ~Resumable(c)) /\ (\A s \in Session : ~Deciding(s))

InProgress(c) == at[c] \notin {"new", "ended"}

OfUser(c) == own[c] = None

\* x is the first of a sequence whose state is still `unused`.
IsFirst(x, seq, state, unused) ==
    \E i \in DOMAIN seq :
        /\ seq[i] = x /\ state[x] = unused
        /\ \A j \in 1..(i - 1) : state[seq[j]] # unused

IsNext(c) == IsFirst(c, CallSeq, at, "new")
IsNextSession(s) == IsFirst(s, SessionSeq, session, "none")

NoCallLeft == \A c \in Call : at[c] # "new"

\* The user makes a call.
UserCalls(c) ==
    /\ IsNext(c)
    /\ Cardinality({d \in Call : InProgress(d) /\ OfUser(d)}) < MaxParallel
    /\ overlapped' = (overlapped \/ ~Quiet \/ \E d \in Call : InProgress(d) /\ OfUser(d))

\* Call c goes on from state `here`, where what it awaited gave v.
Resumes(c, here, v) ==
    /\ at[c] = here /\ Awaited(seen[c]) = v
    /\ seen' = [seen EXCEPT ![c] = None]
    /\ UNCHANGED overlapped

\* Call c returns or throws.
Ends(c) ==
    /\ at' = [at EXCEPT ![c] = "ended"]
    /\ target' = [target EXCEPT ![c] = None]
    /\ own' = [own EXCEPT ![c] = None]

\* The deferred of call c resolves to v, and its `then` sets this.running.
Resolve(c, v) ==
    /\ promised' = [promised EXCEPT ![c] = v]
    /\ running' = v

-----------------------------------------------------------------------------
(* start() *)

\* A base URL refuses the call, and otherwise it awaits this.running.
CallStart(c) ==
    /\ UserCalls(c)
    /\ IF baseUrl # None
          THEN at' = [at EXCEPT ![c] = "ended"] /\ UNCHANGED seen
          ELSE Awaits(c, "starts")
    /\ UNCHANGED <<baseUrl, adminStream, running, promised, target, own, session, streamVars>>

\* Already running.
ResumeStartRefused(c) ==
    /\ Resumes(c, "starts", "running")
    /\ Ends(c)
    /\ UNCHANGED <<baseUrl, adminStream, running, promised, session, streamVars>>

\* this.running becomes the promise of the call, and /start is requested.
ResumeStart(c) ==
    /\ Resumes(c, "starts", "stopped")
    /\ running' = c
    /\ at' = [at EXCEPT ![c] = "requesting"]
    /\ UNCHANGED <<own, baseUrl, adminStream, promised, target, session, streamVars>>

\* The admin server creates a session and the client opens its stream.
SessionCreated(c, s) ==
    /\ Quiet
    /\ at[c] = "requesting"
    /\ IsNextSession(s)
    /\ session' = [session EXCEPT ![s] = "live"]
    /\ target' = [target EXCEPT ![c] = s]
    /\ at' = [at EXCEPT ![c] = "connecting"]
    /\ UNCHANGED <<baseUrl, adminStream, running, promised, madeVars, streamVars>>

\* Mutant: a start that fails leaves its promise unsettled.
StartFailsUnsettled(c) ==
    /\ Quiet
    /\ at[c] \in {"requesting", "connecting", "querying"}
    /\ Ends(c)
    /\ running' = "stopped"
    /\ UNCHANGED <<baseUrl, adminStream, promised, seen, overlapped, session, streamVars>>

\* /start, the stream or the schema query fails: nothing is undone.
StartFails(c) ==
    /\ Quiet
    /\ at[c] \in {"requesting", "connecting", "querying"}
    /\ Ends(c)
    /\ Resolve(c, "stopped")
    /\ UNCHANGED <<baseUrl, adminStream, seen, overlapped, session, streamVars>>

\* The server created a session but its reply to /start was lost.
StartReplyLost(c, s) ==
    /\ IsNextSession(s)
    /\ session' = [session EXCEPT ![s] = "live"]
    /\ Quiet
    /\ at[c] = "requesting"
    /\ Ends(c)
    /\ Resolve(c, "stopped")
    /\ UNCHANGED <<baseUrl, adminStream, seen, overlapped, streamVars>>

\* The stream connects: set the fields, and query the schema.
StreamOpens(c) ==
    /\ Quiet
    /\ at[c] = "connecting"
    /\ session[target[c]] = "live"
    /\ stream' = [stream EXCEPT ![target[c]] = "connected"]
    /\ adminStream' = target[c]
    /\ baseUrl' = target[c]
    /\ at' = [at EXCEPT ![c] = "querying"]
    /\ UNCHANGED <<running, promised, target, madeVars, session, decides, tries>>

\* Mutant: running is set without the promise that others may be waiting for.
SchemaLoadedQuietly(c) ==
    /\ Quiet
    /\ at[c] = "querying"
    /\ session[target[c]] = "live"
    /\ Ends(c)
    /\ running' = "running"
    /\ UNCHANGED <<baseUrl, adminStream, promised, seen, overlapped, session, streamVars>>

\* The schema arrives: the client is running.
SchemaLoaded(c) ==
    /\ Quiet
    /\ at[c] = "querying"
    /\ session[target[c]] = "live"
    /\ Ends(c)
    /\ Resolve(c, "running")
    /\ UNCHANGED <<baseUrl, adminStream, seen, overlapped, session, streamVars>>

-----------------------------------------------------------------------------
(* stop() *)

\* stop() up to its await, called by the user (s = None) or after a shutdown of s.
BeginStop(c, s) ==
    /\ IsNext(c)
    /\ Awaits(c, "stops")
    /\ own' = [own EXCEPT ![c] = s]

CallStop(c) ==
    /\ UserCalls(c)
    /\ BeginStop(c, None)
    /\ UNCHANGED <<baseUrl, adminStream, running, promised, target, session, streamVars>>

\* "If stopped or stopping, do nothing."
ResumeStopIdle(c) ==
    /\ Resumes(c, "stops", "stopped")
    /\ Ends(c)
    /\ UNCHANGED <<baseUrl, adminStream, running, promised, session, streamVars>>

\* Ending the stream drops its websocket; a reconnection that waits for its
\* delay is not called off.
EndStream ==
    stream' = [s \in Session |->
                  IF s = adminStream /\ stream[s] # "retrying" THEN "ended" ELSE stream[s]]

\* End the stream and request the stop.
ResumeStop(c) ==
    /\ Resumes(c, "stops", "running")
    /\ baseUrl # None
    /\ running' = c
    /\ target' = [target EXCEPT ![c] = baseUrl]
    /\ at' = [at EXCEPT ![c] = "stopping"]
    /\ EndStream
    /\ adminStream' = None
    /\ UNCHANGED <<own, baseUrl, promised, session, decides, tries>>

\* There is nothing to request any more: 'Not connected to mock server'.
ResumeStopDisconnected(c) ==
    /\ Resumes(c, "stops", "running")
    /\ baseUrl = None
    /\ Resolve(c, "stopped")
    /\ Ends(c)
    /\ EndStream
    /\ adminStream' = None
    /\ UNCHANGED <<baseUrl, session, decides, tries>>

\* The session is stopped, or was before (a 404): forget it.
StopReplied(c) ==
    /\ Quiet
    /\ at[c] = "stopping"
    /\ session' = [session EXCEPT ![target[c]] = "gone"]
    /\ baseUrl' = None
    /\ Ends(c)
    /\ Resolve(c, "stopped")
    /\ UNCHANGED <<adminStream, seen, overlapped, streamVars>>

\* Mutant: a client whose stop failed counts as running.
StopFailsRunning(c) ==
    /\ Quiet
    /\ at[c] = "stopping"
    /\ Ends(c)
    /\ Resolve(c, "running")
    /\ UNCHANGED <<baseUrl, adminStream, seen, overlapped, session, streamVars>>

\* The request fails otherwise; the session may have stopped or not.
StopFails(c) ==
    /\ Quiet
    /\ at[c] = "stopping"
    /\ session' \in {session, [session EXCEPT ![target[c]] = "gone"]}
    /\ Ends(c)
    /\ Resolve(c, "stopped")
    /\ UNCHANGED <<baseUrl, adminStream, seen, overlapped, streamVars>>

-----------------------------------------------------------------------------
(* The stream *)

\* Another client resets the admin server, or it is stopped.
ServerEnds(s) ==
    /\ Quiet
    /\ session[s] = "live"
    /\ session' = [session EXCEPT ![s] = "gone"]
    /\ UNCHANGED <<baseUrl, adminStream, running, callVars, streamVars>>

\* Mutant: any stream that the server shuts down stops the client.
ShutdownAny(s) ==
    /\ \E c \in Call : BeginStop(c, s)
    /\ UNCHANGED <<promised, target, overlapped>>

\* 'server-shutdown': stop, if this is still the stream of the client.
Shutdown(s) ==
    \/ /\ adminStream = s
       /\ \E c \in Call : BeginStop(c, s)
       /\ UNCHANGED <<promised, target, overlapped>>
    \/ /\ adminStream # s \/ NoCallLeft \* the bound on calls
       /\ UNCHANGED callVars

\* The server closes the stream of a session that is gone, with code 1000.
StreamShutDown(s) ==
    /\ Quiet
    /\ session[s] = "gone"
    /\ stream[s] = "connected"
    /\ stream' = [stream EXCEPT ![s] = "ended"]
    /\ Shutdown(s)
    /\ UNCHANGED <<baseUrl, adminStream, running, session, decides, tries>>

\* A stream that dropped while `running` was v: if the client runs, reconnect,
\* or with no attempts allowed shut down.
DecideOn(s, v) ==
    /\ tries' = [tries EXCEPT ![s] = 0]
    /\ decides' = [decides EXCEPT ![s] = None]
    /\ stream' = [stream EXCEPT ![s] =
                     IF v = "running" /\ Attempts > 0 THEN "retrying" ELSE "ended"]
    /\ IF v = "running" /\ Attempts = 0 THEN Shutdown(s) ELSE UNCHANGED callVars

\* Mutant: only `this.running === true` reconnects, without awaiting it.
DecideOnTrue(s) ==
    /\ Quiet
    /\ stream[s] = "connected"
    /\ DecideOn(s, running)
    /\ UNCHANGED <<baseUrl, adminStream, running, session>>

\* The stream closes uncleanly: await this.running, which takes no other event
\* unless it is a pending promise.
StreamDrops(s) ==
    /\ Quiet
    /\ stream[s] = "connected"
    /\ IF Awaited(running) = "pending"
          THEN /\ stream' = [stream EXCEPT ![s] = "dropped"]
               /\ decides' = [decides EXCEPT ![s] = running]
               /\ UNCHANGED <<callVars, tries>>
          ELSE DecideOn(s, Awaited(running))
    /\ UNCHANGED <<baseUrl, adminStream, running, session>>

Decide(s) ==
    /\ Deciding(s)
    /\ DecideOn(s, Awaited(decides[s]))
    /\ UNCHANGED <<baseUrl, adminStream, running, session>>

\* A retry, after its delay, when `await this.running` gives true.
Retrying(s) == Quiet /\ stream[s] = "retrying" /\ Awaited(running) = "running"

Reconnects(s) ==
    /\ Retrying(s)
    /\ session[s] = "live"
    /\ stream' = [stream EXCEPT ![s] = "connected"]
    /\ tries' = [tries EXCEPT ![s] = 0]
    /\ UNCHANGED <<baseUrl, adminStream, running, callVars, session, decides>>

\* Mutant: one retry too many.
ReconnectFailsAgain(s) ==
    /\ Retrying(s)
    /\ tries[s] <= Attempts
    /\ tries' = [tries EXCEPT ![s] = @ + 1]
    /\ UNCHANGED <<baseUrl, adminStream, running, callVars, session, stream, decides>>

ReconnectFails(s) ==
    /\ Retrying(s)
    /\ tries[s] + 1 < Attempts
    /\ tries' = [tries EXCEPT ![s] = @ + 1]
    /\ UNCHANGED <<baseUrl, adminStream, running, callVars, session, stream, decides>>

\* Mutant: give up without a shutdown.
ReconnectGivesUpQuietly(s) ==
    /\ Retrying(s)
    /\ tries[s] + 1 >= Attempts
    /\ stream' = [stream EXCEPT ![s] = "ended"]
    /\ tries' = [tries EXCEPT ![s] = 0]
    /\ UNCHANGED <<baseUrl, adminStream, running, callVars, session, decides>>

\* The last attempt fails: give up.
ReconnectGivesUp(s) ==
    /\ Retrying(s)
    /\ tries[s] + 1 >= Attempts
    /\ stream' = [stream EXCEPT ![s] = "ended"]
    /\ tries' = [tries EXCEPT ![s] = 0]
    /\ Shutdown(s)
    /\ UNCHANGED <<baseUrl, adminStream, running, session, decides>>

\* "If the client stops running, stop retrying"
StopRetrying(s) ==
    /\ Quiet
    /\ stream[s] = "retrying"
    /\ Awaited(running) = "stopped"
    /\ stream' = [stream EXCEPT ![s] = "ended"]
    /\ tries' = [tries EXCEPT ![s] = 0]
    /\ UNCHANGED <<baseUrl, adminStream, running, callVars, session, decides>>

-----------------------------------------------------------------------------
Progress(c) ==
    \/ ResumeStartRefused(c) \/ ResumeStart(c)
    \/ \E s \in Session : SessionCreated(c, s) \/ StartReplyLost(c, s)
    \/ StartFails(c) \/ StreamOpens(c) \/ SchemaLoaded(c)
    \/ ResumeStopIdle(c) \/ ResumeStop(c) \/ ResumeStopDisconnected(c)
    \/ StopReplied(c) \/ StopFails(c)

StreamProgress(s) ==
    \/ StreamShutDown(s)
    \/ Decide(s) \/ Reconnects(s) \/ ReconnectFails(s) \/ ReconnectGivesUp(s)
    \/ StopRetrying(s)

Next ==
    \/ \E c \in Call : CallStart(c) \/ CallStop(c) \/ Progress(c)
    \/ \E s \in Session : ServerEnds(s) \/ StreamDrops(s) \/ StreamProgress(s)

Spec == Init /\ [][Next]_vars

(***************************************************************************)
(* Microtasks run, requests are answered or fail, a closed stream is heard *)
(* of, and retries are made after their delays.                            *)
(***************************************************************************)
FairSpec ==
    /\ Spec
    /\ \A c \in Call : WF_vars(Progress(c))
    /\ \A s \in Session : WF_vars(StreamProgress(s))

-----------------------------------------------------------------------------
(* Properties *)

(***************************************************************************)
(* A client that says it is running has a session and that session's       *)
(* stream, so queries, rules with callbacks and stop() can reach it, as    *)
(* long as the user's calls have not overlapped.                           *)
(***************************************************************************)
RunningMeansSession ==
    running = "running" /\ ~overlapped => baseUrl # None /\ adminStream = baseUrl

(***************************************************************************)
(* The stream of a running client is connected, or about to reconnect,     *)
(* or its loss has begun to stop the client: it is never lost silently     *)
(* (as long as calls have not overlapped, and the model has one left).     *)
(***************************************************************************)
StreamNotLost ==
    ~overlapped /\ running = "running" /\ adminStream # None /\ stream[adminStream] \notin Connected =>
        \/ \E c \in Call : own[c] = adminStream /\ InProgress(c)
        \/ NoCallLeft

\* A running client is connected, or on its way to be, or to be stopped.
RunningIsConnected == RunningMeansSession /\ StreamNotLost

(***************************************************************************)
(* "Shut down the client iff the client hasn't stopped & restarted in the  *)
(* meantime": a stop that the shutdown of a session set off never requests *)
(* the stop of another session, as long as the user's calls have not       *)
(* overlapped.                                                             *)
(***************************************************************************)
ShutdownStopsOwnSession ==
    ~overlapped => \A c \in Call : own[c] # None => target[c] \in {None, own[c]}

(***************************************************************************)
(* "The client is always stopped (and so restartable) once stopping        *)
(* completes, in all cases, since it can always be started again": a       *)
(* stop() that requested the stop leaves no base URL when it settles, with *)
(* which start() would refuse the client.                                  *)
(***************************************************************************)
StoppedIsRestartable ==
    [][\A c \in Call : at[c] = "stopping" /\ at'[c] = "ended" => baseUrl' = None]_vars

(***************************************************************************)
(* Every call of start() and stop() ends, even when they overlap: again    *)
(* and again none is in progress.                                          *)
(***************************************************************************)
CallsEnd == []<>(\A c \in Call : ~InProgress(c))

(***************************************************************************)
(* A client whose session is gone comes to know it and stops, when its     *)
(* calls do not overlap (and the model has a call left to stop it with).   *)
(***************************************************************************)
LossIsHeard ==
    LET lost == running = "running" /\ adminStream # None /\ session[adminStream] = "gone"
    IN  (lost /\ ~overlapped) ~> (overlapped \/ ~lost \/ NoCallLeft)

=============================================================================
