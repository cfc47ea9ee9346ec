-------------------------- MODULE AdminClient_proofs --------------------------
(***************************************************************************)
(* Theorems of AdminClient, for any number of calls and sessions and any   *)
(* number of reconnections: as long as the calls of the user do not        *)
(* overlap, a client that runs is connected, or on its way to be, or being *)
(* stopped, and it never stops a session for the end of another one.       *)
(***************************************************************************)
EXTENDS AdminClient, TLAPS

\* What a call has in each state.
CallOK(c) ==
    /\ at[c] \in {"new", "ended"} => own[c] = None
    /\ at[c] \in {"starts", "requesting", "connecting", "querying"} => own[c] = None
    /\ at[c] \in {"connecting", "querying", "stopping"} => target[c] \in Session
    /\ at[c] \in {"new", "starts", "stops", "requesting", "ended"} => target[c] = None
    /\ at[c] \in {"starts", "stops"} => seen[c] \in Value \cup Call
    /\ at[c] # "ended" => promised[c] = "pending"

CallsOK == \A c \in Call : CallOK(c)

Idle == \A d \in Call : ~InProgress(d)
Alone(c) == \A d \in Call : InProgress(d) => d = c

\* The stream of the client has dropped.
StreamDropped == adminStream # None /\ stream[adminStream] = "dropped"

\* Stopped: a call that is being made finds that, and a start has nothing to refuse it.
Stopped ==
    /\ running = "stopped"
    /\ adminStream \in {None, baseUrl}
    /\ \A c \in Call : InProgress(c) =>
           /\ Alone(c)
           /\ Awaiting(c) /\ Awaited(seen[c]) = "stopped"
           /\ at[c] = "starts" => baseUrl = None
    /\ StreamDropped => Idle /\ Awaited(decides[adminStream]) = "stopped"

\* Running: a stop that was called, by the user or for the stream's sake, begins at once.
Runs ==
    /\ running = "running"
    /\ baseUrl # None /\ adminStream = baseUrl
    /\ \A c \in Call : InProgress(c) =>
           /\ Alone(c)
           /\ at[c] = "stops" /\ Awaited(seen[c]) = "running"
           /\ own[c] \in {None, adminStream}
    /\ StreamDropped => Idle /\ Awaited(decides[adminStream]) = "running"
    /\ \/ stream[adminStream] \in Connected
       \/ \E c \in Call : own[c] = adminStream /\ InProgress(c)
       \/ NoCallLeft

\* A start before its stream is connected: nothing is known of the session yet.
Starting(p) ==
    /\ running = p /\ at[p] \in {"requesting", "connecting"}
    /\ baseUrl = None /\ adminStream = None
    /\ Alone(p)

\* The stream is connected.  If it is shut down, a stop waits for the start to fail.
Querying(p) ==
    /\ running = p /\ at[p] = "querying"
    /\ baseUrl = target[p] /\ adminStream = target[p]
    /\ \/ Alone(p) /\ stream[target[p]] = "connected"
       \/ Alone(p) /\ stream[target[p]] = "dropped" /\ decides[target[p]] = p
       \/ /\ stream[target[p]] = "ended" /\ session[target[p]] = "gone"
          /\ \A d \in Call \ {p} : InProgress(d) =>
                 at[d] = "stops" /\ seen[d] = p /\ own[d] = target[p]
          /\ \A d, e \in Call \ {p} : InProgress(d) /\ InProgress(e) => d = e

\* A stop, of the session that it is about; one of the user's may wait for it.
Stopping(p) ==
    /\ running = p /\ at[p] = "stopping"
    /\ baseUrl = target[p] /\ adminStream = None
    /\ own[p] \in {None, target[p]}
    /\ \A d \in Call \ {p} : InProgress(d) => at[d] = "stops" /\ seen[d] = p /\ OfUser(d)
    /\ \A d, e \in Call \ {p} : InProgress(d) /\ InProgress(e) => d = e
    /\ OfUser(p) => Alone(p)

Calm == Stopped \/ Runs \/ \E p \in Call : Starting(p) \/ Querying(p) \/ Stopping(p)

IInv == TypeOK /\ CallsOK /\ (~overlapped => Calm)

-----------------------------------------------------------------------------
(* What the state says of a call and of the client *)

\* The next call is a new one.
LEMMA NextIsNew ==
    ASSUME NEW c \in Call, IsNext(c)
    PROVE  at[c] = "new"
BY DEF IsNext, IsFirst

\* Before anything is done.
LEMMA InitHolds == Init => IInv
<1> SUFFICES ASSUME Init PROVE IInv
  OBVIOUS
<1>1. TypeOK
  <2>1. tries \in [Session -> 0..Attempts]
    BY ClientAssumption DEF Init
  <2>2. overlapped \in BOOLEAN
    BY DEF Init
  <2> QED
    BY <2>1, <2>2, Zenon DEF Init, TypeOK, Value, Connected
<1>2. CallsOK
  BY DEF Init, CallsOK, CallOK
<1>3. Idle
  BY DEF Init, Idle, InProgress
<1>4. Stopped
  BY <1>3 DEF Init, Stopped, Idle, StreamDropped
<1> QED
  BY <1>1, <1>2, <1>4 DEF IInv, Calm

\* A promise is pending until its call ends.
LEMMA PendingPromise ==
    ASSUME CallsOK, NEW c \in Call, InProgress(c)
    PROVE  promised[c] = "pending" /\ Awaited(c) = "pending"
BY DEF CallsOK, CallOK, InProgress, Awaited

\* A start that awaits a reply is the only thing that goes on.
LEMMA StartsAlone ==
    ASSUME Calm, CallsOK, NEW c \in Call, at[c] \in {"requesting", "connecting"}
    PROVE  Starting(c)
<1>1. InProgress(c)
  BY DEF InProgress
<1>2. ~Stopped
  BY <1>1 DEF Stopped, Awaiting
<1>3. ~Runs
  BY <1>1 DEF Runs
<1>4. ASSUME NEW p \in Call, Starting(p) PROVE p = c
  BY <1>1, <1>4 DEF Starting, Alone
<1>5. ASSUME NEW p \in Call, Querying(p) PROVE FALSE
  BY <1>1, <1>5 DEF Querying, Alone
<1>6. ASSUME NEW p \in Call, Stopping(p) PROVE FALSE
  BY <1>1, <1>6 DEF Stopping
<1> QED
  BY <1>2, <1>3, <1>4, <1>5, <1>6 DEF Calm

\* A query is that of the start that is going on.
LEMMA QueriesAlone ==
    ASSUME Calm, CallsOK, NEW c \in Call, at[c] = "querying"
    PROVE  Querying(c)
<1>1. InProgress(c)
  BY DEF InProgress
<1>2. ~Stopped
  BY <1>1 DEF Stopped, Awaiting
<1>3. ~Runs
  BY <1>1 DEF Runs
<1>4. ASSUME NEW p \in Call, Starting(p) PROVE FALSE
  BY <1>1, <1>4 DEF Starting, Alone
<1>5. ASSUME NEW p \in Call, Querying(p) PROVE p = c
  BY <1>1, <1>5 DEF Querying, Alone
<1>6. ASSUME NEW p \in Call, Stopping(p) PROVE FALSE
  BY <1>1, <1>6 DEF Stopping
<1> QED
  BY <1>2, <1>3, <1>4, <1>5, <1>6 DEF Calm

\* A request to stop is that of the stop that is going on.
LEMMA StopsAlone ==
    ASSUME Calm, CallsOK, NEW c \in Call, at[c] = "stopping"
    PROVE  Stopping(c)
<1>1. InProgress(c)
  BY DEF InProgress
<1>2. ~Stopped
  BY <1>1 DEF Stopped, Awaiting
<1>3. ~Runs
  BY <1>1 DEF Runs
<1>4. ASSUME NEW p \in Call, Starting(p) PROVE FALSE
  BY <1>1, <1>4 DEF Starting, Alone
<1>5. ASSUME NEW p \in Call, Querying(p) PROVE FALSE
  BY <1>1, <1>5 DEF Querying, Alone
<1>6. ASSUME NEW p \in Call, Stopping(p) PROVE p = c
  BY <1>1, <1>6 DEF Stopping
<1> QED
  BY <1>2, <1>3, <1>4, <1>5, <1>6 DEF Calm

\* A call goes on only while nothing starts or stops, and finds what `running` says.
LEMMA ResumesIn ==
    ASSUME Calm, CallsOK, NEW c \in Call, Awaiting(c), NEW v \in Value, Awaited(seen[c]) = v
    PROVE  v = running /\ (Stopped \/ Runs)
<1>1. InProgress(c)
  BY DEF InProgress, Awaiting
<1>2. v # "pending"
  BY DEF Value
<1>3. Stopped => v = running
  BY <1>1 DEF Stopped
<1>4. Runs => v = running
  BY <1>1 DEF Runs
<1>5. ASSUME NEW p \in Call, Starting(p) PROVE FALSE
  BY <1>1, <1>5 DEF Starting, Alone, Awaiting
<1>6. ASSUME NEW p \in Call, Querying(p) PROVE FALSE
  <2>1. Awaited(p) = "pending"
    BY <1>6, PendingPromise DEF Querying, InProgress
  <2>2. c # p
    BY <1>6 DEF Querying, Awaiting
  <2>3. seen[c] = p
    BY <1>1, <1>6, <2>2 DEF Querying, Alone
  <2> QED
    BY <1>2, <2>1, <2>3
<1>7. ASSUME NEW p \in Call, Stopping(p) PROVE FALSE
  <2>1. Awaited(p) = "pending"
    BY <1>7, PendingPromise DEF Stopping, InProgress
  <2>2. c # p
    BY <1>7 DEF Stopping, Awaiting
  <2>3. seen[c] = p
    BY <1>1, <1>7, <2>2 DEF Stopping
  <2> QED
    BY <1>2, <2>1, <2>3
<1> QED
  BY <1>3, <1>4, <1>5, <1>6, <1>7 DEF Calm

\* What `await this.running` gives tells whether the client runs.
LEMMA RunningTells ==
    ASSUME Calm, CallsOK
    PROVE  /\ Awaited(running) = "stopped" => Stopped
           /\ Awaited(running) = "running" => Runs
           /\ Awaited(running) # "pending" => running \in Value /\ Awaited(running) = running
<1>1. Stopped => running = "stopped" /\ Awaited(running) = "stopped"
  BY ClientAssumption DEF Stopped, Awaited
<1>2. Runs => running = "running" /\ Awaited(running) = "running"
  BY ClientAssumption DEF Runs, Awaited
<1>3. ASSUME NEW p \in Call, Starting(p) \/ Querying(p) \/ Stopping(p) PROVE Awaited(running) = "pending"
  BY <1>3, PendingPromise DEF Starting, Querying, Stopping, InProgress
<1> QED
  BY <1>1, <1>2, <1>3 DEF Calm, Value

\* Between microtasks, no call goes on while the client is stopped or runs.
LEMMA QuietIsIdle ==
    ASSUME TypeOK, Quiet, Stopped \/ Runs
    PROVE  Idle /\ ~StreamDropped
<1>1. ASSUME NEW d \in Call, InProgress(d) PROVE FALSE
  <2>1. Awaiting(d) /\ Awaited(seen[d]) \in {"stopped", "running"}
    BY <1>1 DEF Stopped, Runs, Awaiting
  <2> QED
    BY <2>1 DEF Quiet, Resumable
<1>2. ASSUME StreamDropped, adminStream \in Session PROVE FALSE
  <2>1. Awaited(decides[adminStream]) \in {"stopped", "running"}
    BY <1>2 DEF Stopped, Runs
  <2> QED
    BY <1>2, <2>1 DEF StreamDropped, Quiet, Deciding
<1> QED
  BY <1>1, <1>2 DEF Idle, StreamDropped, TypeOK


-----------------------------------------------------------------------------
(* Types, and what each call has *)

\* A shutdown begins at most one call.
LEMMA ShutdownTyped ==
    ASSUME TypeOK, NEW s \in Session, Shutdown(s)
    PROVE  /\ at' \in [Call -> {"new", "starts", "requesting", "connecting", "querying",
                                "stops", "stopping", "ended"}]
           /\ seen' \in [Call -> Value \cup Call \cup {None}]
           /\ own' \in [Call -> Session \cup {None}]
           /\ UNCHANGED <<promised, target, overlapped>>
BY DEF TypeOK, Shutdown, BeginStop, Awaits, callVars, madeVars

LEMMA DecideTyped ==
    ASSUME TypeOK, NEW s \in Session, NEW v, DecideOn(s, v)
    PROVE  /\ at' \in [Call -> {"new", "starts", "requesting", "connecting", "querying",
                                "stops", "stopping", "ended"}]
           /\ seen' \in [Call -> Value \cup Call \cup {None}]
           /\ own' \in [Call -> Session \cup {None}]
           /\ UNCHANGED <<promised, target, overlapped>>
           /\ stream' \in [Session -> Connected \cup {"none", "ended"}]
           /\ decides' \in [Session -> Value \cup Call \cup {None}]
           /\ tries' \in [Session -> 0..Attempts]
<1>1. tries' \in [Session -> 0..Attempts]
  BY ClientAssumption DEF TypeOK, DecideOn
<1>2. stream' \in [Session -> Connected \cup {"none", "ended"}]
  BY DEF TypeOK, DecideOn, Connected
<1>3. decides' \in [Session -> Value \cup Call \cup {None}]
  BY DEF TypeOK, DecideOn
<1> QED
  BY <1>1, <1>2, <1>3, ShutdownTyped DEF TypeOK, DecideOn, callVars, madeVars

\* Every step keeps the types: first those of the calls.
LEMMA CallTyped ==
    ASSUME TypeOK, CallsOK, NEW c \in Call, CallStart(c) \/ CallStop(c) \/ Progress(c)
    PROVE  TypeOK'
<1> USE DEF TypeOK, Value, callVars, madeVars, streamVars
<1>1. CASE CallStart(c)
  BY <1>1 DEF CallStart, UserCalls, Awaits
<1>2. CASE CallStop(c)
  BY <1>2 DEF CallStop, UserCalls, BeginStop, Awaits
<1>3. CASE ResumeStartRefused(c)
  BY <1>3 DEF ResumeStartRefused, Resumes, Ends
<1>4. CASE ResumeStart(c)
  BY <1>4 DEF ResumeStart, Resumes
<1>5. CASE \E s \in Session : SessionCreated(c, s)
  BY <1>5 DEF SessionCreated
<1>6. CASE \E s \in Session : StartReplyLost(c, s)
  BY <1>6 DEF StartReplyLost, Ends, Resolve
<1>7. CASE StartFails(c)
  BY <1>7 DEF StartFails, Ends, Resolve
<1>8. CASE StreamOpens(c)
  <2>1. target[c] \in Session
    BY <1>8 DEF StreamOpens, CallsOK, CallOK
  <2> QED
    BY <1>8, <2>1 DEF StreamOpens, Connected
<1>9. CASE SchemaLoaded(c)
  BY <1>9 DEF SchemaLoaded, Ends, Resolve
<1>10. CASE ResumeStopIdle(c)
  BY <1>10 DEF ResumeStopIdle, Resumes, Ends
<1>11. CASE ResumeStop(c)
  BY <1>11 DEF ResumeStop, Resumes, EndStream
<1>12. CASE ResumeStopDisconnected(c)
  BY <1>12 DEF ResumeStopDisconnected, Resumes, EndStream, Resolve, Ends
<1>13. CASE StopReplied(c)
  BY <1>13 DEF StopReplied, Ends, Resolve
<1>14. CASE StopFails(c)
  BY <1>14 DEF StopFails, Ends, Resolve
<1> QED
  BY <1>1, <1>2, <1>3, <1>4, <1>5, <1>6, <1>7, <1>8, <1>9, <1>10, <1>11, <1>12, <1>13, <1>14
     DEF Progress

\* Then those of the streams.
LEMMA StreamTyped ==
    ASSUME TypeOK, NEW s \in Session, ServerEnds(s) \/ StreamDrops(s) \/ StreamProgress(s)
    PROVE  TypeOK'
<1> USE DEF callVars, madeVars, streamVars
<1>1. CASE ServerEnds(s)
  BY <1>1 DEF ServerEnds, TypeOK
<1>2. CASE StreamDrops(s)
  <2>1. CASE Awaited(running) = "pending"
    BY <1>2, <2>1 DEF StreamDrops, TypeOK, Connected
  <2>2. CASE Awaited(running) # "pending"
    BY <1>2, <2>2, DecideTyped DEF StreamDrops, TypeOK
  <2> QED
    BY <2>1, <2>2
<1>3. CASE StreamShutDown(s)
  BY <1>3, ShutdownTyped DEF StreamShutDown, TypeOK
<1>4. CASE Decide(s)
  BY <1>4, DecideTyped DEF Decide, TypeOK
<1>5. CASE Reconnects(s)
  BY <1>5, ClientAssumption DEF Reconnects, TypeOK, Connected
<1>6. CASE ReconnectFails(s)
  <2>1. tries[s] \in 0..Attempts /\ tries[s] + 1 < Attempts /\ Attempts \in Nat
    BY <1>6, ClientAssumption DEF ReconnectFails, TypeOK
  <2>2. tries[s] + 1 \in 0..Attempts
    BY <2>1
  <2>3. tries' \in [Session -> 0..Attempts]
    BY <1>6, <2>2 DEF ReconnectFails, TypeOK
  <2> QED
    BY <1>6, <2>3 DEF ReconnectFails, TypeOK
<1>7. CASE ReconnectGivesUp(s)
  <2>1. tries' \in [Session -> 0..Attempts]
    BY <1>7, ClientAssumption DEF ReconnectGivesUp, TypeOK
  <2> QED
    BY <1>7, <2>1, ShutdownTyped DEF ReconnectGivesUp, TypeOK
<1>8. CASE StopRetrying(s)
  BY <1>8, ClientAssumption DEF StopRetrying, TypeOK
<1> QED
  BY <1>1, <1>2, <1>3, <1>4, <1>5, <1>6, <1>7, <1>8 DEF StreamProgress

\* What a shutdown changes of the calls: at most one new call becomes a stop of s.
Begun(c, s) ==
    /\ at[c] = "new"
    /\ at' = [at EXCEPT ![c] = "stops"]
    /\ seen' = [seen EXCEPT ![c] = running]
    /\ own' = [own EXCEPT ![c] = s]

LEMMA ShutdownBegins ==
    ASSUME NEW s \in Session, Shutdown(s)
    PROVE  /\ UNCHANGED <<promised, target, overlapped>>
           /\ \/ adminStream = s /\ \E c \in Call : Begun(c, s)
              \/ (adminStream # s \/ NoCallLeft) /\ UNCHANGED <<at, seen, own>>
BY NextIsNew DEF Shutdown, BeginStop, Begun, Awaits, callVars, madeVars

\* A call that has begun has what a call has.
LEMMA BegunCallOK ==
    ASSUME TypeOK, CallsOK, NEW s \in Session \cup {None}, NEW c \in Call, Begun(c, s),
           UNCHANGED <<promised, target>>
    PROVE  CallsOK'
BY DEF TypeOK, CallsOK, CallOK, Begun, Value

\* A call that has ended has what a call has, whatever its promise resolved to.
LEMMA EndsCallOK ==
    ASSUME TypeOK, CallsOK, NEW c \in Call, Ends(c),
           \A d \in Call \ {c} : seen'[d] = seen[d] /\ promised'[d] = promised[d]
    PROVE  CallsOK'
BY DEF TypeOK, CallsOK, CallOK, Ends

LEMMA CallKeepsCalls ==
    ASSUME TypeOK, CallsOK, NEW c \in Call, CallStart(c) \/ CallStop(c) \/ Progress(c)
    PROVE  CallsOK'
<1> USE DEF callVars, madeVars, streamVars
<1>1. CASE CallStart(c)
  <2>1. at[c] = "new"
    BY <1>1, NextIsNew DEF CallStart, UserCalls
  <2> QED
    BY <1>1, <2>1 DEF CallStart, TypeOK, CallsOK, CallOK, Awaits
<1>2. CASE CallStop(c)
  <2>1. Begun(c, None)
    BY <1>2, NextIsNew DEF CallStop, BeginStop, Awaits, Begun
  <2> QED
    BY <1>2, <2>1, BegunCallOK DEF CallStop
<1>3. CASE ResumeStartRefused(c) \/ ResumeStopIdle(c)
  BY <1>3, EndsCallOK DEF ResumeStartRefused, ResumeStopIdle, Resumes, TypeOK
<1>4. CASE ResumeStart(c)
  BY <1>4 DEF ResumeStart, Resumes, TypeOK, CallsOK, CallOK
<1>5. CASE \E s \in Session : SessionCreated(c, s)
  BY <1>5 DEF SessionCreated, TypeOK, CallsOK, CallOK
<1>6. CASE \E s \in Session : StartReplyLost(c, s)
  BY <1>6, EndsCallOK DEF StartReplyLost, Resolve, TypeOK
<1>7. CASE StartFails(c)
  BY <1>7, EndsCallOK DEF StartFails, Resolve, TypeOK
<1>8. CASE StreamOpens(c)
  BY <1>8 DEF StreamOpens, TypeOK, CallsOK, CallOK
<1>9. CASE SchemaLoaded(c)
  BY <1>9, EndsCallOK DEF SchemaLoaded, Resolve, TypeOK
<1>11. CASE ResumeStop(c)
  BY <1>11 DEF ResumeStop, Resumes, TypeOK, CallsOK, CallOK
<1>12. CASE ResumeStopDisconnected(c)
  BY <1>12, EndsCallOK DEF ResumeStopDisconnected, Resumes, Resolve, TypeOK
<1>13. CASE StopReplied(c)
  BY <1>13, EndsCallOK DEF StopReplied, Resolve, TypeOK
<1>14. CASE StopFails(c)
  BY <1>14, EndsCallOK DEF StopFails, Resolve, TypeOK
<1> QED
  BY <1>1, <1>2, <1>3, <1>4, <1>5, <1>6, <1>7, <1>8, <1>9, <1>11, <1>12, <1>13, <1>14
     DEF Progress

\* The calls as they are keep what they have.
LEMMA SameCallsOK ==
    ASSUME CallsOK, UNCHANGED <<at, seen, own, promised, target>>
    PROVE  CallsOK'
BY DEF CallsOK, CallOK

LEMMA ShutdownKeepsCalls ==
    ASSUME TypeOK, CallsOK, NEW s \in Session, Shutdown(s)
    PROVE  CallsOK'
BY ShutdownBegins, BegunCallOK, SameCallsOK

LEMMA StreamKeepsCalls ==
    ASSUME TypeOK, CallsOK, NEW s \in Session, ServerEnds(s) \/ StreamDrops(s) \/ StreamProgress(s)
    PROVE  CallsOK'
<1>1. UNCHANGED callVars \/ Shutdown(s)
  BY DEF ServerEnds, StreamDrops, StreamProgress, StreamShutDown, Decide, DecideOn, Reconnects,
         ReconnectFails, ReconnectGivesUp, StopRetrying
<1> QED
  BY <1>1, ShutdownKeepsCalls, SameCallsOK DEF callVars, madeVars


-----------------------------------------------------------------------------
(* start() and stop() keep the client calm *)

\* The user, who makes no calls that overlap, calls start().
LEMMA CallStartCalm ==
    ASSUME TypeOK, CallsOK, Calm, NEW c \in Call, CallStart(c), ~overlapped'
    PROVE  Calm'
<1> USE DEF callVars, madeVars, streamVars
<1>1. /\ at[c] = "new" /\ own[c] = None
      /\ Quiet
      /\ \A d \in Call : InProgress(d) => ~OfUser(d)
      /\ UNCHANGED <<baseUrl, adminStream, running, promised, target, own, session, stream, decides>>
  BY NextIsNew DEF CallStart, UserCalls, CallsOK, CallOK
<1>2. CASE baseUrl # None
  <2>1. /\ at'[c] = "ended" /\ \A d \in Call \ {c} : at'[d] = at[d]
        /\ UNCHANGED seen
    BY <1>2 DEF CallStart, TypeOK
  <2>2. /\ \A d \in Call : InProgress(d)' <=> InProgress(d)
        /\ \A d \in Call : InProgress(d) => at'[d] = at[d]
    BY <1>1, <2>1 DEF InProgress
  <2>3. NoCallLeft => NoCallLeft'
    BY <2>1 DEF NoCallLeft
  <2>4. ASSUME Stopped PROVE Stopped'
    BY <1>1, <2>1, <2>2, <2>4 DEF Stopped, StreamDropped, Idle, Alone, Awaiting, Awaited
  <2>5. ASSUME Runs PROVE Runs'
    BY <1>1, <2>1, <2>2, <2>3, <2>5 DEF Runs, StreamDropped, Idle, Alone, Awaited
  <2>6. ASSUME NEW p \in Call, Starting(p) \/ Querying(p) PROVE FALSE
    BY <1>1, <2>6 DEF Starting, Querying, InProgress, OfUser, CallsOK, CallOK
  <2>7. ASSUME NEW p \in Call, Stopping(p) PROVE Stopping(p)'
    BY <1>1, <2>1, <2>2, <2>7 DEF Stopping, InProgress, OfUser, Alone
  <2> QED
    BY <2>4, <2>5, <2>6, <2>7 DEF Calm
<1>3. CASE baseUrl = None
  <2>1. /\ at'[c] = "starts" /\ \A d \in Call \ {c} : at'[d] = at[d]
        /\ seen'[c] = running /\ \A d \in Call \ {c} : seen'[d] = seen[d]
    BY <1>3 DEF CallStart, Awaits, TypeOK
  <2>2. Stopped
    <3>1. ASSUME NEW p \in Call, Starting(p) \/ Querying(p) PROVE FALSE
      BY <1>1, <3>1 DEF Starting, Querying, InProgress, OfUser, CallsOK, CallOK
    <3>2. ASSUME NEW p \in Call, Stopping(p) PROVE FALSE
      BY <1>1, <1>3, <3>2, ClientAssumption DEF Stopping, InProgress, OfUser, CallsOK, CallOK
    <3> QED
      BY <1>3, <3>1, <3>2 DEF Calm, Runs
  <2>3. Idle /\ ~StreamDropped
    BY <1>1, <2>2, QuietIsIdle
  <2>4. ~StreamDropped'
    BY <1>1, <2>3 DEF StreamDropped
  <2>5. \A d \in Call : InProgress(d)' => d = c
    BY <2>1, <2>3 DEF Idle, InProgress
  <2>6. running' = "stopped" /\ Awaited(seen[c])' = "stopped"
    BY <1>1, <2>1, <2>2, ClientAssumption DEF Stopped, Awaited
  <2> QED
    BY <1>1, <1>3, <2>1, <2>2, <2>4, <2>5, <2>6 DEF Calm, Stopped, Alone, Awaiting
<1> QED
  BY <1>2, <1>3

\* The next call begins a stop, when nothing else goes on.
LEMMA BegunIdle ==
    ASSUME TypeOK, Idle, NEW c \in Call, NEW s \in Session \cup {None}, Begun(c, s),
           running \in Value
    PROVE  /\ at'[c] = "stops" /\ own'[c] = s
           /\ \A d \in Call : InProgress(d)' => d = c
           /\ Awaited(seen[c])' = running
<1>1. /\ at'[c] = "stops" /\ \A d \in Call \ {c} : at'[d] = at[d]
      /\ seen'[c] = running /\ own'[c] = s
  BY DEF Begun, TypeOK
<1>2. \A d \in Call : InProgress(d)' => d = c
  BY <1>1 DEF Idle, InProgress
<1>3. Awaited(seen[c])' = running
  BY <1>1, ClientAssumption DEF Awaited, Value
<1> QED
  BY <1>1, <1>2, <1>3

\* The user calls stop().
LEMMA CallStopCalm ==
    ASSUME TypeOK, CallsOK, Calm, NEW c \in Call, CallStop(c), ~overlapped'
    PROVE  Calm'
<1> USE DEF callVars, madeVars, streamVars
<1>1. /\ at[c] = "new" /\ own[c] = None
      /\ Quiet
      /\ \A d \in Call : InProgress(d) => ~OfUser(d)
      /\ UNCHANGED <<baseUrl, adminStream, running, promised, target, session, stream, decides>>
  BY NextIsNew DEF CallStop, UserCalls, CallsOK, CallOK
<1>2. Begun(c, None)
  BY <1>1 DEF CallStop, BeginStop, Awaits, Begun
<1>3. /\ at'[c] = "stops" /\ \A d \in Call \ {c} : at'[d] = at[d]
      /\ seen'[c] = running /\ \A d \in Call \ {c} : seen'[d] = seen[d]
      /\ own'[c] = None /\ \A d \in Call \ {c} : own'[d] = own[d]
  BY <1>2 DEF Begun, TypeOK
<1>4. CASE Stopped \/ Runs
  <2>1. Idle /\ ~StreamDropped /\ running \in Value
    BY <1>1, <1>4, QuietIsIdle DEF Stopped, Runs, Value
  <2>2. /\ \A d \in Call : InProgress(d)' => d = c
        /\ Awaited(seen[c])' = running
    BY <1>2, <2>1, BegunIdle
  <2>3. ~StreamDropped'
    BY <1>1, <2>1 DEF StreamDropped
  <2>4. NoCallLeft => NoCallLeft'
    BY <1>3 DEF NoCallLeft
  <2>5. ASSUME Stopped PROVE Stopped'
    BY <1>1, <1>3, <2>2, <2>3, <2>5 DEF Stopped, Alone, Awaiting
  <2>6. ASSUME Runs PROVE Runs'
    <3>1. stream[adminStream] \in Connected \/ NoCallLeft
      BY <2>1, <2>6 DEF Runs, Idle
    <3> QED
      BY <1>1, <1>3, <2>2, <2>3, <2>4, <2>6, <3>1 DEF Runs, Alone
  <2> QED
    BY <1>4, <2>5, <2>6 DEF Calm
<1>5. ASSUME NEW p \in Call, Starting(p) \/ Querying(p) PROVE FALSE
  BY <1>1, <1>5 DEF Starting, Querying, InProgress, OfUser, CallsOK, CallOK
<1>6. ASSUME NEW p \in Call, Stopping(p) PROVE Stopping(p)'
  <2>1. p # c
    BY <1>1, <1>6 DEF Stopping
  <2>2. \A d \in Call \ {p} : ~InProgress(d)
    BY <1>1, <1>6 DEF Stopping
  <2>3. ~OfUser(p) /\ ~OfUser(p)'
    BY <1>1, <1>3, <1>6, <2>1 DEF Stopping, InProgress, OfUser
  <2>4. \A d \in Call \ {p} : InProgress(d)' => d = c
    BY <1>3, <2>2 DEF InProgress
  <2> QED
    BY <1>1, <1>3, <1>6, <2>1, <2>3, <2>4 DEF Stopping, OfUser
<1> QED
  BY <1>4, <1>5, <1>6 DEF Calm

\* A start goes on while the client is stopped, and has nobody beside it.
LEMMA ResumeStartCalm ==
    ASSUME TypeOK, CallsOK, Calm, NEW c \in Call, ResumeStart(c)
    PROVE  Calm'
<1> USE DEF callVars, madeVars, streamVars
<1>1. /\ at[c] = "starts" /\ Awaited(seen[c]) = "stopped"
      /\ running' = c
      /\ at'[c] = "requesting" /\ \A d \in Call \ {c} : at'[d] = at[d]
      /\ UNCHANGED <<baseUrl, adminStream>>
  BY DEF ResumeStart, Resumes, TypeOK
<1>2. Stopped
  BY <1>1, ResumesIn DEF Awaiting, Value, Runs
<1>3. Alone(c) /\ baseUrl = None
  BY <1>1, <1>2 DEF Stopped, InProgress
<1>4. adminStream = None
  BY <1>2, <1>3 DEF Stopped
<1>5. Alone(c)'
  BY <1>1, <1>3 DEF Alone, InProgress
<1> QED
  BY <1>1, <1>3, <1>4, <1>5 DEF Calm, Starting

\* "Already running" is not said to a call that was let through by the base URL.
LEMMA ResumeStartRefusedCalm ==
    ASSUME TypeOK, CallsOK, Calm, NEW c \in Call, ResumeStartRefused(c)
    PROVE  Calm'
<1>1. at[c] = "starts" /\ Awaited(seen[c]) = "running"
  BY DEF ResumeStartRefused, Resumes
<1>2. Runs
  BY <1>1, ResumesIn DEF Awaiting, Value, Stopped
<1> QED
  BY <1>1, <1>2 DEF Runs, InProgress

LEMMA SessionCreatedCalm ==
    ASSUME TypeOK, CallsOK, Calm, NEW c \in Call, NEW s \in Session, SessionCreated(c, s)
    PROVE  Calm'
<1> USE DEF callVars, madeVars, streamVars
<1>1. /\ at[c] = "requesting" /\ at'[c] = "connecting" /\ \A d \in Call \ {c} : at'[d] = at[d]
      /\ UNCHANGED <<baseUrl, adminStream, running>>
  BY DEF SessionCreated, TypeOK
<1>2. Starting(c)
  BY <1>1, StartsAlone
<1>3. Alone(c)'
  BY <1>1, <1>2 DEF Starting, Alone, InProgress
<1> QED
  BY <1>1, <1>2, <1>3 DEF Calm, Starting

LEMMA StreamOpensCalm ==
    ASSUME TypeOK, CallsOK, Calm, NEW c \in Call, StreamOpens(c)
    PROVE  Calm'
<1> USE DEF callVars, madeVars, streamVars
<1>1. target[c] \in Session
  BY DEF StreamOpens, CallsOK, CallOK
<1>2. /\ at[c] = "connecting" /\ at'[c] = "querying" /\ \A d \in Call \ {c} : at'[d] = at[d]
      /\ stream'[target[c]] = "connected"
      /\ adminStream' = target[c] /\ baseUrl' = target[c]
      /\ UNCHANGED <<running, target>>
  BY <1>1 DEF StreamOpens, TypeOK
<1>3. Starting(c)
  BY <1>2, StartsAlone
<1>4. Alone(c)'
  BY <1>2, <1>3 DEF Starting, Alone, InProgress
<1> QED
  BY <1>2, <1>3, <1>4 DEF Calm, Starting, Querying

\* A start, whatever became of its session, ends and stops the client.
LEMMA StartEndsStopped ==
    ASSUME TypeOK, CallsOK, NEW c \in Call, Starting(c) \/ Querying(c),
           Ends(c), Resolve(c, "stopped"), UNCHANGED <<baseUrl, adminStream, seen, stream, decides>>
    PROVE  Stopped'
<1>1. /\ at'[c] = "ended" /\ \A d \in Call \ {c} : at'[d] = at[d]
      /\ own'[c] = None /\ \A d \in Call \ {c} : own'[d] = own[d]
      /\ promised'[c] = "stopped" /\ \A d \in Call \ {c} : promised'[d] = promised[d]
      /\ running' = "stopped"
  BY DEF Ends, Resolve, TypeOK
<1>2. CASE Starting(c)
  <2>1. \A d \in Call : ~InProgress(d)'
    BY <1>1, <1>2 DEF Starting, Alone, InProgress
  <2>2. ~StreamDropped' /\ adminStream' = None
    BY <1>2 DEF Starting, StreamDropped
  <2> QED
    BY <1>1, <2>1, <2>2 DEF Stopped
<1>3. CASE Querying(c)
  <2>1. \A d \in Call : InProgress(d)' => d # c /\ InProgress(d) /\ at'[d] = at[d]
    BY <1>1 DEF InProgress
  <2>2. \A d \in Call : InProgress(d)' => at'[d] = "stops" /\ seen'[d] = c
    BY <1>3, <2>1 DEF Querying, Alone
  <2>3. \A d \in Call : InProgress(d)' => Alone(d)'
    BY <1>3, <2>1 DEF Querying, Alone
  <2>4. \A d \in Call : InProgress(d)' => Awaited(seen[d])' = "stopped"
    BY <1>1, <2>2 DEF Awaited
  <2>5. ASSUME StreamDropped' PROVE Idle' /\ Awaited(decides[adminStream])' = "stopped"
    <3>1. Alone(c) /\ decides[target[c]] = c /\ adminStream = target[c]
      BY <1>3, <2>5 DEF Querying, StreamDropped
    <3> QED
      BY <1>1, <2>1, <3>1 DEF Alone, Idle, Awaited
  <2> QED
    BY <1>1, <1>3, <2>2, <2>3, <2>4, <2>5 DEF Stopped, Querying, Awaiting
<1> QED
  BY <1>2, <1>3

LEMMA StartFailsCalm ==
    ASSUME TypeOK, CallsOK, Calm, NEW c \in Call,
           StartFails(c) \/ \E s \in Session : StartReplyLost(c, s)
    PROVE  Calm'
<1> USE DEF streamVars
<1>1. /\ at[c] \in {"requesting", "connecting", "querying"}
      /\ Ends(c) /\ Resolve(c, "stopped")
      /\ UNCHANGED <<baseUrl, adminStream, seen, stream, decides>>
  BY DEF StartFails, StartReplyLost
<1>2. Starting(c) \/ Querying(c)
  BY <1>1, StartsAlone, QueriesAlone
<1> QED
  BY <1>1, <1>2, StartEndsStopped DEF Calm


\* The schema is loaded from a session that is live, so no stop waits for the start.
LEMMA SchemaLoadedCalm ==
    ASSUME TypeOK, CallsOK, Calm, NEW c \in Call, SchemaLoaded(c)
    PROVE  Calm'
<1> USE DEF streamVars
<1>1. target[c] \in Session
  BY DEF SchemaLoaded, CallsOK, CallOK
<1>2. /\ at[c] = "querying" /\ session[target[c]] = "live"
      /\ at'[c] = "ended" /\ \A d \in Call \ {c} : at'[d] = at[d]
      /\ promised'[c] = "running" /\ running' = "running"
      /\ UNCHANGED <<baseUrl, adminStream, stream, decides>>
  BY DEF SchemaLoaded, Ends, Resolve, TypeOK
<1>3. Querying(c)
  BY <1>2, QueriesAlone
<1>4. /\ Alone(c)
      /\ \/ stream[target[c]] = "connected"
         \/ stream[target[c]] = "dropped" /\ decides[target[c]] = c
      /\ baseUrl = target[c] /\ adminStream = target[c]
  BY <1>2, <1>3 DEF Querying
<1>5. \A d \in Call : ~InProgress(d)'
  BY <1>2, <1>4 DEF Alone, InProgress
<1>6. StreamDropped' => Awaited(decides[adminStream])' = "running"
  BY <1>2, <1>4 DEF StreamDropped, Awaited
<1>7. stream'[adminStream'] \in Connected
  BY <1>2, <1>4 DEF Connected
<1> QED
  BY <1>1, <1>2, <1>4, <1>5, <1>6, <1>7, ClientAssumption DEF Calm, Runs, Idle

\* A stop that finds the client stopped ends.
LEMMA ResumeStopIdleCalm ==
    ASSUME TypeOK, CallsOK, Calm, NEW c \in Call, ResumeStopIdle(c)
    PROVE  Calm'
<1> USE DEF streamVars
<1>1. /\ at[c] = "stops" /\ Awaited(seen[c]) = "stopped"
      /\ at'[c] = "ended" /\ \A d \in Call \ {c} : at'[d] = at[d]
      /\ UNCHANGED <<baseUrl, adminStream, running, promised, stream, decides>>
  BY DEF ResumeStopIdle, Resumes, Ends, TypeOK
<1>2. Stopped
  BY <1>1, ResumesIn DEF Awaiting, Value, Runs
<1>3. Alone(c)
  BY <1>1, <1>2 DEF Stopped, InProgress
<1>4. \A d \in Call : ~InProgress(d)'
  BY <1>1, <1>3 DEF Alone, InProgress
<1>5. StreamDropped' => Awaited(decides[adminStream])' = "stopped"
  BY <1>1, <1>2 DEF StreamDropped, Stopped, Awaited
<1> QED
  BY <1>1, <1>2, <1>4, <1>5 DEF Calm, Stopped, Idle

\* A stop that finds the client running requests the stop of its session.
LEMMA ResumeStopCalm ==
    ASSUME TypeOK, CallsOK, Calm, NEW c \in Call, ResumeStop(c)
    PROVE  Calm'
<1>1. /\ at[c] = "stops" /\ Awaited(seen[c]) = "running"
      /\ at'[c] = "stopping" /\ \A d \in Call \ {c} : at'[d] = at[d]
      /\ target'[c] = baseUrl /\ running' = c /\ adminStream' = None
      /\ UNCHANGED <<baseUrl, own>>
  BY DEF ResumeStop, Resumes, TypeOK
<1>2. Runs
  BY <1>1, ResumesIn DEF Awaiting, Value, Stopped
<1>3. Alone(c) /\ own[c] \in {None, baseUrl}
  BY <1>1, <1>2 DEF Runs, InProgress
<1>4. \A d \in Call \ {c} : ~InProgress(d)'
  BY <1>1, <1>3 DEF Alone, InProgress
<1>5. Alone(c)'
  BY <1>4 DEF Alone
<1> QED
  BY <1>1, <1>3, <1>4, <1>5 DEF Calm, Stopping

\* A client that runs has a base URL.
LEMMA ResumeStopDisconnectedCalm ==
    ASSUME TypeOK, CallsOK, Calm, NEW c \in Call, ResumeStopDisconnected(c)
    PROVE  Calm'
<1>1. at[c] = "stops" /\ Awaited(seen[c]) = "running" /\ baseUrl = None
  BY DEF ResumeStopDisconnected, Resumes
<1>2. Runs
  BY <1>1, ResumesIn DEF Awaiting, Value, Stopped
<1> QED
  BY <1>1, <1>2 DEF Runs

\* A stop, whether it succeeds or fails, stops the client; one that waited for it finds that.
LEMMA StopEndsCalm ==
    ASSUME TypeOK, CallsOK, Calm, NEW c \in Call, StopReplied(c) \/ StopFails(c)
    PROVE  Calm'
<1> USE DEF streamVars
<1>1. /\ at[c] = "stopping"
      /\ at'[c] = "ended" /\ \A d \in Call \ {c} : at'[d] = at[d]
      /\ promised'[c] = "stopped" /\ running' = "stopped"
      /\ UNCHANGED <<adminStream, seen>>
  BY DEF StopReplied, StopFails, Ends, Resolve, TypeOK
<1>2. Stopping(c)
  BY <1>1, StopsAlone
<1>3. \A d \in Call : InProgress(d)' => d # c /\ InProgress(d) /\ at'[d] = at[d]
  BY <1>1 DEF InProgress
<1>4. \A d \in Call : InProgress(d)' => at'[d] = "stops" /\ seen'[d] = c
  BY <1>1, <1>2, <1>3 DEF Stopping
<1>5. \A d \in Call : InProgress(d)' => Alone(d)'
  BY <1>2, <1>3 DEF Stopping, Alone
<1>6. \A d \in Call : InProgress(d)' => Awaited(seen[d])' = "stopped"
  BY <1>1, <1>4 DEF Awaited
<1>7. adminStream' = None /\ ~StreamDropped'
  BY <1>1, <1>2 DEF Stopping, StreamDropped
<1> QED
  BY <1>1, <1>4, <1>5, <1>6, <1>7 DEF Calm, Stopped, Awaiting

\* Every step of a call.
LEMMA CallCalm ==
    ASSUME TypeOK, CallsOK, Calm, ~overlapped', NEW c \in Call,
           CallStart(c) \/ CallStop(c) \/ Progress(c)
    PROVE  Calm'
BY CallStartCalm, CallStopCalm, ResumeStartCalm, ResumeStartRefusedCalm, SessionCreatedCalm,
   StreamOpensCalm, StartFailsCalm, SchemaLoadedCalm, ResumeStopIdleCalm, ResumeStopCalm,
   ResumeStopDisconnectedCalm, StopEndsCalm DEF Progress

-----------------------------------------------------------------------------
(* The streams keep the client calm *)

\* A call that begins to stop s at a shutdown, or none does.
LEMMA ShutdownFields ==
    ASSUME TypeOK, NEW s \in Session, NEW c \in Call, Begun(c, s)
    PROVE  /\ at'[c] = "stops" /\ \A d \in Call \ {c} : at'[d] = at[d]
           /\ seen'[c] = running /\ \A d \in Call \ {c} : seen'[d] = seen[d]
           /\ own'[c] = s /\ \A d \in Call \ {c} : own'[d] = own[d]
           /\ NoCallLeft => NoCallLeft'
BY DEF Begun, TypeOK, NoCallLeft

\* The stream of a client that is stopped ends.
LEMMA ShutdownStopped ==
    ASSUME TypeOK, Stopped, Idle, NEW s \in Session, Shutdown(s), stream'[s] = "ended",
           \A r \in Session \ {s} : stream'[r] = stream[r],
           \A r \in Session \ {s} : decides'[r] = decides[r],
           UNCHANGED <<baseUrl, adminStream, running>>
    PROVE  Stopped'
<1>0. promised' = promised
  BY ShutdownBegins
<1>1. CASE adminStream = s /\ \E c \in Call : Begun(c, s)
  <2> PICK c \in Call : Begun(c, s)
    BY <1>1
  <2>1. /\ at'[c] = "stops" /\ \A d \in Call : InProgress(d)' => d = c
        /\ Awaited(seen[c])' = running
    BY BegunIdle DEF Stopped, Value
  <2>2. ~StreamDropped'
    BY <1>1 DEF StreamDropped
  <2> QED
    BY <1>1, <2>1, <2>2 DEF Stopped, Alone, Awaiting
<1>2. CASE UNCHANGED <<at, seen, own>>
  <2>1. Idle'
    BY <1>2 DEF Idle, InProgress
  <2>2. StreamDropped' => adminStream # s /\ StreamDropped
    BY DEF StreamDropped, TypeOK
  <2>3. StreamDropped' => Awaited(decides[adminStream])' = "stopped"
    BY <1>0, <2>2 DEF Stopped, StreamDropped, TypeOK, Awaited
  <2> QED
    BY <2>1, <2>3 DEF Stopped, Idle
<1> QED
  BY <1>1, <1>2, ShutdownBegins

\* The stream of a client that runs ends, which stops it if it is the client's.
LEMMA ShutdownRuns ==
    ASSUME TypeOK, Runs, Idle, NEW s \in Session, Shutdown(s), stream'[s] = "ended",
           \A r \in Session \ {s} : stream'[r] = stream[r],
           \A r \in Session \ {s} : decides'[r] = decides[r],
           UNCHANGED <<baseUrl, adminStream, running>>
    PROVE  Runs'
<1>0. promised' = promised
  BY ShutdownBegins
<1>1. CASE adminStream = s /\ \E c \in Call : Begun(c, s)
  <2> PICK c \in Call : Begun(c, s)
    BY <1>1
  <2>1. /\ at'[c] = "stops" /\ own'[c] = s /\ \A d \in Call : InProgress(d)' => d = c
        /\ Awaited(seen[c])' = running
    BY BegunIdle DEF Runs, Value
  <2>2. ~StreamDropped'
    BY <1>1 DEF StreamDropped
  <2>3. InProgress(c)'
    BY <2>1 DEF InProgress
  <2> QED
    BY <1>1, <2>1, <2>2, <2>3 DEF Runs, Alone
<1>2. CASE (adminStream # s \/ NoCallLeft) /\ UNCHANGED <<at, seen, own>>
  <2>1. Idle'
    BY <1>2 DEF Idle, InProgress
  <2>2. StreamDropped' => adminStream # s /\ StreamDropped
    BY DEF StreamDropped, TypeOK
  <2>3. StreamDropped' => Awaited(decides[adminStream])' = "running"
    BY <1>0, <2>2 DEF Runs, StreamDropped, TypeOK, Awaited
  <2>4. NoCallLeft => NoCallLeft'
    BY <1>2 DEF NoCallLeft
  <2>5. stream'[adminStream'] \in Connected \/ NoCallLeft'
    BY <1>2, <2>4 DEF Runs, Idle, TypeOK
  <2> QED
    BY <2>1, <2>3, <2>5 DEF Runs, Idle
<1> QED
  BY <1>1, <1>2, ShutdownBegins

\* A stream changes while the calls do not: what must be kept of each stream.
LEMMA StreamCalm ==
    ASSUME TypeOK, CallsOK, Calm, UNCHANGED <<baseUrl, adminStream, running, callVars, session>>,
           NEW s \in Session, stream'[s] \in Connected \cup {"ended"},
           stream'[s] = "dropped" => decides'[s] = running /\ Awaited(running) = "pending",
           stream[s] = "connected" \/ Awaited(running) # "pending" \/ Deciding(s) ,
           stream[s] = "connected" /\ stream'[s] # "dropped" => Awaited(running) # "pending",
           stream'[s] = "ended" => ~Runs \/ adminStream # s,
           \A r \in Session \ {s} : stream'[r] = stream[r],
           \A r \in Session \ {s} : decides'[r] = decides[r]
    PROVE  Calm'
<1>1. /\ UNCHANGED <<at, seen, own, promised, target>>
      /\ \A d \in Call : InProgress(d)' <=> InProgress(d)
      /\ NoCallLeft' <=> NoCallLeft
      /\ Idle' <=> Idle
  BY DEF callVars, madeVars, InProgress, NoCallLeft, Idle
<1>2. CASE Stopped \/ Runs
  <2>1. Awaited(running) # "pending" /\ stream'[s] # "dropped"
    BY <1>2, ClientAssumption DEF Stopped, Runs, Awaited
  <2>2. StreamDropped' => StreamDropped /\ decides'[adminStream'] = decides[adminStream]
    BY <2>1 DEF StreamDropped, TypeOK
  <2>3. ASSUME Stopped PROVE Stopped'
    BY <1>1, <2>2, <2>3 DEF Stopped, Alone, Awaiting, Awaited
  <2>4. ASSUME Runs PROVE Runs'
    <3>1. stream[adminStream] \in Connected => stream'[adminStream'] \in Connected
      BY <2>4 DEF TypeOK, Runs
    <3> QED
      BY <1>1, <2>2, <2>4, <3>1 DEF Runs, Alone, Awaited
  <2> QED
    BY <1>2, <2>3, <2>4 DEF Calm
<1>3. ASSUME NEW p \in Call, Starting(p) PROVE Starting(p)'
  BY <1>1, <1>3 DEF Starting, Alone
<1>4. ASSUME NEW p \in Call, Querying(p) PROVE Querying(p)'
  <2>1. Awaited(p) = "pending"
    BY <1>4, PendingPromise DEF Querying, InProgress
  <2>2. CASE s = target[p]
    <3>1. stream[s] = "connected"
      BY <1>4, <2>1, <2>2 DEF Querying, Deciding
    <3>2. stream'[s] = "dropped" /\ decides'[s] = p
      BY <1>4, <2>1, <3>1 DEF Querying
    <3> QED
      BY <1>1, <1>4, <2>2, <3>1, <3>2 DEF Querying, Alone
  <2>3. CASE s # target[p]
    <3>1. target[p] \in Session
      BY <1>4 DEF Querying, CallsOK, CallOK
    <3>2. stream'[target[p]] = stream[target[p]] /\ decides'[target[p]] = decides[target[p]]
      BY <2>3, <3>1
    <3> QED
      BY <1>1, <1>4, <3>2 DEF Querying, Alone
  <2> QED
    BY <2>2, <2>3
<1>5. ASSUME NEW p \in Call, Stopping(p) PROVE Stopping(p)'
  BY <1>1, <1>5 DEF Stopping, Alone, OfUser
<1> QED
  BY <1>2, <1>3, <1>4, <1>5 DEF Calm


\* The server closes the stream of a session that is gone.
LEMMA StreamShutDownCalm ==
    ASSUME TypeOK, CallsOK, Calm, NEW s \in Session, StreamShutDown(s)
    PROVE  Calm'
<1>1. /\ Quiet /\ session[s] = "gone" /\ stream[s] = "connected"
      /\ Shutdown(s)
      /\ stream'[s] = "ended" /\ \A r \in Session \ {s} : stream'[r] = stream[r]
      /\ UNCHANGED <<baseUrl, adminStream, running, session, decides>>
  BY DEF StreamShutDown, TypeOK
<1>2. CASE Stopped \/ Runs
  <2>1. Idle
    BY <1>1, <1>2, QuietIsIdle
  <2> QED
    BY <1>1, <1>2, <2>1, ShutdownStopped, ShutdownRuns DEF Calm
<1>3. UNCHANGED <<promised, target, overlapped>>
  BY <1>1, ShutdownBegins
<1>4. ASSUME NEW p \in Call, Starting(p) PROVE Starting(p)'
  <2>1. UNCHANGED <<at, seen, own>>
    BY <1>1, <1>4, ShutdownBegins, ClientAssumption DEF Starting
  <2> QED
    BY <1>1, <1>4, <2>1 DEF Starting, Alone, InProgress
<1>5. ASSUME NEW p \in Call, Stopping(p) PROVE Stopping(p)'
  <2>1. UNCHANGED <<at, seen, own>>
    BY <1>1, <1>5, ShutdownBegins, ClientAssumption DEF Stopping
  <2> QED
    BY <1>1, <1>3, <1>5, <2>1 DEF Stopping, Alone, InProgress, OfUser
<1>6. ASSUME NEW p \in Call, Querying(p) PROVE Querying(p)'
  <2>1. CASE adminStream = s /\ \E c \in Call : Begun(c, s)
    <3> PICK c \in Call : Begun(c, s)
      BY <2>1
    <3>1. at[c] = "new" /\ c # p
      BY <1>6 DEF Begun, Querying
    <3>2. /\ at'[c] = "stops" /\ \A d \in Call \ {c} : at'[d] = at[d]
          /\ seen'[c] = p /\ own'[c] = s
      BY <1>6, ShutdownFields DEF Querying
    <3>3. Alone(p) /\ target[p] = s
      BY <1>1, <1>6, <2>1 DEF Querying
    <3>4. \A d \in Call \ {p} : InProgress(d)' => d = c
      BY <3>2, <3>3 DEF InProgress, Alone
    <3> QED
      BY <1>1, <1>3, <1>6, <3>1, <3>2, <3>3, <3>4 DEF Querying
  <2>2. CASE UNCHANGED <<at, seen, own>>
    <3>1. Alone(p)' <=> Alone(p)
      BY <2>2 DEF Alone, InProgress
    <3>2. CASE target[p] = s
      <4>1. Alone(p)
        BY <1>1, <1>6, <3>2 DEF Querying
      <4>2. \A d \in Call \ {p} : ~InProgress(d)'
        BY <2>2, <4>1 DEF Alone, InProgress
      <4> QED
        BY <1>1, <1>3, <1>6, <2>2, <3>2, <4>2 DEF Querying
    <3>3. CASE target[p] # s
      <4>1. stream'[target[p]] = stream[target[p]]
        BY <1>1, <1>6, <3>3 DEF Querying, CallsOK, CallOK
      <4> QED
        BY <1>1, <1>3, <1>6, <2>2, <3>1, <4>1 DEF Querying, InProgress
    <3> QED
      BY <3>2, <3>3
  <2> QED
    BY <1>1, <2>1, <2>2, ShutdownBegins
<1> QED
  BY <1>2, <1>4, <1>5, <1>6 DEF Calm

\* What a decision on a stream does to it.
LEMMA DecideFields ==
    ASSUME TypeOK, NEW s \in Session, NEW v, DecideOn(s, v)
    PROVE  /\ stream'[s] \in {"retrying", "ended"}
           /\ v = "running" /\ Attempts > 0 => stream'[s] = "retrying"
           /\ \A r \in Session \ {s} : stream'[r] = stream[r]
           /\ \A r \in Session \ {s} : decides'[r] = decides[r]
           /\ \/ UNCHANGED callVars /\ ~(v = "running" /\ Attempts = 0)
              \/ v = "running" /\ Attempts = 0 /\ stream'[s] = "ended" /\ Shutdown(s)
BY DEF DecideOn, TypeOK

\* A stream that drops: the client, if it runs, is idle or does nothing about it yet.
LEMMA StreamDropsCalm ==
    ASSUME TypeOK, CallsOK, Calm, NEW s \in Session, StreamDrops(s)
    PROVE  Calm'
<1>1. /\ Quiet /\ stream[s] = "connected"
      /\ UNCHANGED <<baseUrl, adminStream, running, session>>
  BY DEF StreamDrops
<1>2. CASE Awaited(running) = "pending"
  <2>1. /\ stream'[s] = "dropped" /\ \A r \in Session \ {s} : stream'[r] = stream[r]
        /\ decides'[s] = running /\ \A r \in Session \ {s} : decides'[r] = decides[r]
        /\ UNCHANGED callVars
    BY <1>2 DEF StreamDrops, TypeOK
  <2> QED
    BY <1>1, <1>2, <2>1, StreamCalm DEF Connected
<1>3. CASE Awaited(running) # "pending"
  <2>1. DecideOn(s, Awaited(running)) /\ Awaited(running) = running
    BY <1>3, RunningTells DEF StreamDrops
  <2>2. Stopped \/ Runs
    BY <1>3, RunningTells DEF Value
  <2>3. Idle
    BY <1>1, <2>2, QuietIsIdle
  <2>4. CASE running = "running" /\ Attempts = 0
    BY <1>1, <2>1, <2>2, <2>3, <2>4, DecideFields, ShutdownRuns DEF Calm, Stopped
  <2>5. CASE ~(running = "running" /\ Attempts = 0)
    <3>1. UNCHANGED callVars
      BY <2>1, <2>5, DecideFields
    <3>2. /\ stream'[s] \in {"retrying", "ended"}
          /\ \A r \in Session \ {s} : stream'[r] = stream[r]
          /\ \A r \in Session \ {s} : decides'[r] = decides[r]
      BY <2>1, DecideFields
    <3>3. stream'[s] = "ended" => ~Runs
      <4>1. Runs => Attempts > 0
        BY <2>5, ClientAssumption DEF Runs
      <4> QED
        BY <2>1, <4>1, DecideFields DEF Runs
    <3> QED
      BY <1>1, <1>3, <3>1, <3>2, <3>3, StreamCalm DEF Connected
  <2> QED
    BY <2>4, <2>5
<1> QED
  BY <1>2, <1>3

\* What a dropped stream awaited has settled.
LEMMA DecideCalm ==
    ASSUME TypeOK, CallsOK, Calm, NEW s \in Session, Decide(s)
    PROVE  Calm'
<1> DEFINE v == Awaited(decides[s])
<1>1. /\ Deciding(s) /\ stream[s] = "dropped"
      /\ DecideOn(s, v)
      /\ UNCHANGED <<baseUrl, adminStream, running, session>>
  BY DEF Decide, Deciding
<1>2. /\ stream'[s] \in {"retrying", "ended"}
      /\ v = "running" /\ Attempts > 0 => stream'[s] = "retrying"
      /\ \A r \in Session \ {s} : stream'[r] = stream[r]
      /\ \A r \in Session \ {s} : decides'[r] = decides[r]
      /\ \/ UNCHANGED callVars /\ ~(v = "running" /\ Attempts = 0)
         \/ v = "running" /\ Attempts = 0 /\ stream'[s] = "ended" /\ Shutdown(s)
  BY <1>1, DecideFields
<1>3. Runs /\ adminStream = s => Idle /\ v = "running"
  BY <1>1, ClientAssumption DEF Runs, StreamDropped
<1>4. Stopped /\ adminStream = s => v = "stopped"
  BY <1>1, ClientAssumption DEF Stopped, StreamDropped
<1>5. ASSUME NEW p \in Call, Starting(p) \/ Querying(p) \/ Stopping(p) PROVE adminStream # s
  <2>1. Querying(p) => Awaited(p) = "pending"
    BY PendingPromise DEF Querying, InProgress
  <2> QED
    BY <1>1, <1>5, <2>1, ClientAssumption DEF Starting, Querying, Stopping, Deciding
<1>6. CASE Runs /\ adminStream = s /\ v = "running" /\ Attempts = 0
  BY <1>1, <1>2, <1>3, <1>6, ShutdownRuns DEF Calm
<1>7. CASE ~(Runs /\ adminStream = s /\ v = "running" /\ Attempts = 0)
  <2>1. UNCHANGED callVars
    <3>1. CASE v = "running" /\ Attempts = 0
      <4>1. adminStream # s
        BY <1>4, <1>5, <1>7, <3>1 DEF Calm
      <4> QED
        BY <1>2, <4>1 DEF Shutdown
    <3> QED
      BY <1>2, <3>1
  <2>2. stream'[s] = "ended" => ~Runs \/ adminStream # s
    BY <1>2, <1>3, <1>7, ClientAssumption
  <2> HIDE DEF v
  <2> QED
    BY <1>1, <1>2, <2>1, <2>2, StreamCalm DEF Connected
<1> QED
  BY <1>6, <1>7

\* A retry is made while the client runs.
LEMMA ReconnectsCalm ==
    ASSUME TypeOK, CallsOK, Calm, NEW s \in Session, Reconnects(s)
    PROVE  Calm'
<1>1. /\ Awaited(running) = "running"
      /\ stream'[s] = "connected" /\ \A r \in Session \ {s} : stream'[r] = stream[r]
      /\ UNCHANGED <<baseUrl, adminStream, running, callVars, session, decides>>
  BY DEF Reconnects, Retrying, TypeOK
<1> QED
  BY <1>1, StreamCalm DEF Connected

LEMMA StopRetryingCalm ==
    ASSUME TypeOK, CallsOK, Calm, NEW s \in Session, StopRetrying(s)
    PROVE  Calm'
<1>1. /\ Awaited(running) = "stopped"
      /\ stream'[s] = "ended" /\ \A r \in Session \ {s} : stream'[r] = stream[r]
      /\ UNCHANGED <<baseUrl, adminStream, running, callVars, session, decides>>
  BY DEF StopRetrying, TypeOK
<1>2. ~Runs
  BY <1>1, ClientAssumption DEF Runs, Awaited
<1> QED
  BY <1>1, <1>2, StreamCalm DEF Connected

LEMMA ReconnectGivesUpCalm ==
    ASSUME TypeOK, CallsOK, Calm, NEW s \in Session, ReconnectGivesUp(s)
    PROVE  Calm'
<1>1. /\ Quiet /\ Awaited(running) = "running" /\ Shutdown(s)
      /\ stream'[s] = "ended" /\ \A r \in Session \ {s} : stream'[r] = stream[r]
      /\ UNCHANGED <<baseUrl, adminStream, running, session, decides>>
  BY DEF ReconnectGivesUp, Retrying, TypeOK
<1>2. Runs
  BY <1>1, RunningTells
<1>3. Idle
  BY <1>1, <1>2, QuietIsIdle
<1> QED
  BY <1>1, <1>2, <1>3, ShutdownRuns DEF Calm

\* A session ends, or a retry fails, and the client does not know yet.
LEMMA UnheardCalm ==
    ASSUME TypeOK, CallsOK, Calm, NEW s \in Session, ServerEnds(s) \/ ReconnectFails(s)
    PROVE  Calm'
<1>1. UNCHANGED <<baseUrl, adminStream, running, at, seen, promised, target, own, stream, decides>>
  BY DEF ServerEnds, ReconnectFails, callVars, madeVars, streamVars
<1>2. \A r \in Session : session[r] = "gone" => session'[r] = "gone"
  BY DEF ServerEnds, ReconnectFails, TypeOK
<1>3. /\ \A d \in Call : InProgress(d)' <=> InProgress(d)
      /\ \A d \in Call : Alone(d)' <=> Alone(d)
      /\ Idle' <=> Idle
      /\ NoCallLeft' <=> NoCallLeft
      /\ StreamDropped' <=> StreamDropped
  BY <1>1 DEF InProgress, Alone, Idle, NoCallLeft, StreamDropped
<1>4. ASSUME Stopped PROVE Stopped'
  BY <1>1, <1>3, <1>4 DEF Stopped, Awaiting, Awaited
<1>5. ASSUME Runs PROVE Runs'
  BY <1>1, <1>3, <1>5 DEF Runs, Awaited
<1>6. ASSUME NEW p \in Call, Starting(p) PROVE Starting(p)'
  BY <1>1, <1>3, <1>6 DEF Starting
<1>7. ASSUME NEW p \in Call, Querying(p) PROVE Querying(p)'
  <2>1. target[p] \in Session
    BY <1>7 DEF Querying, CallsOK, CallOK
  <2> QED
    BY <1>1, <1>2, <1>3, <1>7, <2>1 DEF Querying
<1>8. ASSUME NEW p \in Call, Stopping(p) PROVE Stopping(p)'
  BY <1>1, <1>3, <1>8 DEF Stopping, OfUser
<1> QED
  BY <1>4, <1>5, <1>6, <1>7, <1>8 DEF Calm

LEMMA StreamStepCalm ==
    ASSUME TypeOK, CallsOK, Calm, NEW s \in Session,
           ServerEnds(s) \/ StreamDrops(s) \/ StreamProgress(s)
    PROVE  Calm'
BY StreamShutDownCalm, StreamDropsCalm, DecideCalm, ReconnectsCalm, StopRetryingCalm,
   ReconnectGivesUpCalm, UnheardCalm DEF StreamProgress

-----------------------------------------------------------------------------
(* The invariant *)

\* Once the calls of the user have overlapped, they have.
LEMMA OverlapStays ==
    ASSUME Next, overlapped
    PROVE  overlapped'
<1>1. ASSUME NEW c \in Call, CallStart(c) \/ CallStop(c) \/ Progress(c) PROVE overlapped'
  BY <1>1 DEF CallStart, CallStop, UserCalls, Progress, Resumes, ResumeStart, ResumeStartRefused,
              SessionCreated, StartReplyLost, StartFails, StreamOpens, SchemaLoaded, ResumeStopIdle,
              ResumeStop, ResumeStopDisconnected, StopReplied, StopFails, madeVars
<1>2. ASSUME NEW s \in Session, ServerEnds(s) \/ StreamDrops(s) \/ StreamProgress(s)
      PROVE  overlapped'
  <2>1. UNCHANGED callVars \/ Shutdown(s)
    BY <1>2 DEF ServerEnds, StreamDrops, StreamProgress, StreamShutDown, Decide, DecideOn,
                Reconnects, ReconnectFails, ReconnectGivesUp, StopRetrying
  <2> QED
    BY <2>1, ShutdownBegins DEF callVars, madeVars
<1> QED
  BY <1>1, <1>2 DEF Next

LEMMA NextKeeps == IInv /\ [Next]_vars => IInv'
<1> SUFFICES ASSUME IInv, [Next]_vars PROVE IInv'
  OBVIOUS
<1>1. CASE Next
  <2>1. TypeOK'
    BY <1>1, CallTyped, StreamTyped DEF IInv, Next
  <2>2. CallsOK'
    BY <1>1, CallKeepsCalls, StreamKeepsCalls DEF IInv, Next
  <2>3. ASSUME ~overlapped' PROVE Calm'
    <3>1. Calm
      BY <1>1, <2>3, OverlapStays DEF IInv
    <3> QED
      BY <1>1, <2>3, <3>1, CallCalm, StreamStepCalm DEF IInv, Next
  <2> QED
    BY <2>1, <2>2, <2>3 DEF IInv
<1>2. CASE UNCHANGED vars
  <2>1. TypeOK' /\ CallsOK' /\ overlapped' = overlapped
    BY <1>2 DEF vars, callVars, madeVars, streamVars, IInv, TypeOK, CallsOK, CallOK
  <2>2. Calm' <=> Calm
    BY <1>2 DEF vars, callVars, madeVars, streamVars, Calm, Stopped, Runs, Starting, Querying,
                Stopping, Alone, Idle, InProgress, Awaiting, Awaited, StreamDropped, NoCallLeft,
                OfUser
  <2> QED
    BY <2>1, <2>2 DEF IInv
<1> QED
  BY <1>1, <1>2

(***************************************************************************)
(* The inductive invariant: a calm client is stopped, runs, or has one     *)
(* start or stop that it waits for, and with it at most one stop that      *)
(* waits.                                                                  *)
(***************************************************************************)
THEOREM ClientInvariant == Spec => []IInv
<1>1. Init => IInv
  BY InitHolds
<1>2. IInv /\ [Next]_vars => IInv'
  BY NextKeeps
<1> QED
  BY <1>1, <1>2, PTL DEF Spec

\* The types of the client's fields, its calls and its streams.
THEOREM ClientTypeOK == Spec => []TypeOK
<1>1. IInv => TypeOK
  BY DEF IInv
<1> QED
  BY <1>1, ClientInvariant, PTL

(***************************************************************************)
(* A client that says it is running has a session and its stream, and the  *)
(* stream is connected, about to reconnect, or its loss stops the client:  *)
(* for any number of calls, sessions and reconnections, as long as the     *)
(* user's calls do not overlap.                                            *)
(***************************************************************************)
THEOREM ClientRunningIsConnected == Spec => []RunningIsConnected
<1>1. IInv => RunningIsConnected
  <2> SUFFICES ASSUME IInv, running = "running", ~overlapped
               PROVE  /\ baseUrl # None /\ adminStream = baseUrl
                      /\ \/ stream[adminStream] \in Connected
                         \/ \E c \in Call : own[c] = adminStream /\ InProgress(c)
                         \/ NoCallLeft
    BY DEF RunningIsConnected, RunningMeansSession, StreamNotLost
  <2>1. Runs
    BY ClientAssumption DEF IInv, Calm, Stopped, Starting, Querying, Stopping
  <2> QED
    BY <2>1 DEF Runs
<1> QED
  BY <1>1, ClientInvariant, PTL

(***************************************************************************)
(* A stop that the end of a session set off requests the stop of that      *)
(* session and of no other, as long as the user's calls do not overlap.    *)
(***************************************************************************)
THEOREM ClientShutdownStopsOwnSession == Spec => []ShutdownStopsOwnSession
<1>1. IInv => ShutdownStopsOwnSession
  <2> SUFFICES ASSUME IInv, ~overlapped, NEW c \in Call, own[c] # None
               PROVE  target[c] \in {None, own[c]}
    BY DEF ShutdownStopsOwnSession
  <2>1. CallOK(c) /\ at[c] \in {"new", "starts", "requesting", "connecting", "querying",
                                "stops", "stopping", "ended"}
    BY DEF IInv, CallsOK, TypeOK
  <2>2. CASE at[c] = "stopping"
    <3>1. Stopping(c)
      BY <2>2, StopsAlone DEF IInv
    <3> QED
      BY <3>1 DEF Stopping
  <2>3. CASE at[c] # "stopping"
    BY <2>1, <2>3 DEF CallOK
  <2> QED
    BY <2>2, <2>3
<1> QED
  BY <1>1, ClientInvariant, PTL

=============================================================================
