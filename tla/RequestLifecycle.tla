--------------------------- MODULE RequestLifecycle ---------------------------
(***************************************************************************)
(* The life of one HTTP request in MockttpServer.handleRequest, and what   *)
(* subscribers to the server's events hear of it.                          *)
(*                                                                         *)
(* The handler, the client and the event loop run independently.  Events   *)
(* are announced with setImmediate, so they wait in one queue for the      *)
(* whole server, and listeners are looked up when the event is emitted.    *)
(* reset() drops every listener and starts a new emitter; a request keeps  *)
(* the emitter that it started with.                                       *)
(***************************************************************************)
EXTENDS Integers, Sequences, FiniteSets

CONSTANTS
    Request,   \* requests received, each with one life
    MaxEpoch   \* bound: calls of reset()

ASSUME MaxEpochAssumption == MaxEpoch \in Nat

VARIABLES
    epoch,      \* the emitter that this.eventEmitter refers to
    listening,  \* events of that emitter that have a listener
    emitter,    \* the emitter captured by each request
    stage,      \* where handleRequest is
    result,     \* the `result` variable of handleRequest
    buffering,  \* hasResponseListener
    body,       \* the request body
    owed,       \* a `request` event waits for the body
    response,   \* the response
    queue,      \* callbacks passed to setImmediate, oldest first
    heard       \* events that listeners received about each request

vars == <<epoch, listening, emitter, stage, result, buffering, body, owed,
          response, queue, heard>>

Event == {"request-initiated", "request", "response-initiated", "response", "abort"}
Epoch == 0..MaxEpoch

\* A queued callback emits an event, or is the `abort` of a response's `close`.
Callback == [do : Event \cup {"close"}, for : Request]

(***************************************************************************)
(* The flags of a response: head written, more written than maxBodySize,   *)
(* end() called, destroyed, `close` emitted, and whether the client        *)
(* received all of it.                                                     *)
(***************************************************************************)
Response ==
    [head : BOOLEAN, over : BOOLEAN, ended : BOOLEAN, destroyed : BOOLEAN,
     closed : BOOLEAN, delivered : BOOLEAN]

NewResponse ==
    [head |-> FALSE, over |-> FALSE, ended |-> FALSE, destroyed |-> FALSE,
     closed |-> FALSE, delivered |-> FALSE]

(***************************************************************************)
(* What a request's buffer is resolved with: the whole body, or nothing as *)
(* soon as more than maxBodySize arrived, when the body still streams.     *)
(***************************************************************************)
Resolved == {"whole", "over"}

Live(q) == stage[q] \in {"matching", "handling", "settled"}

TypeOK ==
    /\ epoch \in Epoch
    /\ listening \in SUBSET Event
    /\ emitter \in [Request -> Epoch]
    /\ stage \in [Request -> {"new", "rejected", "matching", "handling", "settled"}]
    /\ result \in [Request -> {"none", "responded", "aborted"}]
    /\ buffering \in [Request -> BOOLEAN]
    /\ body \in [Request -> Resolved \cup {"arriving", "cut"}]
    /\ owed \in [Request -> BOOLEAN]
    /\ response \in [Request -> Response]
    /\ queue \in Seq(Callback)
    /\ heard \in [Request -> Seq([event : Event, epoch : Epoch])]

Init ==
    /\ epoch = 0
    /\ listening = {}
    /\ emitter = [q \in Request |-> 0]
    /\ stage = [q \in Request |-> "new"]
    /\ result = [q \in Request |-> "none"]
    /\ buffering = [q \in Request |-> FALSE]
    /\ body = [q \in Request |-> "arriving"]
    /\ owed = [q \in Request |-> FALSE]
    /\ response = [q \in Request |-> NewResponse]
    /\ queue = <<>>
    /\ heard = [q \in Request |-> <<>>]

-----------------------------------------------------------------------------
(* Subscribers *)

Subscribe(e) ==
    /\ e \notin listening
    /\ listening' = listening \cup {e}
    /\ UNCHANGED <<epoch, emitter, stage, result, buffering, body, owed, response,
                   queue, heard>>

\* Mutant: nothing bounds the emitters.
ResetUncapped ==
    /\ epoch' = epoch + 1
    /\ listening' = {}
    /\ UNCHANGED <<emitter, stage, result, buffering, body, owed, response, queue, heard>>

\* reset(): removeAllListeners, then a new emitter.
Reset ==
    /\ epoch < MaxEpoch
    /\ epoch' = epoch + 1
    /\ listening' = {}
    /\ UNCHANGED <<emitter, stage, result, buffering, body, owed, response, queue, heard>>

\* listenerCount(e) > 0 on the emitter that q captured.
HasListener(q, e) == emitter[q] = epoch /\ e \in listening

Callbacks(q, e) == <<[do |-> e, for |-> q]>>

\* announce...Async, where nothing is queued if nobody listens.
Announcement(q, e) == IF HasListener(q, e) THEN Callbacks(q, e) ELSE <<>>

-----------------------------------------------------------------------------
(* The start of a request *)

\* preprocessRequest throws: the socket gets an error response and handleRequest
\* returns at once.
RejectRequest(q) ==
    /\ stage[q] = "new"
    /\ stage' = [stage EXCEPT ![q] = "rejected"]
    /\ UNCHANGED <<epoch, listening, emitter, result, buffering, body, owed, response,
                   queue, heard>>

\* handleRequest up to the first await: capture the emitter, announce the
\* request, and buffer the response if somebody listens for it.
StartRequest(q) ==
    /\ stage[q] = "new"
    /\ stage' = [stage EXCEPT ![q] = "matching"]
    /\ emitter' = [emitter EXCEPT ![q] = epoch]
    /\ buffering' = [buffering EXCEPT ![q] = "response" \in listening]
    /\ queue' = queue \o (IF "request-initiated" \in listening
                            THEN Callbacks(q, "request-initiated") ELSE <<>>)
    /\ UNCHANGED <<epoch, listening, result, body, owed, response, heard>>

\* Mutant: completed requests are announced without waiting for the body.
MatchingEndsEarly(q) ==
    /\ stage[q] = "matching"
    /\ stage' = [stage EXCEPT ![q] = "handling"]
    /\ queue' = queue \o Announcement(q, "request")
    /\ UNCHANGED <<epoch, listening, emitter, result, buffering, body, owed, response,
                   heard>>

\* The rule is known, or there is none, or a matcher failed: in each case the
\* request is announced when its buffer is resolved, if somebody listens now.
MatchingEnds(q) ==
    /\ stage[q] = "matching"
    /\ stage' = [stage EXCEPT ![q] = "handling"]
    /\ owed' = [owed EXCEPT ![q] = HasListener(q, "request") /\ body[q] = "arriving"]
    /\ queue' = queue \o (IF body[q] \in Resolved THEN Announcement(q, "request") ELSE <<>>)
    /\ UNCHANGED <<epoch, listening, emitter, result, buffering, body, response, heard>>

\* The rest of the request body arrives, or more of it than the buffer holds.
BodyEnds(q) ==
    /\ Live(q)
    /\ body[q] = "arriving"
    /\ \E b \in Resolved : body' = [body EXCEPT ![q] = b]
    /\ owed' = [owed EXCEPT ![q] = FALSE]
    /\ queue' = queue \o (IF owed[q] THEN Callbacks(q, "request") ELSE <<>>)
    /\ UNCHANGED <<epoch, listening, emitter, stage, result, buffering, response, heard>>

-----------------------------------------------------------------------------
(* The handler: the steps of the rule, or the error for unmatched requests *)

\* abort() only has an effect while there is no outcome yet.
AbortResult(q) ==
    IF result[q] = "none" THEN [result EXCEPT ![q] = "aborted"] ELSE result

\* Mutant: an abort is announced whatever the outcome was.
AbortCallbacksAlways(q) == Callbacks(q, "abort")

\* announceAbortAsync does not look for listeners first.
AbortCallbacks(q) == IF result[q] = "none" THEN Callbacks(q, "abort") ELSE <<>>

HeadAnnouncement(q) ==
    IF response[q].head THEN <<>> ELSE Announcement(q, "response-initiated")

\* writeHead, ahead of the body.  It is announced even after the client left.
WriteHead(q) ==
    /\ stage[q] = "handling"
    /\ ~response[q].head
    /\ response' = [response EXCEPT ![q].head = TRUE]
    /\ queue' = queue \o HeadAnnouncement(q)
    /\ UNCHANGED <<epoch, listening, emitter, stage, result, buffering, body, owed, heard>>

(***************************************************************************)
(* A response that is buffered for its event outgrows maxBodySize: the     *)
(* buffer is resolved, and empty, before the response is ended.            *)
(***************************************************************************)
ResponseOverflows(q) ==
    /\ stage[q] = "handling"
    /\ buffering[q]
    /\ response[q].head
    /\ ~response[q].over
    /\ response' = [response EXCEPT ![q].over = TRUE]
    /\ UNCHANGED <<epoch, listening, emitter, stage, result, buffering, body, owed, queue,
                   heard>>

\* `result ||= 'responded'`
Responded(q) == IF result[q] = "none" THEN "responded" ELSE result[q]

\* announceResponseAsync, for a response whose buffer is resolved.
ResponseAnnouncement(q) ==
    IF Responded(q) = "responded" /\ buffering[q]
        THEN Announcement(q, "response") ELSE <<>>

(***************************************************************************)
(* The handler ends the response and returns; or it throws, or returns     *)
(* with a live response not ended, and handleRequest ends the response     *)
(* with an error (the head is kept if it is written).                      *)
(***************************************************************************)
EndResponse(q) ==
    /\ stage[q] = "handling"
    /\ stage' = [stage EXCEPT ![q] = "settled"]
    /\ response' = [response EXCEPT ![q].head = TRUE, ![q].ended = TRUE]
    /\ result' = [result EXCEPT ![q] = Responded(q)]
    /\ queue' = queue \o HeadAnnouncement(q) \o ResponseAnnouncement(q)
    /\ UNCHANGED <<epoch, listening, emitter, buffering, body, owed, heard>>

\* Mutant: a response is announced as soon as its handler returned.
ReturnAnnounced(q) ==
    /\ stage[q] = "handling"
    /\ response[q].destroyed
    /\ stage' = [stage EXCEPT ![q] = "settled"]
    /\ result' = [result EXCEPT ![q] = Responded(q)]
    /\ queue' = queue \o ResponseAnnouncement(q)
    /\ UNCHANGED <<epoch, listening, emitter, buffering, body, owed, response, heard>>

(***************************************************************************)
(* The handler returns when the client is gone, with the response not      *)
(* ended: it counts as responded, but the announcement waits for an end    *)
(* that never comes, unless the buffer was resolved by an overflow.        *)
(***************************************************************************)
ReturnUnended(q) ==
    /\ stage[q] = "handling"
    /\ response[q].destroyed
    /\ stage' = [stage EXCEPT ![q] = "settled"]
    /\ result' = [result EXCEPT ![q] = Responded(q)]
    /\ queue' = queue \o (IF response[q].over THEN ResponseAnnouncement(q) ELSE <<>>)
    /\ UNCHANGED <<epoch, listening, emitter, buffering, body, owed, response, heard>>

\* The handler throws an AbortError (close, reset, a broken stream or upstream).
HandlerAborts(q) ==
    /\ stage[q] = "handling"
    /\ stage' = [stage EXCEPT ![q] = "settled"]
    /\ result' = AbortResult(q)
    /\ queue' = queue \o AbortCallbacks(q)
    /\ response' = [response EXCEPT ![q].destroyed = TRUE]
    /\ UNCHANGED <<epoch, listening, emitter, buffering, body, owed, heard>>

\* The handler throws something that cannot be sent as a body: abort() is called
\* but the response is neither ended nor destroyed.
ThrowUnsendable(q) ==
    /\ stage[q] = "handling"
    /\ stage' = [stage EXCEPT ![q] = "settled"]
    /\ result' = AbortResult(q)
    /\ response' = [response EXCEPT ![q].head = TRUE]
    /\ queue' = queue \o HeadAnnouncement(q) \o AbortCallbacks(q)
    /\ UNCHANGED <<epoch, listening, emitter, buffering, body, owed, heard>>

\* The response emits `error` (for example a write after end).
ResponseErrors(q) ==
    /\ stage[q] = "handling"
    /\ response[q].head
    /\ result' = AbortResult(q)
    /\ queue' = queue \o AbortCallbacks(q)
    /\ UNCHANGED <<epoch, listening, emitter, stage, buffering, body, owed, response, heard>>

-----------------------------------------------------------------------------
(* The client and the event loop *)

Cut(q) == IF body[q] = "arriving" THEN "cut" ELSE body[q]

Close(q) == [response EXCEPT ![q].destroyed = TRUE, ![q].closed = TRUE]

\* Mutant: only the `aborted` event is listened to, as before Node 16.
DisconnectUnchecked(q) ==
    /\ Live(q)
    /\ ~response[q].closed
    /\ response' = Close(q)
    /\ body' = [body EXCEPT ![q] = Cut(q)]
    /\ owed' = [owed EXCEPT ![q] = FALSE]
    /\ \/ /\ result' = AbortResult(q)
          /\ queue' = queue \o AbortCallbacks(q)
       \/ /\ body[q] \in Resolved
          /\ UNCHANGED <<result, queue>>
    /\ UNCHANGED <<epoch, listening, emitter, stage, buffering, heard>>

(***************************************************************************)
(* The connection breaks, or was destroyed by the handler.  Node emits     *)
(* `aborted` on a request that was not received and read to its end, and   *)
(* HTTP/2 emits it on others too, and then `close` on the response.        *)
(***************************************************************************)
Disconnect(q) ==
    /\ Live(q)
    /\ ~response[q].closed
    /\ response' = Close(q)
    /\ body' = [body EXCEPT ![q] = Cut(q)]
    /\ owed' = [owed EXCEPT ![q] = FALSE]
    /\ \/ /\ result' = AbortResult(q)
          /\ queue' = queue \o AbortCallbacks(q) \o Callbacks(q, "close")
       \/ /\ body[q] \in Resolved
          /\ queue' = queue \o Callbacks(q, "close")
          /\ UNCHANGED result
    /\ UNCHANGED <<epoch, listening, emitter, stage, buffering, heard>>

\* All of an ended response is sent: it emits `close` as well.
Deliver(q) ==
    /\ response[q].ended
    /\ ~response[q].closed
    /\ ~response[q].destroyed
    /\ response' = [response EXCEPT ![q].closed = TRUE, ![q].delivered = TRUE]
    /\ queue' = queue \o Callbacks(q, "close")
    /\ UNCHANGED <<epoch, listening, emitter, stage, result, buffering, body, owed, heard>>

\* Mutant: events are emitted by this.eventEmitter, whatever it is by now.
EmitCurrent(q, e) ==
    IF e \in listening
        THEN [heard EXCEPT ![q] = Append(@, [event |-> e, epoch |-> epoch])]
        ELSE heard

\* emitter.emit: whoever listens now hears the event.
Emit(q, e) ==
    IF HasListener(q, e)
        THEN [heard EXCEPT ![q] = Append(@, [event |-> e, epoch |-> epoch])]
        ELSE heard

\* Mutant: the latest immediate is run first.
RunLatest ==
    /\ queue # <<>>
    /\ LET c == queue[Len(queue)]
           rest == SubSeq(queue, 1, Len(queue) - 1) IN
        IF c.do = "close"
            THEN /\ result' = AbortResult(c.for)
                 /\ queue' = rest \o AbortCallbacks(c.for)
                 /\ UNCHANGED heard
            ELSE /\ heard' = Emit(c.for, c.do)
                 /\ queue' = rest
                 /\ UNCHANGED result
    /\ UNCHANGED <<epoch, listening, emitter, stage, buffering, body, owed, response>>

\* Immediates run in the order they were queued.
RunImmediate ==
    /\ queue # <<>>
    /\ LET c == Head(queue) IN
        IF c.do = "close"
            THEN /\ result' = AbortResult(c.for)
                 /\ queue' = Tail(queue) \o AbortCallbacks(c.for)
                 /\ UNCHANGED heard
            ELSE /\ heard' = Emit(c.for, c.do)
                 /\ queue' = Tail(queue)
                 /\ UNCHANGED result
    /\ UNCHANGED <<epoch, listening, emitter, stage, buffering, body, owed, response>>

Handler(q) ==
    \/ WriteHead(q)
    \/ ResponseOverflows(q)
    \/ EndResponse(q)
    \/ ReturnUnended(q)
    \/ HandlerAborts(q)
    \/ ThrowUnsendable(q)
    \/ ResponseErrors(q)

Next ==
    \/ \E e \in Event : Subscribe(e)
    \/ Reset
    \/ RunImmediate
    \/ \E q \in Request :
          \/ RejectRequest(q) \/ StartRequest(q) \/ MatchingEnds(q) \/ BodyEnds(q)
          \/ Handler(q)
          \/ Disconnect(q) \/ Deliver(q)

Spec == Init /\ [][Next]_vars

(***************************************************************************)
(* The event loop runs every immediate.  Nothing is assumed of handlers (a *)
(* timeout step waits for ever) or of clients.                             *)
(***************************************************************************)
FairSpec == Spec /\ WF_vars(RunImmediate)

-----------------------------------------------------------------------------
(* Properties *)

HeardAt(q, e) == {i \in DOMAIN heard[q] : heard[q][i].event = e}

Heard(q, e) == HeardAt(q, e) # {}

Announced(q, e) == \E i \in DOMAIN queue : queue[i] = [do |-> e, for |-> q]

(***************************************************************************)
(* However the handler, the client and the event loop race, subscribers    *)
(* hear each event of a request once at most, and never both that it was   *)
(* answered and that it was aborted.                                       *)
(***************************************************************************)
OneOutcome ==
    \A q \in Request :
        /\ \A e \in Event : Cardinality(HeardAt(q, e)) <= 1
        /\ ~(Heard(q, "response") /\ Heard(q, "abort"))

(***************************************************************************)
(* Requests implement RequestOutcome: handleRequest decides the outcome of *)
(* a request once (`result ||=`), and what subscribers hear of it is told  *)
(* once, in order, and is what became of it.                               *)
(***************************************************************************)
Outcome == INSTANCE RequestOutcome WITH
    outcome <- result,
    told <- [q \in Request |-> [i \in DOMAIN heard[q] |-> heard[q][i].event]]

ImplementsOutcome == Outcome!Spec

(***************************************************************************)
(* Nothing about a request is heard before request-initiated, and the head *)
(* of a response is heard of before the response.                          *)
(***************************************************************************)
EventsInOrder ==
    \A q \in Request :
        /\ HeardAt(q, "request-initiated") \subseteq {1}
        /\ \A i \in HeardAt(q, "response-initiated"), j \in HeardAt(q, "response") : i < j

(***************************************************************************)
(* "Capture the event emitter for this request's lifecycle to avoid races  *)
(* where events fire on servers after they're closed/reset": whoever       *)
(* subscribes after a reset hears nothing of requests from before it.      *)
(***************************************************************************)
NothingFromBeforeReset ==
    \A q \in Request : \A i \in DOMAIN heard[q] : heard[q][i].epoch = emitter[q]

(***************************************************************************)
(* A `request` event is for a body that was received whole and a           *)
(* `response` event for a response that was ended, unless either outgrew   *)
(* maxBodySize: "requests can 'complete' for event/callback purposes while *)
(* they're actually still streaming, but only in this scenario".  One that *)
(* the client broke off before is told by neither.                         *)
(***************************************************************************)
CompletedOnly ==
    \A q \in Request :
        /\ Heard(q, "request") => body[q] \in Resolved
        /\ Heard(q, "response") => response[q].ended \/ response[q].over

\* What is heard of a request is in order, and true when it is heard.
EventsAreTrue == EventsInOrder /\ CompletedOnly

(***************************************************************************)
(* "We know it's aborted because the response is closed with no other      *)
(* result being set": a request whose connection closed gets an outcome,   *)
(* and an abort announced to a listener is heard unless there is a reset.  *)
(***************************************************************************)
ClosedGetsOutcome ==
    \A q \in Request :
        /\ response[q].closed ~> result[q] # "none"
        /\ Announced(q, "abort") /\ HasListener(q, "abort")
              ~> Heard(q, "abort") \/ emitter[q] # epoch

=============================================================================
