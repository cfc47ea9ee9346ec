---------------------------- MODULE Passthrough ----------------------------
(***************************************************************************)
(* Requests that PassThroughStepImpl.handle forwards to an upstream server.*)
(*                                                                         *)
(* A request prepares (DNS, transforms, callbacks), gets an agent, makes   *)
(* the upstream request (which is another await if the upstream protocol   *)
(* has to be detected by ALPN), and answers its client with the upstream   *)
(* response: piped, replaced unread, or read first and then decided upon.  *)
(* Meanwhile the client may leave and the upstream server may fail.  What  *)
(* is done about either is registered when the upstream request exists.    *)
(*                                                                         *)
(* Bodies of requests are those of BodyBuffer: one that is cut short aborts*)
(* the upstream request as the client's leaving does, at the same time.    *)
(* Where the upstream request goes is a function of the request, which does*)
(* not depend on these variables and is kept in Destinations.              *)
(***************************************************************************)
EXTENDS UpstreamAgents, Destinations

VARIABLES
    stage,      \* where the promise of handle is
    plan,       \* what the response of the upstream server is for
    up,         \* the upstream request and its response
    aborted,    \* serverReq.aborted
    draining,   \* the response was replaced, and the original is read for an event
    failing,    \* who has still to hear of the upstream failure, after the first who did
    reported,   \* reportedUpstreamError
    heard,      \* the rule events of the request, to which somebody subscribes
    down,       \* the client's end
    ended       \* clientRes.end() was called

requestVars ==
    <<stage, plan, up, aborted, draining, failing, reported, heard, down, ended>>
vars == <<agentVars, requestVars>>

Settled == {"resolved", "failed", "aborted"}

\* An upstream failure is an error of the upstream request, or of its response, or of
\* both, and then of the body that is read for an event.
Listener == {"another error", "reader"}

\* "overridden" is a passthrough-response-body event with a body that was replaced.
Event == {"request", "response-head", "response-body", "overridden", "abort"}

\* An upstream request is "breaking" from abort(), or the destruction of its
\* agent, until the error that comes of it is emitted.
TypeOK ==
    /\ AgentsTypeOK
    /\ stage \in [Request -> {"new", "preparing", "agent", "alpn", "sent", "answering",
                              "streaming"} \cup Settled]
    /\ plan \in [Request -> {"none", "pipe", "replace", "read"}]
    /\ up \in [Request -> {"none", "open", "answered", "ended", "breaking", "broken"}]
    /\ aborted \in [Request -> BOOLEAN]
    /\ draining \in [Request -> BOOLEAN]
    /\ failing \in [Request -> SUBSET Listener]
    /\ reported \in [Request -> BOOLEAN]
    /\ heard \in [Request -> Seq(Event)]
    /\ down \in [Request -> {"open", "finished", "left"}]
    /\ ended \in [Request -> BOOLEAN]

Init ==
    /\ AgentsInit
    /\ stage = [q \in Request |-> "new"]
    /\ plan = [q \in Request |-> "none"]
    /\ up = [q \in Request |-> "none"]
    /\ aborted = [q \in Request |-> FALSE]
    /\ draining = [q \in Request |-> FALSE]
    /\ failing = [q \in Request |-> {}]
    /\ reported = [q \in Request |-> FALSE]
    /\ heard = [q \in Request |-> <<>>]
    /\ down = [q \in Request |-> "open"]
    /\ ended = [q \in Request |-> FALSE]

-----------------------------------------------------------------------------
(* What the steps are made of *)

Goes(q, to) == stage' = [stage EXCEPT ![q] = to]

Tells(q, events) == heard' = [heard EXCEPT ![q] = @ \o events]

Upstream(q, to) == up' = [up EXCEPT ![q] = to]

Ends(q) == ended' = [ended EXCEPT ![q] = TRUE]

Flowing(q) == up[q] \in {"open", "answered"}

\* handle rejects with an error: handleRequest ends the response with it.
Fail(q) ==
    /\ Goes(q, "failed")
    /\ Ends(q)
    /\ UNCHANGED <<conn, down>>

\* What becomes of a stream that is destroyed, and of a connection.
IfOpen(state, then) == IF state = "open" THEN then ELSE state

\* handle rejects with an AbortError: handleRequest destroys the response, which is
\* a stream of an HTTP/2 connection, or else all of the connection.
Abort(q) ==
    /\ Goes(q, "aborted")
    /\ UNCHANGED ended
    /\ IF Http2(q)
       THEN /\ down' = [down EXCEPT ![q] = IfOpen(@, "left")]
            /\ UNCHANGED conn
       ELSE /\ conn' = [conn EXCEPT ![ConnectionOf[q]] = IfOpen(@, "destroyed")]
            /\ UNCHANGED down

-----------------------------------------------------------------------------
(* Until the upstream request exists *)

\* getConnection finds no session for an HTTP/2 stream that was closed already;
\* a loop is an error.
Begin(q) ==
    /\ stage[q] = "new"
    /\ IF Http2(q) /\ down[q] = "left"
       THEN Abort(q)
       ELSE \/ Fail(q)
            \/ /\ Goes(q, "preparing")
               /\ UNCHANGED <<conn, down, ended>>
    /\ UNCHANGED <<protocol, agents, asking, plan, up, aborted, draining, failing,
                   reported, heard>>

\* A transform or callback fails, breaks off, gives the whole response, or goes on.
Prepare(q) ==
    /\ stage[q] = "preparing"
    /\ \/ /\ Fail(q) \/ Abort(q)
          /\ UNCHANGED <<protocol, agents, asking>>
       \/ /\ Goes(q, "resolved")
          /\ Ends(q)
          /\ UNCHANGED <<agentVars, down>>
       \/ /\ AskForAgent(q)
          /\ Goes(q, "agent")
          /\ UNCHANGED <<down, ended>>
    /\ UNCHANGED <<plan, up, aborted, draining, failing, reported, heard>>

\* No agent: the connection is dead, or its settings cannot be had.
GoWithout(q) ==
    /\ stage[q] = "agent"
    /\ \/ Refuse(q) /\ Abort(q)
       \/ AgentFails(q) /\ Fail(q)
    /\ UNCHANGED <<plan, up, aborted, draining, failing, reported, heard>>

PrepareProxy(q) ==
    /\ stage[q] = "agent"
    /\ AwaitCerts(q)
    /\ UNCHANGED requestVars

\* makeRequest, and in the same turn every handler of its events.
Send(q) ==
    /\ Goes(q, "sent")
    /\ Upstream(q, "open")
    /\ Tells(q, <<"request">>)

\* With both agents at hand, h2Client.auto first detects the protocol.
GoThrough(q, tryHttp2) ==
    IF tryHttp2
    THEN Goes(q, "alpn") /\ UNCHANGED <<up, heard>>
    ELSE Send(q)

UseAgent(q) ==
    /\ stage[q] = "agent"
    /\ \/ (ReuseProxyAgent(q) \/ BuildProxyAgent(q)) /\ GoThrough(q, FALSE)
       \/ \E keys \in DirectKeys(q) :
             UseDirectAgent(q, keys) /\ GoThrough(q, "http2:" \in keys)
    /\ UNCHANGED <<plan, aborted, draining, failing, reported, down, ended>>

\* The upstream connection fails before there is a request: an upstream error,
\* or an invalid HTTP/2 request.  The response may have to break, or is a 502.
AlpnFails(q) ==
    /\ stage[q] = "alpn"
    /\ Fail(q) \/ Abort(q)
    /\ UNCHANGED <<protocol, agents, asking, plan, up, aborted, draining, failing,
                   reported, heard>>

AlpnSucceeds(q) ==
    /\ stage[q] = "alpn"
    /\ Send(q)
    /\ UNCHANGED <<agentVars, plan, aborted, draining, failing, reported, down, ended>>

-----------------------------------------------------------------------------
(* The upstream response *)

\* Its head arrives.  A body that is piped is announced at once; one that HTTP/2 says
\* is empty is dropped; others are the business of Answer.
UpstreamHead(q) ==
    /\ up[q] = "open"
    /\ stage[q] = "sent"
    /\ \/ /\ Goes(q, "streaming")
          /\ plan' = [plan EXCEPT ![q] = "pipe"]
          /\ Upstream(q, "answered")
          /\ Tells(q, <<"response-head", "response-body">>)
          /\ UNCHANGED ended
       \/ /\ Http2(q)
          /\ Goes(q, "resolved")
          /\ plan' = [plan EXCEPT ![q] = "pipe"]
          /\ Upstream(q, "ended")
          /\ Ends(q)
          /\ Tells(q, <<"response-head", "response-body">>)
       \/ /\ Goes(q, "answering")
          /\ plan' \in {[plan EXCEPT ![q] = p] : p \in {"replace", "read"}}
          /\ Upstream(q, "answered")
          /\ Tells(q, <<"response-head">>)
          /\ UNCHANGED ended
    /\ UNCHANGED <<agentVars, aborted, draining, failing, reported, down>>

\* Mutant: the event does not wait for the body.
AnnouncedEarly(q) ==
    /\ stage[q] = "answering"
    /\ plan[q] = "replace"
    /\ Goes(q, "resolved")
    /\ Ends(q)
    /\ Tells(q, <<"overridden">>)
    /\ UNCHANGED <<agentVars, plan, up, aborted, draining, failing, reported, down>>

\* The response is replaced without reading it, which is then read to be announced; or
\* the replacement (a file) is not to be had, and nobody reads the response.
Replace(q) ==
    /\ stage[q] = "answering"
    /\ plan[q] = "replace"
    /\ \/ /\ Goes(q, "resolved")
          /\ Ends(q)
          /\ draining' = [draining EXCEPT ![q] = TRUE]
          /\ UNCHANGED <<conn, down>>
       \/ Fail(q) /\ UNCHANGED draining
    /\ UNCHANGED <<protocol, agents, asking, plan, up, aborted, failing, reported, heard>>

\* All of the response is read, and what the transform or callback makes of it is
\* known: another body, the same one, an error, or a broken connection.
Answer(q) ==
    /\ stage[q] = "answering"
    /\ plan[q] = "read"
    /\ up[q] = "ended"
    /\ \/ /\ Goes(q, "resolved")
          /\ Ends(q)
          /\ Tells(q, <<"overridden">>) \/ Tells(q, <<"response-body">>)
          /\ UNCHANGED <<conn, down>>
       \/ Fail(q) /\ UNCHANGED heard
       \/ Abort(q) /\ Tells(q, <<"overridden">>)
    /\ UNCHANGED <<protocol, agents, asking, plan, up, aborted, draining, failing,
                   reported>>

\* A piped response flows as its client reads it; a replaced one once it was replaced.
Read(q) ==
    \/ stage[q] = "streaming" /\ down[q] # "left"
    \/ plan[q] = "read"
    \/ draining[q]

\* The end of the upstream response.
UpstreamEnd(q) ==
    /\ up[q] = "answered"
    /\ Read(q)
    /\ Upstream(q, "ended")
    /\ IF stage[q] = "streaming"
       THEN Goes(q, "resolved") /\ Ends(q)
       ELSE UNCHANGED <<stage, ended>>
    /\ Tells(q, IF draining[q] THEN <<"overridden">> ELSE <<>>)
    /\ draining' = [draining EXCEPT ![q] = FALSE]
    /\ UNCHANGED <<agentVars, plan, aborted, failing, reported, down>>

\* reportUpstreamAbort.  Mutant: every call is an event.
ReportEvery(q) ==
    /\ Tells(q, <<"abort">>)
    /\ reported' = [reported EXCEPT ![q] = TRUE]

\* Only the first call is an event.
Report(q) ==
    /\ Tells(q, IF reported[q] THEN <<>> ELSE <<"abort">>)
    /\ reported' = [reported EXCEPT ![q] = TRUE]

\* Mutant: the error does not reject the promise.
RejectNothing(q) == UNCHANGED <<stage, ended, conn, down>>

\* The promise is rejected, if it is pending.  Unless we aborted it ourselves, an
\* upstream failure is mirrored downstream, or is a 502.
Reject(q) ==
    IF stage[q] \in Settled
    THEN UNCHANGED <<stage, ended, conn, down>>
    ELSE Fail(q) \/ (~aborted[q] /\ Abort(q))

\* The first listener hears of the failure.  Of a response, request and response may
\* both tell.  The body that is read for an event fails as well, and also if it is read
\* only later: a replacement that is still being prepared goes on all the same.
Breaks(q) ==
    /\ Upstream(q, "broken")
    /\ Report(q)
    /\ Reject(q)
    /\ \E later \in SUBSET Listener :
          /\ stage[q] = "sent" => later = {}
          /\ draining[q] => "reader" \in later
          /\ "reader" \in later =>
                draining[q] \/ (stage[q] = "answering" /\ plan[q] = "replace")
          /\ failing' = [failing EXCEPT ![q] = later]
    /\ draining' = [draining EXCEPT ![q] = FALSE]
    /\ UNCHANGED <<protocol, agents, asking, plan, aborted>>

\* The upstream server fails.
UpstreamFails(q) == Flowing(q) /\ Breaks(q)

\* The error of an upstream request that was broken here.
UpstreamBroken(q) == up[q] = "breaking" /\ Breaks(q)

\* Another listener hears of the failure in its own turn: it reports it too, and the
\* promise was rejected already.
HearAgain(q) ==
    /\ \E listener \in failing[q] :
          failing' = [failing EXCEPT ![q] = @ \ {listener}]
    /\ Report(q)
    /\ UNCHANGED <<agentVars, stage, plan, up, aborted, draining, down, ended>>

-----------------------------------------------------------------------------
(* The client *)

\* All of the response was sent: `finish`, which removes the abort handlers.
Finish(q) ==
    /\ ended[q]
    /\ down[q] = "open"
    /\ conn[ConnectionOf[q]] = "open"
    /\ down' = [down EXCEPT ![q] = "finished"]
    /\ UNCHANGED <<agentVars, stage, plan, up, aborted, draining, failing, reported,
                   heard, ended>>

\* `aborted` or `close` of unfinished requests: abortUpstream, where it was registered.
Leave(qs) ==
    /\ down' = [q \in Request |-> IF q \in qs THEN "left" ELSE down[q]]
    /\ aborted' = [q \in Request |-> aborted[q] \/ (q \in qs /\ up[q] # "none")]

ResetStream(q) ==
    /\ Http2(q)
    /\ down[q] = "open"
    /\ conn[ConnectionOf[q]] = "open"
    /\ Leave({q})
    /\ Upstream(q, IF Flowing(q) THEN "breaking" ELSE up[q])
    /\ UNCHANGED <<agentVars, stage, plan, draining, failing, reported, heard, ended>>

Disconnect(c) == DestroyConnection(c) /\ UNCHANGED requestVars

\* Every unfinished request is aborted, and the agents are destroyed, which breaks
\* what the finished ones still read.
Close(c) ==
    LET here == {q \in Request : ConnectionOf[q] = c}
    IN  /\ CloseConnection(c)
        /\ Leave({q \in here : down[q] = "open"})
        /\ up' = [q \in Request |-> IF q \in here /\ Flowing(q) THEN "breaking" ELSE up[q]]
        /\ UNCHANGED <<stage, plan, draining, failing, reported, heard, ended>>

-----------------------------------------------------------------------------

Proceeds(q) ==
    \/ Begin(q) \/ Prepare(q) \/ GoWithout(q) \/ PrepareProxy(q) \/ UseAgent(q)
    \/ AlpnFails(q) \/ AlpnSucceeds(q) \/ Replace(q) \/ Answer(q)

Next ==
    \/ \E q \in Request :
          \/ Proceeds(q)
          \/ UpstreamHead(q) \/ UpstreamEnd(q) \/ UpstreamFails(q) \/ UpstreamBroken(q)
          \/ HearAgain(q)
          \/ Finish(q) \/ ResetStream(q)
    \/ \E c \in Connection : Disconnect(c) \/ Close(c)

Spec == Init /\ [][Next]_vars

\* What was begun is answered, an upstream server that does not fail responds and ends,
\* errors and `close` are emitted.  Clients may stay for ever, and nothing has to fail.
Fairness ==
    /\ \A q \in Request :
          /\ WF_vars(Proceeds(q))
          /\ WF_vars(UpstreamHead(q))
          /\ WF_vars(UpstreamEnd(q))
          /\ WF_vars(UpstreamBroken(q))
    /\ \A c \in Connection : WF_vars(Close(c))

FairSpec == Spec /\ Fairness

-----------------------------------------------------------------------------
(* Properties *)

(***************************************************************************)
(* What the code promises where it registers abortUpstream: a client that  *)
(* leaves before its response is complete takes the upstream request with  *)
(* it.  It does not hold: an HTTP/2 stream (or session) that is closed     *)
(* while its upstream protocol is being detected, or a stream closed during*)
(* any of the earlier awaits, is not heard of by handlers registered later.*)
(***************************************************************************)
UpstreamAborted == \A q \in Request : down[q] = "left" => ~Flowing(q)

(***************************************************************************)
(* It does hold on HTTP/1 connections, since getAgent refuses the ones that*)
(* were destroyed during the awaits before it, and there is no await that  *)
(* the client could use between the agent and the handlers.                *)
(***************************************************************************)
UpstreamAbortedOnHttp1 ==
    \A q \in Request : ~Http2(q) /\ down[q] = "left" => ~Flowing(q)

\* What subscribers heard of event e for q.
Told(q, e) == \E i \in 1..Len(heard[q]) : heard[q][i] = e

(***************************************************************************)
(* Subscribers hear of exactly one abort for an upstream request that      *)
(* failed or was aborted, however many listeners report it and whatever    *)
(* comes between them, and of none for one that did not.                   *)
(***************************************************************************)
FailureToldOnce ==
    \A q \in Request :
        Cardinality({i \in 1..Len(heard[q]) : heard[q][i] = "abort"}) =
            IF up[q] = "broken" THEN 1 ELSE 0

(***************************************************************************)
(* A replaced response is announced with its original body only when all of*)
(* that was read: never before its end, never along with its failure.      *)
(***************************************************************************)
OriginalBodyIsWhole ==
    \A q \in Request : Told(q, "overridden") => up[q] = "ended" /\ ~Told(q, "abort")

(***************************************************************************)
(* Without HTTP/2, every request that is passed through comes to an end,   *)
(* whenever its client leaves: it never waits for a response that nobody   *)
(* reads or an upstream request that nobody will answer.                   *)
(***************************************************************************)
PassthroughSettles ==
    (\A c \in Connection : protocol[c] = "h1") =>
        []<>(\A q \in Request : stage[q] \in {"new"} \cup Settled)

(***************************************************************************)
(* URL, events and passthrough agree on where a request is to go, and it   *)
(* goes there unless a rule says otherwise.  It is said of the initial     *)
(* states, as it depends on no variable.                                   *)
(***************************************************************************)
DestinationsAgree == Init => NamesAgree /\ UpstreamIsDestination

=============================================================================
