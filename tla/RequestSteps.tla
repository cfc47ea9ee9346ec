------------------------------ MODULE RequestSteps ------------------------------
(***************************************************************************)
(* The steps of a request rule: how each one answers a request, one after  *)
(* another, and what handleRequest makes of how they end.  PassThroughStep *)
(* has a module of its own, Passthrough.                                   *)
(*                                                                         *)
(* A step is its type and how it goes; the body of the request is received *)
(* whole, cut off by the client, or still open for as long as it waits.    *)
(***************************************************************************)
EXTENDS Naturals, Sequences

CONSTANT MaxSteps   \* bound: steps of a rule

ASSUME MaxStepsAssumption == MaxSteps \in Nat

BodyFate == {"whole", "cut", "open"}

Step ==
    [type : {"simple"}, how : {"plain", "pseudo-header", "loose trailers"}]
    \cup [type : {"callback"}, how : {"answers", "throws", "close", "reset", "pseudo-header", "nothing"}]
    \cup [type : {"stream"}, how : {"ends", "fails", "destroyed", "ended before", "used before"}]
    \cup [type : {"file"}, how : {"found", "missing"}]
    \cup [type : {"close-connection", "reset-connection", "timeout", "delay", "wait-for-request-body"},
          how : {"plain"}]
    \cup [type : {"json-rpc-response"}, how : {"call", "no call", "no result"}]
    \cup [type : {"webhook"}, how : {"sent", "loop", "relative"}]
    \cup [type : {"informational-response"}, how : {"hints", "upgrade"}]

IsFinal(step) ==
    step.type \notin {"delay", "wait-for-request-body", "webhook", "informational-response"}

\* The constructors of the steps: no pseudo headers, trailers with chunks only, a result or an
\* error for JSON-RPC, an absolute URL for a webhook, and no 101 among the informational responses.
CanBeMade(step) ==
    /\ step.type = "simple" => step.how = "plain"
    /\ step.type = "json-rpc-response" => step.how # "no result"
    /\ step.type = "webhook" => step.how # "relative"
    /\ step.type = "informational-response" => step.how # "upgrade"

\* Mutant: a rule may go on after a step that ends it.
IsAnyRule(steps) == steps # <<>> /\ \A i \in DOMAIN steps : CanBeMade(steps[i])

\* The constructor of RequestRule.
IsRule(steps) ==
    /\ steps # <<>>
    /\ \A i \in DOMAIN steps : CanBeMade(steps[i]) /\ (IsFinal(steps[i]) => i = Len(steps))

-----------------------------------------------------------------------------
(* A response: the heads sent, whether end was called or the connection    *)
(* was closed by the rule, and whether its body lacks something; how many  *)
(* steps ran, and how the last one ended.                                  *)

NoResponse ==
    [heads |-> <<>>, ended |-> FALSE, closed |-> FALSE, partial |-> FALSE,
     ran |-> 0, outcome |-> "continue"]

With(r, outcome) == [r EXCEPT !.outcome = outcome]
Continue(r) == With(r, "continue")
Return(r) == With(r, "returned")
Fail(r) == With(r, "error")
Abort(r) == With(r, "abort")
Wait(r) == With(r, "waits")

IsFinalHead(head) == head # 103
Headed(r) == \E i \in DOMAIN r.heads : IsFinalHead(r.heads[i])
SendHead(r, status) == [r EXCEPT !.heads = Append(@, status)]
End(r) == [r EXCEPT !.ended = TRUE]
CloseSocket(r) == [r EXCEPT !.closed = TRUE]
Break(r) == [r EXCEPT !.partial = TRUE]
Ran(r, n) == [r EXCEPT !.ran = n]

\* writeHead, which throws if there is a head already, and end.
Answer(r, status) ==
    IF Headed(r) THEN Fail(r) ELSE Return(End(SendHead(r, status)))

\* Closes or resets the socket and throws an AbortError.
CloseByRule(r) == Abort(CloseSocket(r))

\* Await the whole request body.
Await(body, r, then) ==
    CASE body = "whole" -> then
      [] body = "cut" -> Fail(r)
      [] body = "open" -> Wait(r)

-----------------------------------------------------------------------------
(* The handle methods. *)

\* CallbackStepImpl with writeResponseFromCallback, which checks what it was given before the head.
HandleCallback(how, body, r) ==
    Await(body, r,
          CASE how = "answers" -> Answer(r, 200)
            [] how = "throws" -> Answer(r, 500)
            [] how \in {"close", "reset"} -> CloseByRule(r)
            [] how \in {"pseudo-header", "nothing"} -> Fail(r))

\* Mutant: the failure of a stream is an error like any other.
HandleFailedStream(how, r) ==
    CASE how = "used before" -> Fail(r)
      [] how \in {"ends", "ended before"} -> Answer(r, 200)
      [] how = "fails" -> Fail(Break(SendHead(r, 200)))
      [] how = "destroyed" -> Wait(Break(SendHead(r, 200)))

\* StreamStepImpl: a stream that is destroyed without an error neither ends nor fails the step.
HandleStream(how, r) ==
    CASE how = "used before" -> Fail(r)
      [] how \in {"ends", "ended before"} -> Answer(r, 200)
      [] how = "fails" -> Abort(Break(SendHead(r, 200)))
      [] how = "destroyed" -> Wait(Break(SendHead(r, 200)))

\* Mutant: the head is written first.
HandleFileLate(how, r) == IF how = "missing" THEN Fail(SendHead(r, 200)) ELSE Answer(r, 200)

\* FileStepImpl: the file is read before the head is written.
HandleFile(how, r) == IF how = "missing" THEN Fail(r) ELSE Answer(r, 200)

\* JsonRpcResponseStepImpl: a body that cannot be read is no call.
HandleJsonRpc(how, body, r) ==
    CASE body = "open" -> Wait(r)
      [] body = "whole" /\ how = "call" -> Answer(r, 200)
      [] OTHER -> Fail(r)

\* WebhookStepImpl: events are sent aside, and a webhook for a webhook is refused.
HandleWebhook(how, r) == IF how = "loop" THEN Fail(r) ELSE Continue(r)

HandleStep(step, body, r) ==
    CASE step.type = "simple" -> Answer(r, 200)
      [] step.type = "callback" -> HandleCallback(step.how, body, r)
      [] step.type = "stream" -> HandleStream(step.how, r)
      [] step.type = "file" -> HandleFile(step.how, r)
      [] step.type \in {"close-connection", "reset-connection"} -> CloseByRule(r)
      [] step.type = "timeout" -> Wait(r)
      [] step.type = "json-rpc-response" -> HandleJsonRpc(step.how, body, r)
      [] step.type = "delay" -> Continue(r)
      [] step.type = "wait-for-request-body" -> Await(body, r, Continue(r))
      [] step.type = "webhook" -> HandleWebhook(step.how, r)
      [] step.type = "informational-response" -> Continue(SendHead(r, 103))

\* RequestRule.handle: the steps in order, for as long as each continues.
HandleRule(steps, body, start) ==
    LET run[n \in 0..Len(steps)] ==
            IF n = 0 THEN start
            ELSE IF run[n - 1].outcome # "continue" THEN run[n - 1]
            ELSE HandleStep(steps[n], body, Ran(run[n - 1], n))
    IN run[Len(steps)]

\* sendUnmatchedRequestError: the head, and then an explanation for which the body is awaited.
SendUnmatched(body, r) ==
    LET sent == SendHead(r, 503) IN Await(body, sent, Return(End(sent)))

-----------------------------------------------------------------------------
(* handleRequest, once the handler is done. *)

\* Mutant: the status is written whatever was sent.
TellErrorAgain(r) == With(End(SendHead(r, 500)), "responded")

\* The error is told by a status if there is no head yet, and the response is ended.
TellError(r) ==
    With(End(IF Headed(r) THEN r ELSE SendHead(r, 500)), "responded")

Settled(r) ==
    CASE r.outcome = "waits" -> r
      [] r.outcome = "abort" -> With(CloseSocket(r), "aborted")
      [] r.outcome = "error" \/ (~r.ended /\ r.outcome \in {"continue", "returned"}) -> TellError(r)
      [] OTHER -> With(r, "responded")

-----------------------------------------------------------------------------
(* What is expected of a request, for every rule and every fate of its body. *)

SomeRuleSteps == {steps \in UNION {[1..n -> Step] : n \in 1..MaxSteps} : IsRule(steps)}

\* One final status at most, and nothing after it.
OneHead(r) == \A i \in DOMAIN r.heads : IsFinalHead(r.heads[i]) => i = Len(r.heads)

\* A response ends with a status, and a body that lacks something never looks complete.
EndsWhole(r) == (r.ended => Headed(r)) /\ ~(r.partial /\ r.ended /\ ~r.closed)

\* A failed step is told as an error, and so is a rule that ends nothing.
ErrorsTold(steps, r, final) ==
    (r.outcome = "error" \/ (r.outcome = "continue" /\ ~r.ended)) => final.heads[Len(final.heads)] = 500

\* A rule goes through all of its steps, unless one fails, closes the connection or waits; and it
\* waits for a reason only.
AllRun(steps, body, r) ==
    /\ r.outcome \in {"continue", "returned"} => r.ran = Len(steps)
    /\ r.outcome = "waits" =>
           \/ steps[r.ran].type = "timeout"
           \/ steps[r.ran] = [type |-> "stream", how |-> "destroyed"]
           \/ body = "open" /\ steps[r.ran].type \in {"callback", "json-rpc-response", "wait-for-request-body"}

RulesAnswerOnce ==
    \A steps \in SomeRuleSteps, body \in BodyFate :
        LET r == HandleRule(steps, body, NoResponse)
            final == Settled(r)
        IN /\ OneHead(final) /\ EndsWhole(final) /\ ErrorsTold(steps, r, final) /\ AllRun(steps, body, r)
           /\ final.outcome \in {"responded", "aborted", "waits"}

\* A request without a rule gets a 503, once its body is done; an open body keeps it waiting.
UnmatchedAnswered ==
    \A body \in BodyFate :
        LET final == Settled(SendUnmatched(body, NoResponse)) IN
        final.heads = <<503>> /\ OneHead(final) /\ (final.ended <=> body # "open")

StepLaws == RulesAnswerOnce /\ UnmatchedAnswered

=============================================================================
