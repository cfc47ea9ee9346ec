------------------------------- MODULE RuleBuilders -------------------------------
(***************************************************************************)
(* How rules are written: a builder collects matchers, steps, a priority   *)
(* and a completion checker, and every final step hands a rule made of     *)
(* them to the server, which accepts it or refuses it.                     *)
(*                                                                         *)
(* What throws results in no builder or no options: operators that can     *)
(* throw return a set with at most one element.                            *)
(***************************************************************************)
EXTENDS Integers, Sequences, SequencesExt

CONSTANT MaxCalls   \* bound: calls of a builder

ASSUME MaxCallsAssumption == MaxCalls \in Nat

\* No path, an empty one, a text or a regular expression.
PathMatcher == [none |-> "wildcard", text |-> "simple-path", regex |-> "regex-path"]

NewBuilder(matchers) ==
    [matchers |-> matchers, steps |-> <<>>, prio |-> "default", checker |-> "none", made |-> <<>>]

\* RequestRuleBuilder's constructor: the matcher of an empty path throws.
RequestBuilder(method, path) ==
    {NewBuilder((IF method = "any" THEN <<>> ELSE <<"method">>) \o <<PathMatcher[given]>>) :
        given \in {path} \ {"empty"}}

ForUnmatchedRequest ==
    {[builder EXCEPT !.prio = "fallback"] : builder \in RequestBuilder("any", "none")}

\* OPTIONS requests are the server's own as long as CORS is enabled.
ForMethod(method, path, cors) ==
    IF method = "options" /\ cors THEN {} ELSE RequestBuilder(method, path)

WebSocketBuilder(path) ==
    {NewBuilder(<<IF path = "empty" THEN "wildcard" ELSE PathMatcher[path]>>)}

-----------------------------------------------------------------------------
(* The methods of a builder *)

Match(b, matcher) == [b EXCEPT !.matchers = Append(@, matcher)]
AsPriority(b, priority) == [b EXCEPT !.prio = priority]
Complete(b, checker) == [b EXCEPT !.checker = checker]
AddStep(b, step) == [b EXCEPT !.steps = Append(@, step)]

Final == {"reply", "passthrough"}

\* validateMockRuleData, and the constructor of the rule.
IsAccepted(rule) ==
    /\ rule.matchers # <<>> /\ rule.steps # <<>>
    /\ \A i \in DOMAIN rule.steps : rule.steps[i] \in Final => i = Len(rule.steps)

\* Mutant: a rule takes the final step alone.
BuildLastStep(b) ==
    [matchers |-> b.matchers, steps |-> <<Last(b.steps)>>, prio |-> b.prio, checker |-> b.checker]

\* buildBaseRuleData, with the steps.
Build(b) ==
    [matchers |-> b.matchers, steps |-> b.steps, prio |-> b.prio, checker |-> b.checker]

\* Every then... method: the step stays in the builder, whatever the server says of the rule.
Then(b, step) ==
    LET next == AddStep(b, step) IN
    [next EXCEPT !.made = IF IsAccepted(Build(next)) THEN Append(@, Build(next)) ELSE @]

\* A matcher or step that is invalid throws when it is constructed, before it is pushed.
Apply(b, call) ==
    CASE call[1] = "match" -> Match(b, call[2])
      [] call[1] = "priority" -> AsPriority(b, call[2])
      [] call[1] = "complete" -> Complete(b, call[2])
      [] call[1] = "step" -> AddStep(b, call[2])
      [] call[1] = "then" -> Then(b, call[2])
      [] call[1] = "invalid" -> b

\* A builder after the first calls, by their number.
After(builder, calls) ==
    LET after[n \in 0..Len(calls)] ==
            IF n = 0 THEN builder ELSE Apply(after[n - 1], calls[n])
    IN after

\* The arrays of a local rule are its builder's; a remote rule is a copy.
MatchersNow(b, remote) == IF remote THEN b.made[1].matchers ELSE b.matchers

-----------------------------------------------------------------------------
(* Overloads: arguments are texts, buffers, headers, or missing *)

IsData(argument) == argument \in {"text", "buffer"}

\* thenReply, after the status: a message may come before the data.
ReplyArguments(a) ==
    IF IsData(a[2]) THEN [message |-> a[1], data |-> a[2], headers |-> a[3], trailers |-> a[4]]
    ELSE [message |-> "missing", data |-> a[1], headers |-> a[2], trailers |-> a[3]]

\* thenFromFile, after the status.
FileArguments(a) ==
    IF a[2] = "text" THEN [message |-> a[1], path |-> a[2], headers |-> a[3]]
    ELSE [message |-> "missing", path |-> a[1], headers |-> a[2]]

\* thenJson: headers of the user by the same name win.
JsonHeaders(headers) ==
    [name \in {"Content-Type", "Content-Length", "Connection"} \cup DOMAIN headers |->
        IF name \in DOMAIN headers THEN headers[name] ELSE "set"]

-----------------------------------------------------------------------------
(* Passing through.  Options are the callbacks and transforms that are set, a protocol, and  *)
(* what replaces the host of the request.                                                    *)

HostTransforms == {"replaceHost", "matchReplaceHost"}
HeaderTransforms == {"updateHeaders", "replaceHeaders"}
BodyTransforms == {"replaceBody", "replaceBodyFromFile", "updateJsonBody", "patchJsonBody",
                   "matchReplaceBody"}

OneEach(transforms) ==
    \A group \in {HostTransforms, HeaderTransforms, BodyTransforms} :
        \A s, t \in group \cap transforms : s = t

\* A replacement of matchReplaceHost is a pair, which never includes a slash.
ValidHost(o) == "replaceHost" \in o.transforms => ~o.host.path

\* The constructor of PassThroughStep.
PassThroughStep(options) ==
    {o \in {options} :
        \/ ~o.callback /\ OneEach(o.transforms) /\ o.protocol \in {"none", "http", "https"}
                       /\ ValidHost(o)
        \/ o.transforms = {} /\ o.protocol = "none"}

\* The constructor of PassThroughWebSocketStep, which looks at the host only.
PassThroughWebSocketStep(options) ==
    {o \in {options} :
        /\ o.protocol \in {"none", "ws", "wss"}
        /\ ~HostTransforms \subseteq o.transforms
        /\ ValidHost(o)}

\* Mutant: the protocol of the options stays.
KeepProtocol(options, to) ==
    PassThroughStep([options EXCEPT !.transforms = @ \cup {"replaceHost"}, !.host = to])

\* thenForwardTo: to is a host with a path or not, and a protocol or none.
ForwardTo(options, to) ==
    PassThroughStep([options EXCEPT !.transforms = @ \cup {"replaceHost"}, !.host = to,
                                    !.protocol = IF to.scheme = "none" THEN @ ELSE to.scheme])

WebSocketScheme(scheme) ==
    IF scheme = "http" THEN "ws" ELSE IF scheme = "https" THEN "wss" ELSE scheme

WebSocketForwardTo(options, to) ==
    PassThroughWebSocketStep([options EXCEPT !.transforms = @ \cup {"replaceHost"}, !.host = to,
                                             !.protocol = WebSocketScheme(to.scheme)])

-----------------------------------------------------------------------------

Call == {<<"match", "host">>, <<"match", "callback">>, <<"priority", "high">>,
         <<"complete", "once">>, <<"complete", "always">>, <<"step", "delay">>,
         <<"then", "reply">>, <<"then", "passthrough">>, <<"invalid", "path">>}

Named(names, call, methods) == IF call[1] \in methods THEN Append(names, call[2]) ELSE names

\* What the first calls of these methods named, by the number of calls.
Operands(calls, methods) ==
    LET operands[n \in 0..Len(calls)] ==
            IF n = 0 THEN <<>> ELSE Named(operands[n - 1], calls[n], methods)
    IN operands

LatestOf(calls, n, method, otherwise) ==
    LET operands == Operands(calls, {method})[n] IN
    IF operands = <<>> THEN otherwise ELSE Last(operands)

MatchersSaid(calls, n) == <<"wildcard">> \o Operands(calls, {"match"})[n]

\* The rule that the first n calls describe.
RuleSaid(calls, n) ==
    [matchers |-> MatchersSaid(calls, n), steps |-> Operands(calls, {"step", "then"})[n],
     prio |-> LatestOf(calls, n, "priority", "fallback"),
     checker |-> LatestOf(calls, n, "complete", "none")]

\* A builder makes one rule, by its first final step, from exactly what was said before; what
\* is said later changes the matchers of a local rule, and nothing of a remote one.
MadeAsSaid(calls, builder) ==
    LET b == After(builder, calls)[Len(calls)]
        finals == {i \in DOMAIN calls : calls[i][1] = "then"}
        first == CHOOSE i \in finals : \A j \in finals : i <= j
    IN IF finals = {} THEN b.made = <<>>
       ELSE /\ b.made = <<RuleSaid(calls, first)>>
            /\ MatchersNow(b, TRUE) = MatchersSaid(calls, first)
            /\ MatchersNow(b, FALSE) = MatchersSaid(calls, Len(calls))

OneRuleAsSaid ==
    \A calls \in UNION {[1..n -> Call] : n \in 0..MaxCalls}, builder \in ForUnmatchedRequest :
        MadeAsSaid(calls, builder)

\* Whatever a rule starts from, it has a matcher: a reply is accepted.
AnyStartIsAccepted ==
    \A method \in {"any", "get", "options"}, path \in {"none", "empty", "text", "regex"},
       cors \in BOOLEAN :
        /\ \A b \in ForMethod(method, path, cors) \cup WebSocketBuilder(path) :
               Len(Then(b, "reply").made) = 1
        /\ ForMethod(method, path, cors) = {} <=> (path = "empty" \/ (cors /\ method = "options"))

\* Both ways to call thenReply and thenFromFile mean what their types say.
OverloadsAreDistinct ==
    /\ \A data \in {"text", "buffer"}, headers \in {"headers", "missing"},
          trailers \in {"headers", "missing"}, message \in {"text", "missing"} :
           /\ ReplyArguments(<<data, headers, trailers, "missing">>) =
              [message |-> "missing", data |-> data, headers |-> headers, trailers |-> trailers]
           /\ ReplyArguments(<<message, data, headers, trailers>>) =
              [message |-> message, data |-> data, headers |-> headers, trailers |-> trailers]
           /\ FileArguments(<<"text", headers, "missing">>).headers = headers
           /\ FileArguments(<<message, "text", headers>>).headers = headers
    /\ \A names \in SUBSET {"Content-Type", "content-type", "a"} :
           LET sent == JsonHeaders([name \in names |-> "user"]) IN
           \A name \in names : sent[name] = "user"

\* A rule that forwards goes to its target by the protocol that the target names.
ForwardsToTarget ==
    \A callback \in BOOLEAN,
       transforms \in SUBSET (HostTransforms \cup HeaderTransforms \cup BodyTransforms),
       protocol \in {"none", "http", "https", "ws"}, path \in BOOLEAN,
       scheme \in {"none", "http", "https", "ftp"} :
        LET to == [scheme |-> scheme, path |-> path]
            options == [callback |-> callback, transforms |-> transforms, protocol |-> protocol,
                        host |-> [scheme |-> "none", path |-> FALSE]]
        IN /\ \A o \in ForwardTo(options, to) :
                  /\ o.host = to /\ ~path /\ scheme # "ftp" /\ ~callback
                  /\ scheme \in {"none", o.protocol}
                  /\ "matchReplaceHost" \notin o.transforms
           /\ \A o \in WebSocketForwardTo(options, to) :
                  o.host = to /\ ~path /\ o.protocol = WebSocketScheme(scheme) /\ scheme # "ftp"
           /\ ForwardTo(options, to) # {} =>
                  PassThroughStep([options EXCEPT !.protocol = "none"]) # {}

(***************************************************************************)
(* A rule is what its builder was told, whichever way it was told, and     *)
(* what a server would have to refuse is refused when it is said.          *)
(***************************************************************************)
BuilderLaws ==
    OneRuleAsSaid /\ AnyStartIsAccepted /\ OverloadsAreDistinct /\ ForwardsToTarget

=============================================================================
