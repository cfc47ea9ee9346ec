# A TLA+ specification of Mockttp

Mockttp is an HTTP(S) mock server and intercepting proxy. A test configures rules,
the server matches requests against them and handles them, and subscribers hear
events. The same API works locally (`MockttpServer`) or through an admin server
(`AdminClient`, `AdminServer`), which runs mock servers as plugins of sessions.

JavaScript runs one turn at a time: nothing interrupts the code between two
`await`s. What makes the system hard is what happens in between. So an action of
these modules is a stretch of code from one await, callback or timer to the next,
and the properties are about what other requests, configuration calls, closed
connections and lost replies do in the gaps.

All paths are relative to the repository. Line numbers are in `PROJECT.json`.

## 1. Inventory

| Component | State | Operations | Hard behaviour |
|---|---|---|---|
| Rule sets and matching (`src/server/mockttp-server.ts`, `src/rules/requests/request-rule.ts`) | rule sets by priority, the request count of each rule | set, add and reset rules; `findMatchingRule`; `handle` | the check of completion and the count are separated by awaits; rules are replaced during a match |
| Request lifecycle (`mockttp-server.ts`, `src/util/request-utils.ts`) | one outcome per request, an emitter, a queue of immediates | `handleRequest`, announcements, `on`, `reset` | handler, client and event loop race for the outcome; resets between an event and its emission |
| Body buffering (`src/util/buffer-utils.ts`, `request-utils.ts`) | chunks so far, the buffer's promise, streams handed out | `asBuffer`, `asStream`, first reads | truncation and aborts in the middle; streams that join a live body |
| Remote client (`src/client/admin-client.ts`) | session URL, stream, `running` | `start`, `stop`, reconnection | overlapping calls, dropped streams, lost replies, sessions ended by others |
| Admin server (`src/admin/admin-server.ts`, `mockttp-admin-plugin.ts`) | sessions, their plugins and websockets | `/start`, `/stop`, `/reset`, upgrades, `stop` | overlapping stops, a start in flight, plugins that fail |
| Server start and stop (`mockttp-server.ts`) | listening socket, key log | `start`, `stop` | port collisions and the retry after them |
| WebSocket handling (`mockttp-server.ts`, `src/rules/websockets/`) | both sides of a proxied websocket | upgrade, accept, reject, close | either side fails or closes at any time |
| Passthrough (`src/rules/requests/request-step-impls.ts`, `src/rules/passthrough-handling.ts`) | the upstream request and both bodies | forward, transform, abort | early responses, upstream failures, client aborts |
| Upstream agents (`src/rules/http-agents.ts`) | agents of each connection | get or create, destroy | agents of closed connections |
| Combined server (`src/server/http-combo-server.ts`, `socks-server.ts`) | protocol state of each socket | sniffing, TLS, CONNECT, SOCKS | handshakes cut short, errors reported once and as the right kind |
| Client errors (`mockttp-server.ts`) | errors seen on a socket | respond, announce | repeated errors on one socket |
| Port probe and DNS (`src/util/socket-util.ts`, `dns.ts`) | cached results, probes in flight | probe, look up | stale answers, shared probes |
| Rule channels and serialization (`src/serialization/`, `src/rules/rule-serialization.ts`) | topics over one stream | serialize, request, respond, dispose | values that JSON does not keep; responses and disposal cross |
| Matchers, headers, URLs (`src/rules/matchers.ts`, `src/util/header-utils.ts`, `url.ts`) | none | pure functions of a request | what a matcher's text means once URLs are parsed; duplicates and framing of headers |
| Rule builders (`src/rules/*-builder.ts`, `src/mockttp.ts`) | the matchers, steps and settings so far | a fluent API | order and repetition of calls, overloaded arguments |
| GraphQL model, certificates, utilities | none, or data only | translation | little |

How they interact: an `AdminClient` calls `/start` of the `AdminServer` over HTTP, which
makes a session with plugins (a `MockttpServer` each); rules cross as GraphQL, and the
callbacks in them through channels on the session's stream. In the mock server a request
goes through the combined server to `handleRequest`, which uses `findMatchingRule`, hands
the request to the steps of a rule (through the body buffers), and announces events on
its emitter; `reset` replaces rules and emitter under it.

## 2. Modules

### RuleMatching, RuleDispatch

`findMatchingRule` and its callers. `sets[g]` is the g-th rule-set object: a request
keeps the object that it started with (`search[q].from`), and `addRequestRules` changes
that object in place while `setRequestRules` and `reset` make another. The actions of a
request are the turns of the search: `Arrive` starts all matchers of the first level,
`TakeFirst`, `PassOver` and `Mismatch` are one `await match` each, `TakeLast` and
`FallThrough` the last resort, `Handle` the turn in which the count moves. A matcher may
answer anything, or fail. Priorities are natural numbers in units of `1/PriorityUnit`,
so that fractional ones can be said: they are ordinary string keys to JavaScript.

`RuleDispatch` is what this promises: a request is granted at most one rule, which is
not exhausted at that moment, and is counted once. `ImplementsDispatch` is the refinement.

### RequestLifecycle

`handleRequest` as three processes: the handler (which may write the head, end, throw,
abort or return without an end), the client (body, disconnection, delivery) and the event
loop (`RunImmediate`), over `result`, the queue of immediates and the emitter captured at
the start. `reset` starts a new emitter (`epoch`). `heard` is what listeners were told. A body
that outgrows `maxBodySize` resolves its buffer at once, so that matching goes on and events are
told before it ended: the request's body is then `over` the limit, and a response has `over` set.

`RequestOutcome` is the abstract specification: a request's outcome is decided once, and its events
are told one at a time, in order and in accordance with the outcome. `ImplementsOutcome` maps
`result` and the events of `heard` to it.

### BodyBuffer

`parseBodyStream`, `streamToBuffer` and `bufferThenStream`. The input delivers numbered
chunks; each reader is a stream returned by `asStream`, lazy until it is first read or
the buffer announces a truncation. Backpressure is left out: it delays chunks only.

### UpstreamAgents, Passthrough

`UpstreamAgents` is `getAgent` and the agents of a connection. It has no next-state
relation of its own: `Passthrough` extends it, and each of its actions is part of a step
of a request (`UseAgent` is `UseDirectAgent`, or the two ways to a proxy's agent, together
with what the request does next in the same turn). `ConnectionOf` says which requests
share a connection; its protocol is chosen in `Init`.

`Passthrough` is `PassThroughStepImpl.handle` and the listeners that it leaves behind.
`stage` is where its promise is, `up` the upstream request and response, `down` the
client's end (`finished` when the `finish` event removed the abort handlers, `left` when the
client went before that), `heard` the rule events. What is asynchronous before there is an
upstream request (DNS, files, callbacks, CAs, port probes) is one stage, `preparing`, since
nobody listens to anything in it; `agent` and `alpn` are stages of their own, since they
look at the connection or fail in their own way. Three plans for a response are told
apart: it is piped, replaced without being read (and then read for an event), or read before the
answer is known. `aborted` is `serverReq.aborted`, which decides what becomes of an
error. An abort or a destroyed agent makes `up` `breaking`; the `error` event follows in
another turn. An `AbortError` destroys the response, which on HTTP/1 is the connection
that other requests share: a mirrored failure of one request so aborts the others.
The first listener that hears of an upstream failure reports it (`Breaks`); `failing` holds those
who hear of it later, each in a turn of its own and with anything in between (`HearAgain`): the
`error` of whichever of request and response comes second, and the reader of a body that was
replaced. In which order Node emits the two errors is left open, as both listeners do the same.

### Headers, Destinations

The functions that a passthrough computes with: headers as sequences of pairs, with repeated
names, their conversion between objects and pairs and between
HTTP/1 and HTTP/2, updates, and the framing of a body that was replaced (`Headers`); and
the four places that name a request's target (URL, host header, tunnel, connection), how
they become one destination and what transforms make of it (`Destinations`). What a law
compares with is a definition of its own: the header values that are left, the length of
the body that is sent, the server that the request ends up at. Names
that were received are in lower case in the model, since all that reads them ignores their case; those
in the object of a rule may also be in another one (`Cased`), since there a lookup is of the name as it
is written. The text of an IPv6 address is abstracted to what the code makes of it: `LastGroup` is what
is left after its last colon, read as a port, `Shortened` and `Opened` what comes before it.
Loops over headers are
recursive functions over sequences, which can be reasoned about by induction. `Forwarding` puts `Headers` beside
`Passthrough`, with the law about headers.

### RequestSteps

`handle` of every step but the passthrough, as functions of the response so far: heads,
`end`, a closed connection. `HandleRule` runs the steps of a rule in order, for every rule
of up to `MaxSteps` that the constructors accept (`IsRule`) and every fate of the request's
body, and `Settled` is what `handleRequest` makes of how they ended. It says with functions what
`RequestLifecycle` leaves to any handler. `HandleRule` is a recursive function of the number of steps, which
can be reasoned about by induction. `Requests` puts it beside `RequestLifecycle`, with the law that
requests with such rules obey.

### Matchers, RuleBuilders

`Matchers` has each matcher as a predicate on a sample request whose URL was normalized,
and laws about what the text of a matcher means: a host with its port is the conjunction of
hostname and port, whichever way it is written. `RuleBuilders` has the methods of the
builders as functions of a builder; `OneRuleAsSaid` compares the rule that up to `MaxCalls`
calls make with what each call names, taken by itself. `Rules` puts both beside `RuleMatching`, with
the laws over all samples.

### RemoteRules, RemoteBodies

What becomes of a rule, of the body of a message and of the result of a callback on the
way between client and server. Values are pairs of a kind and a content, so that JSON can be
said by what it does to each kind. The laws say that the meaning of a step is the same
on both sides (`Meaning` is what its handler reads), with the exceptions as part of the
law: a step arrives if and only if it is `Portable`.

### ServerLifecycle, SocksServer, ComboServer, MockttpServer

`ServerLifecycle` is `start` and `stop` of the servers of a process, which share the mutex
of the port check; others take and leave ports at any time. A collision starts the server
again, with the default range instead of the one it was asked for, and `blamed` remembers who had
the port.

`ComboServer` is a connection from its first byte to HTTP: what is sniffed, TLS with its
passthrough, its confirmation and its failures, CONNECT on HTTP/1 and HTTP/2, and
`passthroughSocket`. `SocksServer` has the handshakes, one action per part of a message that is
awaited. A layer that is unwrapped puts the connection back to `new`, with the symbols
that the code copies from socket to socket (`encrypted`, `tunnel`, `tagged`, `trusted`); `hop` is what
client and server last agreed on, and `used` how the client authenticated and what it said as
metadata, which the code does not store and the properties compare with. The data of client errors is
bytes, since the code compares it byte by byte. `MockttpServer` composes the two: clients connect to a server that listens, and
`stop` destroys their connections.

### WebSocketProxy

`handleWebSocket`, the final steps of WebSocket rules, the upstream request of a passthrough,
and the two WebSockets piped to each other. `socket` is the raw socket of the client,
`ws` and `code` the library's view of each end, `told` the statuses in the close frames that each
peer was sent, and `fault` what was wrong with a bad frame of a peer: the library's errors (1002,
1007 and 1009), or a close with an invalid status, which the pipe sends on to the other peer as it
is, past the library's checks. A client can end its side or reset at any time, also when nothing listens.

### AdminClient

`running` is a boolean or the promise of a call. A call stops at each await; a promise
that has settled resumes those who await it before any reply or stream event is handled
(`Quiet`), as microtasks do. Sessions end by themselves too, since others can reset
the admin server. The stream drops, reconnects up to `Attempts` times, or is shut down
with code 1000, and then the client calls its own `stop()`. Calls and sessions are
sequences and are used in their order, which is how the model avoids looking at
permutations of them. `overlapped` remembers whether two calls of the user were ever in
progress at once: some promises hold only for a user who awaits each call.

### AdminServer

A session is registered when all its plugins have started and deleted when its stop
begins. `/stop`, `/reset`, a stream error and `stop()` begin stops and await those that
they began. Plugins may fail to start or stop, at any time. `server` is `this.server`:
null, listening, set by a `start()` that could not listen, or being destroyed.

## 3. Runs and bounds

| Run | Configuration | Question | Bounds |
|---|---|---|---|
| `matching` | `MCRuleMatching.cfg` | limits, priorities, refinement and progress with requests and configuration interleaved; the laws of matchers and builders | 2 requests at a time, 3 arrivals, 3 rules (default, once, once as fallback), batches of 2, 1 replacement: 938 000 states |
| `request_lifecycle` | `MCRequestLifecycle.cfg` | what subscribers hear, the refinement of `RequestOutcome`; how rules of steps answer | 1 request, 1 reset: 480 000 states; rules of 3 steps |
| `body` | `MCBodyBuffer.cfg` | streams, buffer, truncation | 3 streams, 4 chunks, a limit of 2: 1 900 states |
| `upstream` | `MCPassthrough.cfg` | agents, aborts, failures and progress of passed-through requests; the laws of headers and destinations | 2 requests on 1 connection, HTTP/1 or HTTP/2: 387 000 states; 3 headers |
| `client` | `MCAdminClient.cfg` | start, stop, reconnection and shutdown of a client; what survives serialization | 4 calls, 2 at a time, 2 sessions, 2 reconnections: 176 000 states |
| `server` | `MCAdminServer.cfg` | overlapping starts and stops | 2 sessions of 2 plugins, 2 calls: 174 000 states |
| `connections` | `MCMockttpServer.cfg` | ports, handshakes, what is told of a connection, `stop` | 2 servers, 2 ports, 2 collisions; 1 connection with 2 tunnels and 3 bytes of data with errors: 362 000 states |
| `websocket` | `MCWebSocketProxy.cfg` | the events of a WebSocket request and the end of both sides | 1 request, 2 valid and 2 invalid close codes, 1 message from each peer: 3 600 states |

Laws of pure functions are written `Init => Law` (`MatchersAgree`, `RulesAreAsSaid`,
`StepsAnswerOnce`, `RemoteMeansSame`, `HeadersSurvive`, `DestinationsAgree`): the functions
have no state, so the law is evaluated once, in the initial states of the module that uses
them. A law enumerates all samples of its module, which are named there and in the
configuration. Samples of serialization (`RemoteMeansSame`) have matchers as one wildcard text only:
the serialization of `CallbackMatcher`, the `Uint8Array` content of `withMultipartForm` and WebSocket
passthrough rules are outside of them.

Why the bounds are enough. Two requests are enough for the races of matching, where a
rule's count is all that requests share, and for those of a connection, where they share
its agents and its end; the third arrival of `matching` comes after a rule is used up.
Requests share nothing in `handleRequest` but the queue and the listeners, so that one is
enough there. A limit of two chunks of four has every relation of a stream to the
truncation: asked for before, at and after it, and read for the first time before, at and after
it. Two sessions are needed to have the stream of an old session beside a new one, and four
calls to stop and restart a client in the middle of a reconnection. Connections share nothing
but the port, and what they hand on goes from one layer to the next, so one connection with
two tunnels (any of CONNECT and SOCKS, with TLS before, between and after) is enough for it;
two servers are enough to race for a port. Three bytes, in packets that begin alike, are enough for
one packet to repeat, extend or only seem to repeat the one before. A WebSocket request has two ends, and one
message from each tells what is piped and announced before and after a close. The state space
of `connections` is a sum and not a product, since clients come only after the races for
ports: a server that listens takes no part in those any more.

`CHECK_DEADLOCK FALSE` everywhere: a server at rest has nothing to do, and the bounds
on calls, arrivals and chunks end every behaviour. No symmetry is used, since every passing
run also checks liveness.

What the properties say beyond their comments:

* `OverrunBounded` and `RightRuleChosen` are what is left of "exactly n times" and "higher
  priority first" when requests are concurrent: a limit can be overrun by each other
  request that is in progress, and a matching rule can be passed over only if it, or
  one after it of its priority, is complete. `ImplementsDispatch` is the exact limit at the
  moment of the grant.
* In `request_lifecycle`, `ClosedGetsOutcome` is about requests whose connection closed. A
  handler may wait for ever (the timeout step does), so nothing is said of the others.
* In `request_lifecycle`, `EventsAreTrue` says what `request` and `response` mean: received, or
  ended, as a whole, unless the body outgrew `maxBodySize`.
* In `client`, `RunningIsConnected`, `ShutdownStopsOwnSession` and `LossIsHeard` assume that
  calls have not overlapped: with two `start()` calls in one turn both go ahead, and then
  none of them holds.
* In `connections`, `PortsAsAsked` lets a server leave its range when none of it is free or after a
  collision. `FailuresWhole` excepts data that begins with the same bytes twice (`BeginsTwice`), of
  which the code cannot tell what was repeated. `LastHopIsTold` leaves out SOCKS within TLS, where
  `LastHopEncrypted` stays; for TLS within TLS the flag cannot say how many layers there were.
  `ConnectionsSettle` has a stage of its own (`Stuck`) for an empty part of a SOCKS message:
  `readBytes` of no bytes waits for as long as the client stays.
* In `websocket`, `UpstreamFollowsClient` is about clients that reset, and about pairs that were
  upgraded: a client that ends its side while the upstream request is pending is not heard of.
  In `CodesNotInvented`, 1005 and 1006 are in a close frame only if the other peer did send them.
* `RemoteMeansSame`, `HeadersSurvive` and `DestinationsAgree` name the inputs for which the code
  does something else, as listed below, and hold for all others.
* In `upstream`, `PassthroughSettles` is for HTTP/1. On HTTP/2 a stream that was reset early is
  written to for ever: the pipe waits for a `drain` that does not come.

### What the runs that find a violation show

Each contradicts a sentence of the documentation or of a comment, and checks one property.

* `last_race` (`MCRuleMatching_last_race.cfg`): a 503 although a rule that repeats for ever
  matched, as a rule after it became complete meanwhile. `RightRuleChosen` says
  what holds instead.
* `fractional_priority` (`MCRuleMatching_fractional.cfg`): a rule of priority 1.5 is chosen before one of
  priority 2, as integer keys come first in an object and the levels are reversed. The run `matching` and
  the theorem about it have whole priorities.
* `stop_fails` (`MCAdminClient_stop_fails.cfg`): after a `stop()` whose request failed the client is
  stopped but cannot be started, since its base URL is still set.
* `h2_abort` (`MCPassthrough_h2_abort.cfg`): an HTTP/2 stream that is reset while its request
  is prepared does not abort the upstream request, which is sent all the same.
  `UpstreamAbortedOnHttp1` says where it does.

### Noticed while modelling

The models do as the code does in these cases; there is no run of its own for them.

Against what a comment or the documentation says, and excepted by name from the property that holds:

* a stream that is asked for after its body was truncated, while the promise of the buffer has yet to be
  heard or once `completedBuffer` is set (an empty `Buffer` is truthy, `request-utils.ts:158`), does not
  have the full body that lines 152-154 promise (`StreamsHaveFullBody` is about streams asked for in time);
* after a collision `start()` calls itself without its argument (`mockttp-server.ts:205`), so a server
  leaves the range that `mockttp.ts:67-68` calls allowed, although a port of it is free (`PortsAsAsked`);
* data that begins with the bytes of the data before it replaces it in the packet of a client error
  (`mockttp-server.ts:1025`), which so does not have it all, as lines 1018-1019 say (`FailuresWhole`);
* a callback that returns a wrong `Content-Length`, in this case, has it sent beside the right one, as the
  lookup in its object (`header-utils.ts:34`) is case-sensitive; `passthrough-handling.ts:459-460` calls
  that impossible (`HeadersSurvive`);
* a host `[::1]`, without a port, is cut at its last colon before its brackets are looked at
  (`url.ts:69`), and the request is refused or goes to another port (`DestinationsAgree`).

Requests: a client that leaves after the handler returned is not
announced as an abort, even if its response or its own body was not complete; a stream that is
destroyed without an error after it was piped never settles its step; an unmatched request is
explained only when its whole body was received (`mockttp-server.ts:942`); a rule whose
last step continues ends in a 500.

Passthrough: an upstream failure during ALPN detection emits no `passthrough-abort`; a piped
response that breaks in the middle is ended downstream with the text of the error; a response
whose replacement cannot be read is neither read nor aborted upstream until the connection closes.

Headers: a callback that returns a `Host` in another case has the request sent with two hosts; `updateRawHeaders` keeps the second of two adjacent duplicates that it should remove; a
request from HTTP/2 with a replaced body and an own `content-length` keeps the wrong length on its
way to HTTP/1, although `passthrough-handling.ts:460` calls that impossible, and so does a replaced
body whose `transfer-encoding` was removed; `rawHeadersToObject` drops an empty first
duplicate; `h2HeadersToH1` looks for `chunked` among name and value instead of in the value.

Destinations: `applyDestinationTransforms` writes into the original headers, against its comment
(`passthrough-handling.ts:373`); every `transformRequest` rewrites the host header, with a port, even
if the host stays; IPv6 brackets are kept in one place and dropped in another; `getEffectiveHostname`
cuts the last group of a bare IPv6 address too, if it is decimal (`2001:db8::1234` becomes `2001:db8:`);
`matchReplaceHost` splits addresses at their colons as well. An empty host header
is not modelled: there the first segment of the path becomes the host of the URL.

Matchers: host and port matchers with a default port never match WebSocket requests; `host:443/`
without a protocol never matches HTTPS on 443, and `host:80/` does; the hostname matcher is
case-sensitive while URLs are lower-cased; `RegexBodyMatcher` drops the flags of its expression; a
matcher that rejects after another one answered false at once is an unhandled rejection.

Builders: a local rule shares the array of matchers of its builder; a second final call is rejected;
`thenForwardTo` drops `setProtocol` for WebSockets, and keeps it for HTTP, when the target names no
protocol; the check that a replaced host has no path looks at pairs and never finds one.

Remote rules: WebSocket rules lose their priority; an `undefined` below the first level of
`updateJsonBody` arrives as the marker text; typed arrays do not arrive as fixed data, nor Buffers as
the body of a WebSocket rejection; a `beforeRequest` that returns nothing fails remotely; the failure of
a remote stream is not passed on, so that its response hangs; an encoded body that decodes to nothing
cannot be read (`body-serialization.ts:75`); an empty string that replaces a body means
"unchanged" once it was sent.

Admin: `/reset` returns while a session that somebody else is stopping still runs; a session that is
starting outlives a reset; a GraphQL reset for a session that was just deleted is a `TypeError`.

Client: a `start()` that fails at its schema query leaves the base URL set, so that the client can
neither be started again nor stopped (`admin-client.ts:479`).

Connections: the key
log of a collided start is never ended; `stop()` after a failed start rejects; an HTTP/2 connection
that fails at once can be told as `client-error` and then as `tls-client-error`; `stop()` makes
connections that are not trusted yet report `tls-client-error`; with `http2: false`, a client that offers
HTTP/2 alone still gets it (`http-combo-server.ts:200`).

WebSockets: a client that ends its side, or whose handshake is invalid, while the upstream request is
pending leaves the upstream WebSocket open; a client that does not answer a forwarded close in time is
announced as an abort; a half-open client of a timeout rule is not; a close with 1005 or 1006 goes on to
the other peer, which no peer may send, and on purpose.

## 4. Fairness

Weak fairness of single actions or of the steps of one actor, never of a choice of outcome.
`RuleMatching`: matchers answer or fail, so requests take their turns. `RequestLifecycle`:
the event loop runs immediates; nothing is assumed of handlers or clients. `BodyBuffer`: the
input goes on, ends or aborts, and streams are read. `Passthrough`: awaits settle, an
upstream server that does not fail sends its head and its end to somebody who reads it, and
Node emits `close` and errors; clients may stay for ever and nothing has to fail.
`AdminClient`: replies arrive or fail, closed streams are heard of, timers fire; and a session that
ended closes its stream, which the admin server does unless a plugin fails to stop (`StopsSettle`):
where it does not, nothing tells the client.
`AdminServer`: plugins settle what was asked of them. `MockttpServer`: what Node owes a
connection (hellos that came are read, handshakes end, writes call back, immediates run, what was
destroyed is closed), and of a client in the middle of a handshake that it sends the next part
or leaves. `WebSocketProxy`: DNS, the upstream handshake and the closing handshakes of the `ws`
library end, by its timer if not by a frame; no peer has to close. In each case it is Node, a timeout of
the network or a plugin that owes the step.

## 5. Proofs

TLAPS proves every state invariant of the runs that is about the system's state, and the
two refinements (`RuleDispatch`, `RequestOutcome`), for all values of the constants that meet the
assumptions of the modules; and, of the laws of pure functions, those about matchers, builders, destinations,
headers and the steps of rules.
Each proof module has a lemma for each action, or each kind of step, that preserves its inductive invariant. The
inductive invariants themselves were checked with TLC on the configurations of the runs.

* `RuleMatching_proofs`: `MatchingTypeOK`, `MatchingOverrunBounded`,
  `MatchingImplementsDispatch`, `MatchingNeededNotPassedOver`, `MatchingRightRuleChosen`,
  `MatchingDisposedOnlyAcrossReplacement`, `MatchingMatchersAgree` and `MatchingRulesAreAsSaid`. The inductive invariant adds to `TypeOK` that a search
  only looks at positions that its rule set has (`PositionsOK`), and that a request that
  was given a rule is about to handle it (`ChosenOK`). The overrun is bounded by an
  argument about cardinalities: the rule's count plus the requests that will still be
  counted on it exceed the limit by less than the number of requests, since a request
  joins only while the count is below the limit. It needs `Request` to be finite. The
  refinement needs `ChosenOK`, for `Serve` to serve the rule of the grant.
  For the choice, `SearchOK` says what a search knows in each of its phases: every rule of the
  level that it visits was asked or was complete (`AskedOK`), a rule left behind that still owes a
  response did not match or is the chosen one (`NeededOK`), and every other is excused (`Excused`): it or one
  after it of its level is complete, and remains so since counts only grow. `DisposedOK` says that the
  current rules are not disposed unless their replacement was rejected.
  `PriorityRespected` also needs that levels are descended in order, which the code leaves to the
  order of the keys of an object: `MatchingRightRuleChosen` assumes integer priorities
  (`WholePriorities`), since fractional ones come first whatever their value (see "Noticed while
  modelling"). `MatchingNeededNotPassedOver` is its first half, and needs no such hypothesis.
  `MatchingMatchersAgree` is the law of matchers over all of their samples, with a lemma for each way to
  say the same: a host and its parts, a URL and its parts (`UrlPartsAgree`), a URL without a protocol and
  one with either (`UrlWithoutProtocolAgrees`), and exact and flexible matchers.
  `MatchingRulesAreAsSaid` is the law of builders, for any number of calls: by induction over the calls,
  `AsSaid` holds of a builder after each of them, which says that it would build the rule that was said so
  far, that it holds a final step as soon as one was said, and that it then has made one rule, that of the first.
* `RequestLifecycle_proofs`: `RequestInvariant`, `RequestTypeOK`, `RequestOneOutcome`,
  `RequestEventsAreTrue`, `RequestNothingFromBeforeReset`, `RequestImplementsOutcome` and
  `RequestStepsAnswerOnce`. The invariant follows each event of each
  request from `Unsaid` (the code can still get to its announcement) to the queue of immediates
  (`QueueOK`) and to those who hear it (`HeardOK`): it leaves each of them once, what it says is true
  and stays true, what must come before it has left `Unsaid` before, and it is heard from the emitter that
  the request captured at its start. For the refinement every step is one of three: it decides the
  outcome of a request that had none (`DecidingStep`), runs a callback whose event `QueueOK` says is
  not told yet, comes next and is true (`TellingStep`), or stutters. `RequestOneOutcome` (each event
  is heard once, never both an answer and an abort) is what the refinement means to a subscriber, said of
  `heard` alone; it has no run of its own.
  `RequestStepsAnswerOnce` holds for rules of any number of steps, where the run has three at most. The
  induction is over a set of numbers (`Induction`, from the well-foundedness of `<` and the library's
  `WFMin`), and `Recursion` shows with it that `HandleRule`'s function exists, so that its
  equation can be used. The induction hypothesis is `GoesOnWith`: as long as steps continue, nothing but
  informational heads was sent. `StepHandles` says, step by step, in which ways a response can leave that
  state (`Handled`), which are those that `Settled` can settle.
* `BodyBuffer_proofs`: `BodyTypeOK`, `BodyStreamsFull`, `BodyBufferWhole` and
  `BodyBufferBounded`. `BufferInv` says that until the truncation the buffer is the whole
  of the input; `StreamInv` that an active stream has what was delivered, and that a stream that
  waits was not late. Neither the body's length nor the number of streams is bounded. `BodyBufferBounded` (what is
  held between two chunks never exceeds the limit) is proved and has no run of its own.
* `Passthrough_proofs`: `PassthroughTypeOK` and, in four arguments, the other invariants of
  its module. For the agents every step is one of three: it keeps the agents and closes
  nothing (`KeepsAgents`), gives an open connection agents that it has not (`GetsAgents`), or
  closes a connection. For HTTP/1, `Http1Inv` adds that a client leaves only when its
  connection closes and that ALPN is not for it, so that no request is sent for a client
  that left. For the events, `HeardInv` says that `reportedUpstreamError` is set exactly by the
  break of an upstream request, which then has one abort although others have still to hear of it
  (`failing`), and `UnsentInv` that there is no
  upstream request before it is sent. `PassthroughDestinationsAgree` proves the laws of
  `Destinations`, which use no recursion, by cases on where the host of a request is said; it holds for any
  names, addresses, ports and replaced hosts, where the run has samples. It assumes that no name is
  an IP address, that a port can be missing, and that what is left of a bracketed address that was cut is
  neither a name nor an address.
  `PassthroughHeadersSurvive` is the law of `Headers` for any number of headers with any names and values, where
  the run has three at most; it assumes that what is undefined is no header's value, and that names
  which are not in lower case are none of those that are. Each loop (a filter, a
  removal, the conversions) is first shown to be a loop over a sequence (`After`), which gives its equations for
  no header and for one more. By induction over sequences (`SequenceInduction`) then follow what a filter finds and
  leaves, that what a removal leaves of a name comes right after another of that name (`RemovedAdjacent`), that a name
  which occurs once is removed (`RemovedOnce`), and that it has its one value in the object (`Collected`). What
  frames a body is then a matter of which headers there are, for each way to replace it (`TransformFrames`,
  `CallbackFrames`, `ResponseFrames`).
* `AdminClient_proofs`: `ClientInvariant`, `ClientTypeOK`, `ClientRunningIsConnected` and
  `ClientShutdownStopsOwnSession`. Neither property is inductive: what a reply does depends on
  what the other calls are waiting for. `Calm` says that a client whose user's calls never
  overlapped is in one of a few phases (stopped, running, or one call that starts, queries or
  stops, with at most one stop that waits for it), and what session, stream and promises are in
  each; every action leads from phase to phase. `CallsOK` is what a call that waits knows, with or without overlap. The
  assumption on the constants says that a promise is not a boolean, which is how the code
  tells them apart.
* `AdminServer_proofs`: `SessionInvariant`, `SessionTypeOK`, `SessionRoutedRuns` and
  `SessionStopsAreWhole`. `SessionOK` says how far the plugins and the stream of a session are in
  each of its phases, and `CallsOK` that a call that returned has waited for what is
  stopped by now, and a session that stopped remains stopped.
* `MockttpServer_proofs`: `ServerInvariant`, `ServerTypeOK`, `ServerPortsAsAsked`,
  `ServerSocksAuthenticated`, `ServerLastHopIsTold`, `ServerPassthroughPaired` and
  `ServerFailuresWhole`, for the composition of `ServerLifecycle`, `ComboServer` and `SocksServer`.
  The servers' part says who holds a port and the mutex of the port check; the connections' part has
  one conjunct per concern (`HopOK`: the symbols that sockets copy; `SocksOK`: the method of a
  handshake; `TrustOK`: TLS that nobody confirmed; `ErrorOK`: packets; `HeardOK`: all that can be heard
  of a connection at each point), proved for the steps of the layers one by one. `MaxTunnels` is assumed to be a
  natural number, and data of errors to be sequences of bytes that are not empty. `PortsAsAsked` is
  a safety property with a part about steps, `RangeLeftForCause`, which follows from what `Pick` looks at and
  from `blamed`. That a packet is whole unless the data begins twice is shown as `packet = arrived` or
  `BeginsTwice(arrived)`, which stays true as data comes.
* `WebSocketProxy_proofs`: `WebSocketInvariant`, `WebSocketTypeOK`, `WebSocketOneOutcome` and
  `WebSocketCodesNotInvented`. The invariant is a table from the stage of the request and of the two
  WebSockets to the events that can have been heard; and each code that is sent, told or
  announced is traced to the peer or error that it came from (`MayBeTold`), which stays as it is
  (`SourcesStay`): a peer closes once, and sends one bad frame at most.

Only model-checked:

* liveness, in all its runs: fairness and ENABLED are beyond the prover;
* `RemoteMeansSame`, whose definitions use `RECURSIVE` operators over nested values, and fold over
  sequences with operators of the libraries, about which the prover knows nothing.

## 6. Not modelled, and the plan

Next, in this order:

1. Proofs: what holds of a client whose calls overlap, and an abstract specification of a session,
   which `AdminServer` implements.
2. Composition of `AdminClient` with `AdminServer`, for sessions that nobody stops.
3. Channels: topics, requests and disposal over one stream.
4. `noProxy`, strict HTTPS, the cached port probe, linked TLS options.

Not modelled: backpressure between the streams of a body (it depends on byte counts and on
Node's pipes); ping frames, keep-alive and timers, other than as steps that may happen; the events
`body-data`, informational responses and rule events of the lifecycle; the recording of seen
requests; TLS fingerprints and options. Never: certificates (cryptographic data), GraphQL documents,
explanations of rules in words.
