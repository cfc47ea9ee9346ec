----------------------------- MODULE WebSocketProxy -----------------------------
(***************************************************************************)
(* The life of one WebSocket request: MockttpServer.handleWebSocket, the   *)
(* step of its rule, the upstream connection of a passthrough, the two     *)
(* WebSockets that are piped to each other, and the events announced.      *)
(*                                                                         *)
(* The client's raw socket and the library's WebSockets are modelled by    *)
(* what the code relies on: a client may end its side or reset, and either *)
(* may go unseen by code that has no listener for it.                      *)
(***************************************************************************)
EXTENDS Integers, Sequences

CONSTANTS
    CloseCode,    \* valid status codes that peers close with
    BadCode,      \* invalid ones
    MaxMessages   \* bound: messages sent by each peer

IsValidStatusCode(k) == k \in (1000..1014 \ {1004, 1005, 1006}) \cup 3000..4999

ASSUME WebSocketAssumption ==
    /\ \A k \in CloseCode : k \in Nat /\ IsValidStatusCode(k)
    /\ \A k \in BadCode : k \in Nat /\ ~IsValidStatusCode(k)
    /\ MaxMessages \in Nat

VARIABLES
    stage,    \* where handleWebSocket is
    step,     \* the final step of the rule
    socket,   \* the raw socket of the client
    broken,   \* the client reset its connection
    written,  \* response bytes were written before the upgrade was complete
    request,  \* the upstream request of a passthrough
    ws,       \* the WebSocket of each end
    code,     \* the status that each peer closed with, 1006 for none
    told,     \* the statuses in the close frames sent to each peer
    fault,    \* the invalid status that each peer sent, or the error of another bad frame
    sent,     \* messages received from each peer
    heard     \* the events announced

vars == <<stage, step, socket, broken, written, request, ws, code, told, fault, sent, heard>>

End == {"down", "up"}
Other(e) == IF e = "down" THEN "up" ELSE "down"

Step == {"passthrough", "echo", "listen", "reject", "close", "reset", "timeout"}

NoCode == -1
NoStatus == 1005
Abnormal == 1006
AnyCode == CloseCode \cup {NoCode, NoStatus, Abnormal}

\* What the library closes with: a frame that cannot be read, data that cannot be
\* inflated, and a message that is too long.
ErrorCode == {1002, 1007, 1009}

\* A close frame without a status, and all that can be in one.
Bare == -2
Status == CloseCode \cup BadCode \cup ErrorCode \cup {Bare, 1011}

Named == {"abort", "response", "websocket-accepted", "websocket-message-received",
          "websocket-message-sent", "websocket-close"}
Announced == [event : Named, code : AnyCode]

WsState == {"none", "open", "closing", "concluded", "failed", "closed"}

TypeOK ==
    /\ stage \in {"new", "rejected", "matching", "steps", "preparing", "connecting", "settled"}
    /\ step \in Step \cup {"none"}
    /\ socket \in {"open", "half", "ended", "closed"}
    /\ broken \in BOOLEAN
    /\ written \in BOOLEAN
    /\ request \in {"none", "sent", "upgraded", "refused", "failed"}
    /\ ws \in [End -> WsState]
    /\ code \in [End -> AnyCode]
    /\ told \in [End -> SUBSET Status]
    /\ fault \in [End -> BadCode \cup ErrorCode \cup {NoCode}]
    /\ sent \in [End -> 0..MaxMessages]
    /\ heard \in Seq(Announced)

Init ==
    /\ stage = "new" /\ step = "none"
    /\ socket = "open" /\ broken = FALSE /\ written = FALSE
    /\ request = "none"
    /\ ws = [e \in End |-> "none"]
    /\ code = [e \in End |-> NoCode]
    /\ told = [e \in End |-> {}]
    /\ fault = [e \in End |-> NoCode]
    /\ sent = [e \in End |-> 0]
    /\ heard = <<>>

Event(name) == [event |-> name, code |-> NoCode]

-----------------------------------------------------------------------------
(* The raw socket of the client *)

Upgraded == ws["down"] # "none"
Writable == socket \in {"open", "half"}

\* Mutant: a socket that closes is always an abort.
ClosedIsAbort(wrote) == <<Event("abort")>>

\* trackWebSocketEvents: a socket that closes before its upgrade is a response, if
\* anything was written to it, or else an abort.
ClosedBeforeUpgrade(wrote) ==
    <<IF wrote THEN Event("response") ELSE Event("abort")>>

\* The client's socket becomes `state`, with `wrote` written to it so far.
SocketBecomes(state, wrote) ==
    /\ socket' = state
    /\ written' = wrote
    /\ heard' = IF state = "closed" /\ socket # "closed"
                  THEN heard \o ClosedBeforeUpgrade(wrote) ELSE heard

\* socket.end(): the socket closes when both sides ended.
AfterEnd == CASE socket = "open" -> "ended"
              [] socket = "half" -> "closed"
              [] OTHER -> socket

EndSocket == SocketBecomes(AfterEnd, written)
DestroySocket == SocketBecomes("closed", written)
RespondAndDestroy == SocketBecomes("closed", written \/ Writable)

\* simulateConnectionErrors chooses between a reset and an end.
FailDownstream == EndSocket \/ DestroySocket

WsUnchanged == UNCHANGED <<ws, code, told, fault, sent>>

(***************************************************************************)
(* Until the upgrade nobody reads the socket.  A client that ends its side *)
(* leaves the socket half-open, or closes it; neither is an `error`.       *)
(***************************************************************************)
ClientEnds ==
    /\ ~Upgraded
    /\ stage # "new"
    /\ \/ /\ socket = "open"
          /\ EndSocket \/ SocketBecomes("half", written) \/ DestroySocket
       \/ /\ socket = "ended"
          /\ DestroySocket
    /\ UNCHANGED <<stage, step, broken, request>> /\ WsUnchanged

\* Mutant: the upstream request ignores a client that resets.
IgnoreReset ==
    /\ ~Upgraded
    /\ stage # "new" /\ socket # "closed"
    /\ broken' = TRUE
    /\ DestroySocket
    /\ UNCHANGED <<stage, step, request>> /\ WsUnchanged

\* `error` of the socket: it is destroyed, and so is an upstream request that waits,
\* whose own error then finds the socket closed.
ClientResets ==
    /\ ~Upgraded
    /\ stage # "new" /\ socket # "closed"
    /\ broken' = TRUE
    /\ DestroySocket
    /\ request' = IF request = "sent" THEN "failed" ELSE request
    /\ UNCHANGED <<stage, step>> /\ WsUnchanged

-----------------------------------------------------------------------------
(* handleWebSocket *)

\* preprocessRequest fails, and the socket is left to the handler of invalid requests
\* before it is tracked; or matching starts.
HandleWebSocket ==
    /\ stage = "new"
    /\ \/ stage' = "rejected" /\ socket' = "closed"
       \/ stage' = "matching" /\ UNCHANGED socket
    /\ UNCHANGED <<step, broken, written, request, heard>> /\ WsUnchanged

\* The rule is found, if there is any.  sendUnmatchedWebSocketError writes a 503 and
\* destroys; a matcher that throws is answered by a 500 if the socket is writable.
MatchingEnds ==
    /\ stage = "matching"
    /\ \/ /\ stage' = "steps"
          /\ step' \in Step
          /\ UNCHANGED <<socket, written, heard>>
       \/ /\ stage' = "settled"
          /\ RespondAndDestroy
          /\ UNCHANGED step
    /\ UNCHANGED <<broken, request>> /\ WsUnchanged

\* ws's handleUpgrade: a request that is no valid handshake is answered by a 400 if that
\* can be written, and a socket that is not readable and writable is destroyed; else the
\* WebSocket opens.
\* Those in `opened` are open whatever happens.
AcceptUpgrade(opened) ==
    LET Opens(ends) == ws' = [e \in End |-> IF e \in ends THEN "open" ELSE ws[e]] IN
    \/ /\ socket = "open"
       /\ Opens(opened \cup {"down"})
       /\ written' = TRUE
       /\ heard' = Append(heard, Event("websocket-accepted"))
       /\ UNCHANGED socket
    \/ /\ RespondAndDestroy \/ (socket # "open" /\ DestroySocket)
       /\ Opens(opened)

\* EchoWebSocketStepImpl and ListenWebSocketStepImpl.
EchoOrListen ==
    /\ step \in {"echo", "listen"}
    /\ stage' = "settled"
    /\ AcceptUpgrade({})
    /\ UNCHANGED request

\* RejectWebSocketStepImpl writes its response and destroys the socket.
Reject ==
    /\ step = "reject"
    /\ stage' = "settled"
    /\ RespondAndDestroy
    /\ UNCHANGED <<request, ws>>

\* CloseConnectionStepImpl and ResetConnectionStepImpl throw an AbortError, for which
\* handleWebSocket does nothing more.
CloseOrReset ==
    /\ step \in {"close", "reset"}
    /\ stage' = "settled"
    /\ IF step = "close" THEN EndSocket ELSE DestroySocket
    /\ UNCHANGED <<request, ws>>

\* PassThroughWebSocketStepImpl.handle, up to the DNS lookup.
StartPassthrough ==
    /\ step = "passthrough"
    /\ stage' = "preparing"
    /\ UNCHANGED <<socket, written, heard, request, ws>>

\* Delays and waits for the body come first, so the socket may be closed by now; a
\* timeout step never ends.
RunStep ==
    /\ stage = "steps"
    /\ EchoOrListen \/ Reject \/ CloseOrReset \/ StartPassthrough
    /\ UNCHANGED <<step, broken, code, told, fault, sent>>

-----------------------------------------------------------------------------
(* connectUpstream *)

\* Mutant: the upstream request is made though the client is gone.
ConnectRegardless ==
    /\ stage = "preparing"
    /\ stage' = "connecting"
    /\ request' = "sent"
    /\ UNCHANGED <<step, socket, broken, written, heard>> /\ WsUnchanged

\* getAgent checks that the connection lives after its last await; then the request is
\* made, and listens for errors of the client, with no event in between.
ConnectUpstream ==
    /\ stage = "preparing"
    /\ IF socket = "closed"
         THEN stage' = "settled" /\ UNCHANGED request
         ELSE stage' = "connecting" /\ request' = "sent"
    /\ UNCHANGED <<step, socket, broken, written, heard>> /\ WsUnchanged

\* The lookup, a certificate or the proxy settings fail: a 500 is sent.
PreparationFails ==
    /\ stage = "preparing"
    /\ stage' = "settled"
    /\ RespondAndDestroy
    /\ UNCHANGED <<step, broken, request>> /\ WsUnchanged

\* `upgrade`: the upstream WebSocket is made, and then that of the client.
UpstreamUpgrades ==
    /\ request = "sent"
    /\ request' = "upgraded"
    /\ AcceptUpgrade({"up"})
    /\ UNCHANGED <<stage, step, broken, code, told, fault, sent>>

\* The upstream chose extensions that cannot be set up: its socket is destroyed.
BadExtensions ==
    /\ request = "sent"
    /\ request' = "failed"
    /\ EndSocket
    /\ UNCHANGED <<stage, step, broken>> /\ WsUnchanged

\* `response`: mirrorRejection writes the head if the client's socket is writable.
UpstreamRefuses ==
    /\ request = "sent"
    /\ request' = "refused"
    /\ SocketBecomes(socket, written \/ Writable)
    /\ UNCHANGED <<stage, step, broken>> /\ WsUnchanged

\* The rest of the refusal is piped to the client; it may fail.
RefusalEnds ==
    /\ request = "refused"
    /\ Writable
    /\ FailDownstream
    /\ UNCHANGED <<stage, step, broken, request>> /\ WsUnchanged

\* `error` of the upstream request.
UpstreamFails ==
    /\ request = "sent"
    /\ request' = "failed"
    /\ FailDownstream
    /\ UNCHANGED <<stage, step, broken>> /\ WsUnchanged

-----------------------------------------------------------------------------
(* Two piped WebSockets *)

\* The end that messages and closes of e go to: an echo goes back, and a listener has none.
Target(e) == IF step = "passthrough" THEN Other(e) ELSE e

Piped(e) == ws["down"] # "none" /\ ws[e] # "none" /\ step # "listen"

\* `message`: forwarded if the other WebSocket is open.  What is sent to the client is
\* announced as sent.
Message(e) ==
    /\ ws[e] \in {"open", "closing"}
    /\ sent[e] < MaxMessages
    /\ sent' = [sent EXCEPT ![e] = @ + 1]
    /\ heard' = heard
         \o (IF e = "down" /\ Upgraded
               THEN <<Event("websocket-message-received")>> ELSE <<>>)
         \o (IF Piped(e) /\ Target(e) = "down" /\ ws["down"] = "open"
               THEN <<Event("websocket-message-sent")>> ELSE <<>>)
    /\ UNCHANGED <<stage, step, socket, broken, written, request, ws, code, told, fault>>

\* WebSocket.close with this status: only an open WebSocket sends a close frame.
Closes(e, k) == IF ws[e] = "open" THEN {k} ELSE {}

\* A close frame of the peer: the library answers with the same status, or without one.
PeerCloses(e) ==
    /\ ws[e] \in {"open", "closing"}
    /\ \E k \in CloseCode \cup {NoStatus} :
           /\ code' = [code EXCEPT ![e] = k]
           /\ told' = [told EXCEPT ![e] = @ \cup Closes(e, IF k = NoStatus THEN Bare ELSE k)]
    /\ ws' = [ws EXCEPT ![e] = "concluded"]
    /\ UNCHANGED <<stage, step, socket, broken, written, request, fault, sent, heard>>

\* What the library closes a peer with, for its fault k.
Verdict(k) == IF k \in ErrorCode THEN k ELSE 1002

\* A WebSocket fails and the raw socket of its target is destroyed.
FailPipe(e) ==
    ws' = [f \in End |-> IF f = e \/ (f = Target(e) /\ ws[f] # "closed")
                            THEN "failed" ELSE ws[f]]

\* Mutant: the other peer is closed as the library closed this one.
ShareTheBlame(e) ==
    /\ ws[e] \in {"open", "closing"}
    /\ Piped(e)
    /\ \E k \in BadCode \cup ErrorCode :
           /\ fault' = [fault EXCEPT ![e] = k]
           /\ told' = [f \in End |-> told[f] \cup
                  (IF f \in {e, Target(e)} THEN Closes(f, Verdict(k)) ELSE {})]
    /\ FailPipe(e)
    /\ UNCHANGED <<stage, step, socket, broken, written, request, code, sent, heard>>

\* A bad frame: the library closes with its error's status.  The pipe sends the target an
\* invalid status as it came, past the library's checks, and destroys its raw socket.
\* An end without a pipe has no listener: not modelled.
BadFrame(e) ==
    /\ ws[e] \in {"open", "closing"}
    /\ Piped(e)
    /\ \E k \in BadCode \cup ErrorCode :
           /\ fault' = [fault EXCEPT ![e] = k]
           /\ told' = [f \in End |-> told[f]
                  \cup (IF f = e THEN Closes(f, Verdict(k)) ELSE {})
                  \cup (IF f = Target(e) /\ k \in BadCode /\ ws[f] # "closed" THEN {k} ELSE {})]
    /\ FailPipe(e)
    /\ UNCHANGED <<stage, step, socket, broken, written, request, code, sent, heard>>

\* Mutant: every close is passed on as a normal one.
AlwaysNormal(k) == 1000

\* The status that `close` passes on.
PassedOn(k) == IF IsValidStatusCode(k) THEN k ELSE Bare

\* Mutant: a close is not passed on.
CloseAlone(e, final) ==
    /\ ws' = [ws EXCEPT ![e] = "closed"]
    /\ UNCHANGED told

\* `close` of e's WebSocket: the other is closed too.
ClosePipe(e, final) ==
    IF Piped(e) /\ Target(e) # e /\ ws[Target(e)] = "open"
      THEN /\ ws' = [ws EXCEPT ![e] = "closed", ![Target(e)] = "closing"]
           /\ told' = [told EXCEPT ![Target(e)] = @ \cup {PassedOn(final)}]
      ELSE ws' = [ws EXCEPT ![e] = "closed"] /\ UNCHANGED told

\* Mutant: the close of either WebSocket is announced.
CloseOfEither(e, final) ==
    IF final = Abnormal THEN <<Event("abort")>>
    ELSE <<[event |-> "websocket-close",
            code |-> IF final = NoStatus THEN NoCode ELSE final]>>

\* What trackWebSocketEvents announces when the client's WebSocket closes.
CloseEvent(e, final) ==
    IF e # "down" THEN <<>>
    ELSE IF final = Abnormal THEN <<Event("abort")>>
    ELSE <<[event |-> "websocket-close",
            code |-> IF final = NoStatus THEN NoCode ELSE final]>>

\* The status that a WebSocket ends with.
FinalCode(e) == IF code[e] = NoCode THEN Abnormal ELSE code[e]

\* The library's WebSocket closes with its raw socket: after the close frames, after a
\* failure, when the peer ends, or when the closing timer destroys it.
WsCloses(e) ==
    /\ ws[e] \notin {"none", "closed"}
    /\ code' = [code EXCEPT ![e] = FinalCode(e)]
    /\ ClosePipe(e, FinalCode(e))
    /\ heard' = heard \o CloseEvent(e, FinalCode(e))
    /\ socket' = IF e = "down" THEN "closed" ELSE socket
    /\ UNCHANGED <<stage, step, broken, written, request, fault, sent>>

\* `error` of an upgraded client's socket: the upstream is closed with 1011, and then the
\* client's WebSocket closes.
UpgradedResets ==
    /\ Upgraded
    /\ socket # "closed"
    /\ socket' = "closed"
    /\ broken' = TRUE
    /\ code' = [code EXCEPT !["down"] = FinalCode("down")]
    /\ IF ws["up"] = "open"
         THEN /\ ws' = [ws EXCEPT !["down"] = "closed", !["up"] = "closing"]
              /\ told' = [told EXCEPT !["up"] = @ \cup {1011}]
         ELSE ws' = [ws EXCEPT !["down"] = "closed"] /\ UNCHANGED told
    /\ heard' = heard \o CloseEvent("down", FinalCode("down"))
    /\ UNCHANGED <<stage, step, written, request, fault, sent>>

-----------------------------------------------------------------------------

Handler == MatchingEnds \/ RunStep \/ ConnectUpstream \/ PreparationFails

Upstream ==
    \/ UpstreamUpgrades \/ BadExtensions \/ UpstreamRefuses \/ RefusalEnds
    \/ UpstreamFails

Next ==
    \/ HandleWebSocket
    \/ Handler
    \/ Upstream
    \/ ClientEnds \/ ClientResets \/ UpgradedResets
    \/ \E e \in End : Message(e) \/ PeerCloses(e) \/ BadFrame(e) \/ WsCloses(e)

Spec == Init /\ [][Next]_vars

(***************************************************************************)
(* The handler's own work ends, an upstream request is answered or fails,  *)
(* and a WebSocket that is no longer open closes: if its peer does not     *)
(* answer, the library's timer destroys it.                                *)
(***************************************************************************)
FairSpec ==
    /\ Spec
    /\ WF_vars(Handler)
    /\ WF_vars(Upstream)
    /\ \A e \in End : WF_vars(ws[e] # "open" /\ WsCloses(e))

-----------------------------------------------------------------------------

Final == {"abort", "response", "websocket-close"}

(***************************************************************************)
(* Each WebSocket request has one outcome: it is aborted or answered, or   *)
(* it is accepted and then closed or aborted.  Messages are announced only *)
(* in between, nothing follows the end, and a socket that closed has one.  *)
(* What was written decides whether a closed request was answered.         *)
(***************************************************************************)
OneOutcome ==
    /\ heard # <<>> => (heard[1].event = "abort" <=> ~written)
    /\ \A i \in 1..Len(heard) :
           /\ heard[i].event \in Final => i = Len(heard)
           /\ heard[i].event = "websocket-accepted" <=> i = 1 /\ heard[i].event \notin Final
           /\ heard[i].event = "response" => i = 1
    /\ socket = "closed" /\ stage # "rejected" =>
           heard # <<>> /\ heard[Len(heard)].event \in Final

\* The statuses that peer e may be closed with: the valid ones that a peer closed with,
\* the library's verdict on its own bad frames, an invalid one that came through the pipe,
\* and, upstream, that of a client that reset.
MayBeTold(e) ==
    ({code["down"], code["up"]} \cap CloseCode)
    \cup {Verdict(k) : k \in {fault[e]} \ {NoCode}}
    \cup ({fault[Target(e)]} \cap BadCode)
    \cup (IF broken /\ e = "up" THEN {1011} ELSE {})

(***************************************************************************)
(* No status is made up: a peer is closed without a status, with one that  *)
(* a peer chose, or with that of an error of its own.  The library's 1005  *)
(* and 1006, for a close without a status or without a frame, are never    *)
(* sent, unless the other peer did send that very number.  And the close   *)
(* that is announced is the client's.                                      *)
(***************************************************************************)
CodesNotInvented ==
    /\ \A e \in End : told[e] \subseteq {Bare} \cup MayBeTold(e)
    /\ \A i \in 1..Len(heard) :
           heard[i].event = "websocket-close" =>
               code["down"] = (IF heard[i].code = NoCode THEN NoStatus ELSE heard[i].code)

(***************************************************************************)
(* No upstream connection outlives its client: one that a reset client     *)
(* left behind is dropped, and when either of two piped WebSockets closes  *)
(* so does the other.  (A client that ends its side while the upstream     *)
(* request is pending is not covered: nothing listens for that.)           *)
(***************************************************************************)
UpstreamFollowsClient ==
    /\ broken ~> request # "sent" /\ ws["up"] \in {"none", "closed"}
    /\ ws["down"] = "closed" ~> ws["up"] \in {"none", "closed"}
    /\ ws["up"] = "closed" /\ Upgraded ~> ws["down"] = "closed"

=============================================================================
