------------------------- MODULE WebSocketProxy_proofs -------------------------
(***************************************************************************)
(* Theorems of WebSocketProxy, for any close codes and any number of       *)
(* messages: each request has one outcome, and no close code is made up.   *)
(***************************************************************************)
EXTENDS WebSocketProxy, TLAPS

Talk == {"websocket-message-received", "websocket-message-sent"}

\* A request is upgraded by its last step, or by the upstream it waits for.
StageOK ==
    /\ stage = "new" => socket = "open"
    /\ stage \in {"new", "rejected", "matching", "steps", "preparing"} =>
           request = "none" /\ ~Upgraded
    /\ request \in {"sent", "refused", "failed"} => ~Upgraded
    /\ request \in {"none", "sent"} => ws["up"] = "none"
    /\ Upgraded => step \in {"echo", "listen"} \/ request = "upgraded"

\* The end of a WebSocket that was accepted.
Ends(x) ==
    \/ x.event = "abort"
    \/ /\ x.event = "websocket-close"
       /\ code["down"] = (IF x.code = NoCode THEN NoStatus ELSE x.code)

Unheard == heard = <<>> /\ ~Upgraded /\ (socket = "closed" => stage = "rejected")

\* A socket closed before its upgrade.
HeardShort ==
    /\ ~Upgraded /\ socket = "closed"
    /\ heard = <<Event(IF written THEN "response" ELSE "abort")>>

\* A WebSocket was accepted, messages followed, and its end when it is closed.
HeardLong ==
    /\ Upgraded /\ written
    /\ ws["down"] = "closed" <=> socket = "closed"
    /\ Len(heard) >= (IF ws["down"] = "closed" THEN 2 ELSE 1)
    /\ heard[1].event = "websocket-accepted"
    /\ \A i \in 2..Len(heard) :
           IF ws["down"] = "closed" /\ i = Len(heard)
             THEN Ends(heard[i])
             ELSE heard[i].event \in Talk

HeardOK == Unheard \/ HeardShort \/ HeardLong

\* Codes come from peers that closed.
CodeOK(e) ==
    /\ ws[e] \in {"none", "open", "closing"} => code[e] = NoCode
    /\ told[e] \subseteq {Bare} \cup MayBeTold(e)
    /\ ws[e] \in {"none", "open", "closing"} => fault[e] = NoCode

CodesOK == \A e \in End : CodeOK(e)

IInv == TypeOK /\ StageOK /\ HeardOK /\ CodesOK

LEMMA InitIInv == Init => IInv
<1> SUFFICES ASSUME Init
             PROVE  IInv
    OBVIOUS
<1>1. TypeOK
  <2>1. NoCode \in AnyCode /\ 0 \in 0..MaxMessages /\ "none" \in WsState
      BY WebSocketAssumption DEF AnyCode, WsState
  <2>2. /\ ws \in [End -> WsState] /\ code \in [End -> AnyCode]
        /\ told \in [End -> SUBSET Status]
        /\ fault \in [End -> BadCode \cup ErrorCode \cup {NoCode}]
        /\ sent \in [End -> 0..MaxMessages]
      BY <2>1 DEF Init
  <2>3. heard \in Seq(Announced)
      BY DEF Init
  <2> QED BY <2>2, <2>3 DEF Init, TypeOK
<1>2. StageOK /\ HeardOK /\ CodesOK
    BY DEF Init, StageOK, HeardOK, Unheard, Upgraded, CodesOK, CodeOK, End
<1> QED BY <1>1, <1>2 DEF IInv

-----------------------------------------------------------------------------
(* Before the upgrade: what becomes of the socket.                         *)

\* A state that the socket may go to, and whether something was written by then.
Allowed(state, wrote) ==
    /\ state \in {"open", "half", "ended", "closed"} /\ wrote \in BOOLEAN
    /\ socket = "closed" => state = "closed" /\ (wrote <=> written)

LEMMA ShortEvent ==
    ASSUME NEW wrote \in BOOLEAN
    PROVE  /\ ClosedBeforeUpgrade(wrote) = <<Event(IF wrote THEN "response" ELSE "abort")>>
           /\ <<Event(IF wrote THEN "response" ELSE "abort")>> \in Seq(Announced)
<1> DEFINE x == Event(IF wrote THEN "response" ELSE "abort")
<1>1. x \in Announced
    BY DEF Event, Announced, Named, AnyCode
<1>2. ClosedBeforeUpgrade(wrote) = <<x>>
    BY DEF ClosedBeforeUpgrade
<1> HIDE DEF x
<1>3. <<x>> \in Seq(Announced)
    BY <1>1
<1> QED BY <1>2, <1>3 DEF x

LEMMA EmptyFirst ==
    ASSUME NEW x
    PROVE  <<>> \o <<x>> = <<x>>
OBVIOUS

\* The socket is ended or destroyed, with nothing else of the request changed.
LEMMA SocketStep ==
    ASSUME TypeOK, HeardOK, ~Upgraded, NEW state, NEW wrote, SocketBecomes(state, wrote),
           Allowed(state, wrote), UNCHANGED ws, stage' = "rejected" <=> stage = "rejected"
    PROVE  /\ socket' \in {"open", "half", "ended", "closed"} /\ written' \in BOOLEAN
           /\ heard' \in Seq(Announced)
           /\ HeardOK'
<1>1. socket' = state /\ written' = wrote /\ wrote \in BOOLEAN
    BY DEF SocketBecomes, Allowed
<1>2. ~Upgraded'
    BY DEF Upgraded
<1>3. CASE state = "closed" /\ socket # "closed"
  <2>1. heard = <<>>
      BY <1>3 DEF HeardOK, Unheard, HeardShort, HeardLong
  <2>2. heard' = <<Event(IF wrote THEN "response" ELSE "abort")>>
      BY <1>1, <1>3, <2>1, ShortEvent, EmptyFirst DEF SocketBecomes
  <2>3. HeardShort'
      BY <1>1, <1>2, <1>3, <2>2 DEF HeardShort, Event
  <2> QED BY <1>1, <1>3, <2>2, <2>3, ShortEvent DEF HeardOK
<1>4. CASE ~(state = "closed" /\ socket # "closed")
  <2>1. heard' = heard /\ (socket' = "closed" <=> socket = "closed")
        /\ (socket = "closed" => (written' <=> written))
      BY <1>1, <1>4 DEF SocketBecomes, Allowed
  <2>2. Unheard => Unheard'
      BY <1>2, <2>1 DEF Unheard
  <2>3. HeardShort => HeardShort'
      BY <1>2, <2>1 DEF HeardShort, Event
  <2>4. HeardOK'
      BY <2>2, <2>3 DEF HeardOK, HeardLong
  <2> QED BY <1>1, <2>1, <2>4 DEF TypeOK, Allowed
<1> QED BY <1>3, <1>4

LEMMA EndIsAllowed ==
    ASSUME TypeOK
    PROVE  /\ Allowed(AfterEnd, written) /\ Allowed("closed", written)
           /\ Allowed("closed", written \/ Writable)
           /\ Allowed(socket, written \/ Writable)
<1>1. /\ socket = "open" => AfterEnd = "ended"
      /\ socket = "half" => AfterEnd = "closed"
      /\ socket \notin {"open", "half"} => AfterEnd = socket
  <2>1. CASE socket = "open"
      BY <2>1 DEF AfterEnd
  <2>2. CASE socket = "half"
      BY <2>2 DEF AfterEnd
  <2>3. CASE socket \notin {"open", "half"}
      BY <2>3 DEF AfterEnd
  <2> QED BY <2>1, <2>2, <2>3
<1>2. (written \/ Writable) \in BOOLEAN
    BY Zenon DEF TypeOK
<1> QED BY <1>1, <1>2 DEF TypeOK, Allowed, Writable

LEMMA EndFacts ==
    ASSUME NEW e \in End
    PROVE  /\ Target(e) \in End /\ Target(Target(e)) = e
           /\ Other(e) \in End /\ Other(e) # e
           /\ "down" \in End /\ "up" \in End
BY DEF End, Target, Other

\* What peers close with, what they may not, and the absence of either are apart.
LEMMA CodesApart ==
    /\ NoCode \notin CloseCode \cup BadCode \cup ErrorCode
    /\ NoStatus \notin CloseCode /\ Abnormal \notin CloseCode
<1>1. NoCode \notin Nat /\ NoCode \notin ErrorCode
    BY DEF NoCode, ErrorCode
<1>2. ~IsValidStatusCode(NoStatus) /\ ~IsValidStatusCode(Abnormal)
    BY DEF IsValidStatusCode, NoStatus, Abnormal
<1> QED BY <1>1, <1>2, WebSocketAssumption

\* Peers close and send bad frames once, and the pipe of an end that did either stays.
SourcesStay ==
    /\ \A e \in End : code[e] = NoCode \/ code'[e] = code[e]
    /\ \A e \in End : fault[e] = NoCode \/ (fault'[e] = fault[e] /\ step' = step)
    /\ broken => broken'

\* A status that may be told still may.
LEMMA MayBeToldStays ==
    ASSUME SourcesStay, NEW e \in End
    PROVE  MayBeTold(e) \subseteq MayBeTold(e)'
<1>1. {code["down"], code["up"]} \cap CloseCode \subseteq
          {code'["down"], code'["up"]} \cap CloseCode
    BY CodesApart, EndFacts DEF SourcesStay
<1>2. {Verdict(k) : k \in {fault[e]} \ {NoCode}} \subseteq
          {Verdict(k) : k \in {fault'[e]} \ {NoCode}}
    BY DEF SourcesStay
<1>3. {fault[Target(e)]} \cap BadCode \subseteq {fault'[Target(e)']} \cap BadCode
  <2> SUFFICES ASSUME fault[Target(e)] \in BadCode
               PROVE  fault'[Target(e)'] = fault[Target(e)]
      OBVIOUS
  <2>1. fault[Target(e)] # NoCode
      BY CodesApart
  <2> QED BY <2>1, EndFacts DEF SourcesStay, Target
<1>4. broken => broken'
    BY DEF SourcesStay
<1> QED BY <1>1, <1>2, <1>3, <1>4 DEF MayBeTold

\* Codes are not concerned with what happens before.
LEMMA CodesStay ==
    ASSUME CodesOK, UNCHANGED <<ws, code, told, fault>>, broken => broken',
           step' = step \/ \A e \in End : fault[e] = NoCode
    PROVE  CodesOK'
<1> SUFFICES ASSUME NEW e \in End
             PROVE  CodeOK(e)'
    BY DEF CodesOK
<1>1. CodeOK(e)
    BY DEF CodesOK
<1>2. SourcesStay
    BY DEF SourcesStay
<1> QED BY <1>1, <1>2, MayBeToldStays DEF CodeOK

\* A step of the raw socket alone.
LEMMA RawStep ==
    ASSUME IInv, ~Upgraded, NEW state, NEW wrote, SocketBecomes(state, wrote),
           Allowed(state, wrote), UNCHANGED <<ws, code, told, fault, sent>>,
           stage' = "rejected" <=> stage = "rejected",
           stage' \in {"matching", "steps", "preparing", "connecting", "settled"}
               \/ (stage' = stage /\ stage # "new"),
           stage' \in {"rejected", "matching", "steps", "preparing"} => request' = "none",
           step' \in Step \cup {"none"}, broken' \in BOOLEAN, broken => broken',
           step' = step \/ stage = "matching",
           request' \in {"none", "sent", "upgraded", "refused", "failed"},
           request' \in {"none", "sent"} => request \in {"none", "sent"}
    PROVE  IInv'
<1>1. /\ socket' \in {"open", "half", "ended", "closed"} /\ written' \in BOOLEAN
      /\ heard' \in Seq(Announced) /\ HeardOK'
    BY SocketStep DEF IInv
<1>2. TypeOK'
    BY <1>1 DEF IInv, TypeOK
<1>3. ~Upgraded'
    BY DEF Upgraded
<1>4. StageOK'
    BY <1>3 DEF StageOK, IInv, TypeOK
<1>5. CodesOK'
  <2>1. ASSUME stage = "matching", NEW e \in End
        PROVE  fault[e] = NoCode
    <3>1. ws[e] = "none"
        BY <2>1 DEF IInv, StageOK, Upgraded, End
    <3> QED BY <3>1 DEF IInv, CodesOK, CodeOK
  <2> QED BY <2>1, CodesStay DEF IInv
<1> QED BY <1>1, <1>2, <1>4, <1>5 DEF IInv

LEMMA ClientKeeps ==
    ASSUME IInv, ClientEnds \/ ClientResets
    PROVE  IInv'
<1>1. PICK state \in {AfterEnd, "half", "closed"} :
          /\ SocketBecomes(state, written)
          /\ state = "half" => socket = "open"
    BY DEF ClientEnds, ClientResets, EndSocket, DestroySocket
<1>2. Allowed(state, written)
    BY <1>1, EndIsAllowed DEF IInv, TypeOK, Allowed
<1>3. /\ ~Upgraded /\ stage # "new" /\ UNCHANGED <<stage, step, ws, code, told, fault, sent>>
      /\ broken' \in BOOLEAN /\ (broken => broken')
      /\ request' = request \/ (request = "sent" /\ request' = "failed")
    BY DEF ClientEnds, ClientResets, WsUnchanged, IInv, TypeOK
<1> QED BY <1>1, <1>2, <1>3, RawStep DEF IInv, TypeOK, StageOK
LEMMA HandleKeeps ==
    ASSUME IInv, HandleWebSocket
    PROVE  IInv'
<1>1. /\ UNCHANGED <<step, broken, written, request, heard, ws, code, told, fault, sent>>
      /\ stage' \in {"rejected", "matching"} /\ socket' \in {socket, "closed"}
      /\ stage' = "matching" => socket' = socket
      /\ stage = "new" /\ socket = "open" /\ request = "none" /\ ~Upgraded
    BY DEF HandleWebSocket, WsUnchanged, IInv, StageOK
<1>2. TypeOK'
    BY <1>1 DEF IInv, TypeOK
<1>3. ~Upgraded'
    BY <1>1 DEF Upgraded
<1>4. StageOK'
    BY <1>1, <1>3 DEF IInv, StageOK
<1>5. HeardOK'
    BY <1>1, <1>3 DEF IInv, HeardOK, Unheard, HeardShort, HeardLong
<1>6. CodesOK'
    BY <1>1, CodesStay DEF IInv
<1> QED BY <1>2, <1>4, <1>5, <1>6 DEF IInv

LEMMA MatchingKeeps ==
    ASSUME IInv, MatchingEnds \/ ConnectUpstream \/ PreparationFails
    PROVE  IInv'
<1>1. /\ ~Upgraded /\ request = "none" /\ stage \in {"matching", "preparing"}
      /\ UNCHANGED <<ws, code, told, fault, sent, broken>>
      /\ stage' \in {"steps", "connecting", "settled"}
      /\ step' \in Step \cup {"none"} /\ (step' = step \/ stage = "matching")
      /\ request' = request \/ (request' = "sent" /\ stage' = "connecting")
      /\ RespondAndDestroy \/ UNCHANGED <<socket, written, heard>>
    BY DEF MatchingEnds, ConnectUpstream, PreparationFails, WsUnchanged, IInv, StageOK, TypeOK
<1>2. CASE RespondAndDestroy
    BY <1>1, <1>2, EndIsAllowed, RawStep DEF RespondAndDestroy, IInv, TypeOK
<1>3. CASE UNCHANGED <<socket, written, heard>>
  <2>1. SocketBecomes(socket, written)
      BY <1>3 DEF SocketBecomes
  <2>2. Allowed(socket, written)
      BY DEF Allowed, IInv, TypeOK
  <2> QED BY <1>1, <2>1, <2>2, RawStep DEF IInv, TypeOK
<1> QED BY <1>1, <1>2, <1>3

-----------------------------------------------------------------------------
(* The upgrade.                                                            *)

\* A handler that upgrades the client's socket, or destroys it; the upstream
\* WebSocket is open in either case.
LEMMA UpgradeKeeps ==
    ASSUME IInv, ~Upgraded, NEW opened \in {{}, {"up"}}, AcceptUpgrade(opened),
           ws["up"] = "none" \/ opened = {},
           UNCHANGED <<step, broken, code, told, fault, sent>>,
           stage' \in {"connecting", "settled"}, stage # "rejected",
           \/ request' = "upgraded"
           \/ request = "none" /\ request' = "none" /\ opened = {} /\ step \in {"echo", "listen"}
    PROVE  IInv'
<1>1. /\ TypeOK /\ ws["down"] = "none" /\ "up" \in End /\ "down" \in End
      /\ ws \in [End -> WsState] /\ "open" \in WsState
    BY DEF IInv, TypeOK, Upgraded, End, WsState
<1>2. ASSUME NEW ends \in SUBSET End, "up" \in ends => ws["up"] = "none",
             ws' = [e \in End |-> IF e \in ends THEN "open" ELSE ws[e]]
      PROVE  ws' \in [End -> WsState] /\ CodesOK'
  <2>1. ws' \in [End -> WsState]
      BY <1>1, <1>2
  <2>2. \A e \in End : ws'[e] \in {"none", "open", "closing"} =>
            ws[e] \in {"none", "open", "closing"}
      BY <1>1, <1>2 DEF End
  <2>3. SourcesStay
      BY DEF SourcesStay
  <2>4. CodesOK'
      BY <2>2, <2>3, MayBeToldStays DEF IInv, CodesOK, CodeOK
  <2> QED BY <2>1, <2>4
<1>3. CASE /\ socket = "open" /\ written' = TRUE /\ UNCHANGED socket
           /\ ws' = [e \in End |-> IF e \in opened \cup {"down"} THEN "open" ELSE ws[e]]
           /\ heard' = Append(heard, Event("websocket-accepted"))
  <2>1. ws' \in [End -> WsState] /\ CodesOK'
    <3>1. opened \cup {"down"} \in SUBSET End /\ ("up" \in opened \cup {"down"} => ws["up"] = "none")
        BY <1>1
    <3> QED BY <1>2, <1>3, <3>1
  <2>2. ws'["down"] = "open" /\ Upgraded'
      BY <1>1, <1>3 DEF Upgraded
  <2>3. heard = <<>>
      BY <1>3 DEF IInv, HeardOK, Unheard, HeardShort, HeardLong
  <2>4. Event("websocket-accepted") \in Announced
      BY DEF Event, Announced, Named, AnyCode
  <2>5. heard' \in Seq(Announced) /\ Len(heard') = 1 /\ heard'[1] = Event("websocket-accepted")
      BY <1>3, <2>3, <2>4
  <2>6. HeardLong'
      BY <1>3, <2>2, <2>5 DEF HeardLong, Event
  <2>7. TypeOK'
      BY <1>1, <1>3, <2>1, <2>5 DEF TypeOK
  <2>8. StageOK'
    <3>1. opened = {} => ws'["up"] = ws["up"]
        BY <1>1, <1>3
    <3> QED BY <3>1 DEF IInv, StageOK
  <2> QED BY <2>1, <2>6, <2>7, <2>8 DEF IInv, HeardOK
<1>4. CASE /\ RespondAndDestroy \/ (socket # "open" /\ DestroySocket)
           /\ ws' = [e \in End |-> IF e \in opened THEN "open" ELSE ws[e]]
  <2>1. ws' \in [End -> WsState] /\ CodesOK'
      BY <1>1, <1>2, <1>4
  <2>2. ws'["down"] = "none"
      BY <1>1, <1>4
  <2>3. PICK wrote \in {written, written \/ Writable} :
            SocketBecomes("closed", wrote) /\ Allowed("closed", wrote)
      BY <1>1, <1>4, EndIsAllowed DEF RespondAndDestroy, DestroySocket
  <2>4. socket' = "closed" /\ written' \in BOOLEAN /\ heard' \in Seq(Announced) /\ HeardOK'
    <3>1. socket' = "closed" /\ written' = wrote /\ wrote \in BOOLEAN
        BY <2>3 DEF SocketBecomes, Allowed
    <3>2. CASE socket # "closed"
      <4>1. heard = <<>>
          BY <3>2 DEF IInv, HeardOK, Unheard, HeardShort, HeardLong
      <4>2. heard' = <<Event(IF wrote THEN "response" ELSE "abort")>>
          BY <2>3, <3>1, <3>2, <4>1, ShortEvent, EmptyFirst DEF SocketBecomes
      <4>3. HeardShort'
          BY <2>2, <3>1, <4>2 DEF HeardShort, Event, Upgraded
      <4> QED BY <3>1, <4>2, <4>3, ShortEvent DEF HeardOK
    <3>3. CASE socket = "closed"
      <4>1. heard' = heard /\ (written' <=> written)
          BY <2>3, <3>3 DEF SocketBecomes, Allowed
      <4>2. HeardShort
          BY <3>3 DEF IInv, HeardOK, Unheard, HeardLong
      <4>3. HeardShort'
          BY <2>2, <3>1, <4>1, <4>2 DEF HeardShort, Event, Upgraded
      <4> QED BY <1>1, <3>1, <4>1, <4>3 DEF HeardOK, TypeOK
    <3> QED BY <3>2, <3>3
  <2>5. TypeOK'
      BY <1>1, <2>1, <2>4 DEF TypeOK
  <2>6. StageOK'
    <3>1. opened = {} => ws'["up"] = ws["up"]
        BY <1>1, <1>4
    <3> QED BY <2>2, <3>1 DEF IInv, StageOK, Upgraded
  <2> QED BY <2>1, <2>4, <2>5, <2>6 DEF IInv
<1> QED BY <1>3, <1>4 DEF AcceptUpgrade

LEMMA RunStepKeeps ==
    ASSUME IInv, RunStep
    PROVE  IInv'
<1>1. /\ ~Upgraded /\ request = "none" /\ stage = "steps" /\ UNCHANGED request
      /\ UNCHANGED <<step, broken, code, told, fault, sent>>
    BY DEF RunStep, IInv, StageOK, EchoOrListen, Reject, CloseOrReset, StartPassthrough
<1>2. CASE EchoOrListen
    BY <1>1, <1>2, UpgradeKeeps DEF EchoOrListen
<1>3. CASE Reject
    BY <1>1, <1>3, EndIsAllowed, RawStep DEF Reject, RespondAndDestroy, IInv, TypeOK
<1>4. CASE CloseOrReset
  <2>1. PICK state \in {AfterEnd, "closed"} : SocketBecomes(state, written)
      BY <1>4 DEF CloseOrReset, EndSocket, DestroySocket
  <2> QED BY <1>1, <1>4, <2>1, EndIsAllowed, RawStep DEF CloseOrReset, IInv, TypeOK
<1>5. CASE StartPassthrough
  <2>1. SocketBecomes(socket, written)
      BY <1>5 DEF StartPassthrough, SocketBecomes
  <2>2. Allowed(socket, written)
      BY DEF Allowed, IInv, TypeOK
  <2> QED BY <1>1, <1>5, <2>1, <2>2, RawStep DEF StartPassthrough, IInv, TypeOK
<1> QED BY <1>2, <1>3, <1>4, <1>5 DEF RunStep

LEMMA UpstreamKeeps ==
    ASSUME IInv, Upstream
    PROVE  IInv'
<1>1. /\ ~Upgraded /\ request \in {"sent", "refused"}
      /\ stage \in {"connecting", "settled"}
    BY DEF IInv, StageOK, TypeOK, Upstream, UpstreamUpgrades, BadExtensions, UpstreamRefuses,
           RefusalEnds, UpstreamFails
<1>2. CASE UpstreamUpgrades
    BY <1>1, <1>2, UpgradeKeeps DEF UpstreamUpgrades, IInv, StageOK
<1>3. CASE BadExtensions \/ UpstreamRefuses \/ RefusalEnds \/ UpstreamFails
  <2>1. /\ UNCHANGED <<stage, step, broken, ws, code, told, fault, sent>>
        /\ request' \in {"refused", "failed"}
      BY <1>3
      DEF BadExtensions, UpstreamRefuses, RefusalEnds, UpstreamFails, WsUnchanged
  <2>2. PICK state \in {AfterEnd, "closed", socket}, wrote \in {written, written \/ Writable} :
            SocketBecomes(state, wrote) /\ Allowed(state, wrote)
      BY <1>3, EndIsAllowed
      DEF IInv, BadExtensions, UpstreamRefuses, RefusalEnds, UpstreamFails, FailDownstream,
          EndSocket, DestroySocket
  <2> QED BY <1>1, <2>1, <2>2, RawStep DEF IInv, TypeOK
<1> QED BY <1>2, <1>3 DEF Upstream

-----------------------------------------------------------------------------
(* After the upgrade: messages and closes.                                 *)

LEMMA ConcatEmpty ==
    ASSUME NEW S, NEW s \in Seq(S)
    PROVE  s \o <<>> = s
OBVIOUS

LEMMA ConcatOne ==
    ASSUME NEW S, NEW s \in Seq(S), NEW x \in S
    PROVE  /\ s \o <<x>> \in Seq(S) /\ Len(s \o <<x>>) = Len(s) + 1
           /\ \A i \in 1..Len(s) : (s \o <<x>>)[i] = s[i]
           /\ (s \o <<x>>)[Len(s) + 1] = x
OBVIOUS

\* A WebSocket was accepted, and messages followed.
Chat(h) ==
    /\ h \in Seq(Announced) /\ Len(h) >= 1
    /\ h[1].event = "websocket-accepted"
    /\ \A i \in 2..Len(h) : h[i].event \in Talk

LEMMA ChatGoesOn ==
    ASSUME NEW h, Chat(h), NEW s, s = <<>> \/ \E name \in Talk : s = <<Event(name)>>
    PROVE  Chat(h \o s)
<1>1. CASE s = <<>>
    BY <1>1, ConcatEmpty DEF Chat
<1>2. ASSUME NEW name \in Talk, s = <<Event(name)>>
      PROVE  Chat(h \o s)
  <2> DEFINE x == Event(name)
  <2>1. x \in Announced /\ x.event \in Talk
      BY DEF Event, Announced, Named, AnyCode, Talk
  <2> HIDE DEF x
  <2>2. /\ h \o <<x>> \in Seq(Announced) /\ Len(h \o <<x>>) = Len(h) + 1
        /\ \A i \in 1..Len(h) : (h \o <<x>>)[i] = h[i]
        /\ (h \o <<x>>)[Len(h) + 1] = x
      BY <2>1, ConcatOne DEF Chat
  <2>3. Len(h) \in Nat
      BY DEF Chat
  <2>4. Chat(h \o <<x>>)
      BY <2>1, <2>2, <2>3 DEF Chat
  <2> QED BY <1>2, <2>4 DEF x
<1> QED BY <1>1, <1>2

LEMMA LongIsChat ==
    ASSUME TypeOK, HeardLong, ws["down"] # "closed"
    PROVE  Chat(heard)
BY DEF TypeOK, HeardLong, Chat

\* Nothing is heard, and the client's WebSocket is closed if it was.
LEMMA HeardStays ==
    ASSUME HeardOK, UNCHANGED <<heard, socket, written, stage>>, Upgraded' <=> Upgraded,
           ws'["down"] = "closed" <=> ws["down"] = "closed",
           ws["down"] = "closed" => code'["down"] = code["down"]
    PROVE  HeardOK'
<1>1. Unheard => Unheard'
    BY DEF Unheard
<1>2. HeardShort => HeardShort'
    BY DEF HeardShort, Event
<1>3. HeardLong => HeardLong'
    BY DEF HeardLong, Ends
<1> QED BY <1>1, <1>2, <1>3 DEF HeardOK

LEMMA MessageKeeps ==
    ASSUME IInv, NEW e \in End, Message(e)
    PROVE  IInv'
<1> DEFINE r == IF e = "down" /\ Upgraded
                  THEN <<Event("websocket-message-received")>> ELSE <<>>
           t == IF Piped(e) /\ Target(e) = "down" /\ ws["down"] = "open"
                  THEN <<Event("websocket-message-sent")>> ELSE <<>>
<1>1. /\ UNCHANGED <<stage, step, socket, broken, written, request, ws, code, told, fault>>
      /\ heard' = (heard \o r) \o t
      /\ ws[e] \in {"open", "closing"} /\ TypeOK
    BY DEF Message, IInv
<1>2. sent' \in [End -> 0..MaxMessages]
    BY <1>1, WebSocketAssumption DEF Message, TypeOK
<1>3. StageOK' /\ CodesOK'
    BY <1>1, CodesStay DEF IInv, StageOK, Upgraded
<1>4. CASE Upgraded /\ ws["down"] # "closed"
  <2>1. HeardLong
      BY <1>4 DEF IInv, HeardOK, Unheard, HeardShort
  <2>2. Chat(heard)
      BY <1>1, <1>4, <2>1, LongIsChat
  <2>3. r = <<>> \/ \E name \in Talk : r = <<Event(name)>>
      BY DEF Talk
  <2>4. t = <<>> \/ \E name \in Talk : t = <<Event(name)>>
      BY DEF Talk
  <2> HIDE DEF r, t
  <2>5. Chat(heard \o r)
      BY <2>2, <2>3, ChatGoesOn
  <2>6. Chat(heard')
      BY <1>1, <2>4, <2>5, ChatGoesOn, Zenon
  <2>7. HeardLong'
      BY <1>1, <1>4, <2>1, <2>6 DEF Chat, HeardLong, Upgraded
  <2>8. TypeOK'
      BY <1>1, <1>2, <2>6 DEF TypeOK, Chat
  <2> QED BY <1>3, <2>7, <2>8 DEF IInv, HeardOK
<1>5. CASE ~(Upgraded /\ ws["down"] # "closed")
  <2>1. r = <<>> /\ t = <<>>
    <3>1. e # "down" \/ ~Upgraded
        BY <1>1, <1>5
    <3>2. ~(Piped(e) /\ ws["down"] = "open")
        BY <1>5 DEF Piped, Upgraded
    <3> QED BY <3>1, <3>2
  <2> HIDE DEF r, t
  <2>2. heard' = heard
      BY <1>1, <2>1, ConcatEmpty DEF TypeOK
  <2>3. TypeOK'
      BY <1>1, <1>2, <2>2 DEF TypeOK
  <2>4. HeardOK'
      BY <1>1, <2>2, HeardStays DEF IInv, Upgraded
  <2> QED BY <1>3, <2>3, <2>4 DEF IInv
<1> QED BY <1>4, <1>5

LEMMA PeerClosesKeeps ==
    ASSUME IInv, NEW e \in End, PeerCloses(e)
    PROVE  IInv'
<1>1. /\ UNCHANGED <<stage, step, socket, broken, written, request, fault, sent, heard>>
      /\ ws[e] \in {"open", "closing"} /\ TypeOK
    BY DEF PeerCloses, IInv
<1> DEFINE Answer(k) == IF k = NoStatus THEN Bare ELSE k
<1>2. PICK k \in CloseCode \cup {NoStatus} :
          /\ code' = [code EXCEPT ![e] = k]
          /\ told' = [told EXCEPT ![e] = @ \cup Closes(e, Answer(k))]
    BY DEF PeerCloses
<1>3. k \in AnyCode /\ Answer(k) \in Status /\ Closes(e, Answer(k)) \subseteq {Answer(k)}
    BY DEF AnyCode, Status, Closes
<1>4. /\ code' \in [End -> AnyCode] /\ code'[e] = k /\ code[e] = NoCode
      /\ \A f \in End : f # e => code'[f] = code[f]
    BY <1>1, <1>2, <1>3 DEF TypeOK, IInv, CodesOK, CodeOK
<1>5. /\ told' \in [End -> SUBSET Status] /\ told'[e] \subseteq told[e] \cup {Answer(k)}
      /\ \A f \in End : f # e => told'[f] = told[f]
    BY <1>1, <1>2, <1>3 DEF TypeOK
<1>6. /\ ws' \in [End -> WsState] /\ ws'[e] = "concluded"
      /\ \A f \in End : f # e => ws'[f] = ws[f]
    BY <1>1 DEF TypeOK, PeerCloses, WsState
<1>7. TypeOK'
    BY <1>1, <1>4, <1>5, <1>6 DEF TypeOK
<1>8. "down" \in End /\ "up" \in End /\ (Upgraded' <=> Upgraded)
    BY <1>1, <1>6 DEF End, Upgraded
<1>9. StageOK'
    BY <1>1, <1>6, <1>8 DEF IInv, StageOK
<1>10. HeardOK'
    BY <1>1, <1>4, <1>6, <1>8, HeardStays DEF IInv
<1>11. CodesOK'
  <2> SUFFICES ASSUME NEW f \in End
               PROVE  CodeOK(f)'
      BY DEF CodesOK
  <2>1. CodeOK(f)
      BY DEF IInv, CodesOK
  <2>2. SourcesStay
      BY <1>1, <1>4 DEF SourcesStay
  <2>3. MayBeTold(f) \subseteq MayBeTold(f)'
      BY <2>2, MayBeToldStays
  <2>4. Answer(k) \in {Bare} \cup MayBeTold(e)'
    <3>1. k # NoStatus => k \in {code'["down"], code'["up"]} \cap CloseCode
        BY <1>4 DEF End
    <3> QED BY <3>1 DEF MayBeTold
  <2>5. told'[f] \subseteq {Bare} \cup MayBeTold(f)'
    <3>1. told[f] \subseteq {Bare} \cup MayBeTold(f)'
        BY <2>1, <2>3 DEF CodeOK
    <3>2. CASE f = e
        BY <1>5, <2>4, <3>1, <3>2
    <3>3. CASE f # e
        BY <1>5, <3>1, <3>3
    <3> QED BY <3>2, <3>3
  <2>6. fault'[f] = fault[f]
      BY <1>1
  <2> HIDE DEF Answer
  <2> QED BY <1>4, <1>6, <2>1, <2>5, <2>6 DEF CodeOK
<1> QED BY <1>7, <1>9, <1>10, <1>11 DEF IInv

LEMMA BadFrameKeeps ==
    ASSUME IInv, NEW e \in End, BadFrame(e)
    PROVE  IInv'
<1> DEFINE told1(k) == [f \in End |-> told[f]
               \cup (IF f = e THEN Closes(f, Verdict(k)) ELSE {})
               \cup (IF f = Target(e) /\ k \in BadCode /\ ws[f] # "closed" THEN {k} ELSE {})]
<1>1. /\ UNCHANGED <<stage, step, socket, broken, written, request, code, sent, heard>>
      /\ ws[e] \in {"open", "closing"} /\ Upgraded /\ TypeOK /\ "down" \in End /\ "up" \in End
      /\ ws' = [f \in End |-> IF f = e \/ (f = Target(e) /\ ws[f] # "closed")
                               THEN "failed" ELSE ws[f]]
    BY DEF BadFrame, FailPipe, IInv, Piped, Upgraded, End
<1>2. /\ ws' \in [End -> WsState] /\ ws'[e] = "failed"
      /\ \A f \in End : ws'[f] = ws[f] \/ (ws'[f] = "failed" /\ ws[f] # "closed")
    BY <1>1 DEF TypeOK, WsState
<1>3. PICK k \in BadCode \cup ErrorCode :
          fault' = [fault EXCEPT ![e] = k] /\ told' = told1(k)
    BY DEF BadFrame
<1>a. /\ Verdict(k) \in Status /\ k # NoCode
      /\ \A f \in End : Closes(f, Verdict(k)) \subseteq {Verdict(k)}
    BY CodesApart DEF Verdict, Status, ErrorCode, Closes
<1>b. /\ told' \in [End -> SUBSET Status]
      /\ \A f \in End : told'[f] \subseteq told[f] \cup (IF f = e THEN {Verdict(k)} ELSE {})
                            \cup (IF f = Target(e) THEN {k} \cap BadCode ELSE {})
  <2>1. \A f \in End : told1(k)[f] \subseteq told[f] \cup (IF f = e THEN {Verdict(k)} ELSE {})
                            \cup (IF f = Target(e) THEN {k} \cap BadCode ELSE {})
      BY <1>a
  <2>2. \A f \in End : told[f] \subseteq Status
      BY <1>1 DEF TypeOK
  <2>3. {k} \cap BadCode \subseteq Status
      BY DEF Status
  <2>4. \A f \in End : told1(k)[f] \subseteq Status
      BY <1>a, <2>1, <2>2, <2>3
  <2>5. told1(k) \in [End -> SUBSET Status]
      BY <2>4
  <2> QED BY <1>3, <2>1, <2>5
<1>c. /\ fault' \in [End -> BadCode \cup ErrorCode \cup {NoCode}] /\ fault'[e] = k
      /\ fault[e] = NoCode /\ \A f \in End : f # e => fault'[f] = fault[f]
    BY <1>1, <1>3 DEF TypeOK, IInv, CodesOK, CodeOK
<1>4. TypeOK'
    BY <1>1, <1>2, <1>b, <1>c DEF TypeOK
<1>5. Upgraded'
    BY <1>1, <1>2 DEF Upgraded
<1>6. StageOK'
  <2>1. request \in {"none", "sent"} => ws'["up"] = ws["up"]
    <3> SUFFICES ASSUME request \in {"none", "sent"}
                 PROVE  ws'["up"] = ws["up"]
        OBVIOUS
    <3>1. ws["up"] = "none" /\ step \in {"echo", "listen"}
        BY <1>1 DEF IInv, StageOK
    <3>2. e = "down" /\ Target(e) = "down"
        BY <1>1, <3>1 DEF End, Target
    <3> QED BY <1>1, <3>2
  <2> QED BY <1>1, <1>5, <2>1 DEF IInv, StageOK
<1>7. HeardOK'
    BY <1>1, <1>2, <1>5, HeardStays DEF IInv
<1>8. CodesOK'
  <2> SUFFICES ASSUME NEW f \in End
               PROVE  CodeOK(f)'
      BY DEF CodesOK
  <2>1. CodeOK(f)
      BY DEF IInv, CodesOK
  <2>2. MayBeTold(f) \subseteq MayBeTold(f)'
    <3>1. SourcesStay
        BY <1>1, <1>c DEF SourcesStay
    <3> QED BY <3>1, MayBeToldStays
  <2>3. f = e => Verdict(k) \in MayBeTold(f)'
      BY <1>a, <1>c DEF MayBeTold, Verdict
  <2>4. f = Target(e) => {k} \cap BadCode \subseteq MayBeTold(f)'
    <3>1. Target(f)' = Target(f) /\ (f = Target(e) => Target(f) = e)
        BY <1>1, EndFacts DEF Target
    <3> QED BY <1>c, <3>1 DEF MayBeTold
  <2>5. told'[f] \subseteq {Bare} \cup MayBeTold(f)'
    <3>1. told[f] \subseteq {Bare} \cup MayBeTold(f)'
        BY <2>1, <2>2 DEF CodeOK
    <3> QED BY <1>b, <2>3, <2>4, <3>1
  <2>6. ws'[f] \in {"none", "open", "closing"} =>
            ws[f] \in {"none", "open", "closing"} /\ f # e /\ code'[f] = code[f]
      BY <1>1, <1>2
  <2> QED BY <1>c, <2>1, <2>5, <2>6 DEF CodeOK
<1> QED BY <1>4, <1>6, <1>7, <1>8 DEF IInv

\* The announced end of the client's WebSocket, with the status it closed with.
LEMMA CloseEventEnds ==
    ASSUME NEW final \in AnyCode \ {NoCode}, code'["down"] = final
    PROVE  \E x \in Announced : CloseEvent("down", final) = <<x>> /\ Ends(x)'
<1>1. CASE final = Abnormal
  <2> DEFINE x == Event("abort")
  <2>1. x \in Announced /\ x.event = "abort"
      BY DEF Event, Announced, Named, AnyCode
  <2>2. CloseEvent("down", final) = <<x>>
      BY <1>1 DEF CloseEvent
  <2> HIDE DEF x
  <2> QED BY <2>1, <2>2 DEF Ends
<1>2. CASE final # Abnormal
  <2> DEFINE k == IF final = NoStatus THEN NoCode ELSE final
             x == [event |-> "websocket-close", code |-> k]
  <2>1. k \in AnyCode /\ final = (IF k = NoCode THEN NoStatus ELSE k)
      BY DEF AnyCode, NoCode, NoStatus
  <2>2. CloseEvent("down", final) = <<x>>
      BY <1>2 DEF CloseEvent
  <2> HIDE DEF k
  <2>3. x \in Announced /\ x.event = "websocket-close" /\ x.code = k
      BY <2>1 DEF Announced, Named
  <2> HIDE DEF x
  <2>4. Ends(x)'
      BY <2>1, <2>3 DEF Ends
  <2> QED BY <2>2, <2>3, <2>4
<1> QED BY <1>1, <1>2

LEMMA FinalIsCode ==
    ASSUME TypeOK, NEW e \in End
    PROVE  FinalCode(e) \in AnyCode \ {NoCode} /\ (code[e] # NoCode => FinalCode(e) = code[e])
BY DEF TypeOK, FinalCode, AnyCode, NoCode, Abnormal

\* The end follows the messages.
LEMMA ChatEnds ==
    ASSUME NEW h, Chat(h), NEW x \in Announced, heard' = h \o <<x>>, Ends(x)',
           Upgraded', written', ws'["down"] = "closed", socket' = "closed"
    PROVE  heard' \in Seq(Announced) /\ HeardLong'
<1>1. /\ h \o <<x>> \in Seq(Announced) /\ Len(h \o <<x>>) = Len(h) + 1
      /\ \A i \in 1..Len(h) : (h \o <<x>>)[i] = h[i]
      /\ (h \o <<x>>)[Len(h) + 1] = x
    BY ConcatOne DEF Chat
<1>2. heard' \in Seq(Announced) /\ Len(heard') = Len(h) + 1 /\ Len(h) \in Nat /\ Len(h) >= 1
      /\ heard'[Len(h) + 1] = x /\ \A i \in 1..Len(h) : heard'[i] = h[i]
    BY <1>1 DEF Chat
<1>3. heard'[1].event = "websocket-accepted"
    BY <1>2 DEF Chat
<1>4. ASSUME NEW i \in 2..Len(heard'), NEW y, y = heard'[i]
      PROVE  IF i = Len(heard') THEN Ends(y)' ELSE y.event \in Talk
  <2>1. CASE i = Len(heard')
      BY <1>2, <1>4, <2>1
  <2>2. CASE i # Len(heard')
    <3>1. i \in 2..Len(h) /\ i \in 1..Len(h)
        BY <1>2, <2>2
    <3> QED BY <1>2, <1>4, <2>2, <3>1 DEF Chat
  <2> QED BY <2>1, <2>2
<1> QED BY <1>2, <1>3, <1>4 DEF HeardLong, Ends

\* One WebSocket closes with `final`, and the other, if open, may be closed too: with
\* that status, none, or that of a client that reset.
Closing(e, final, status) ==
    /\ ws[e] \notin {"none", "closed"}
    /\ final \in AnyCode \ {NoCode} /\ (code[e] # NoCode => final = code[e])
    /\ code' = [code EXCEPT ![e] = final]
    /\ \/ status = Bare \/ status \in {final} \cap CloseCode
       \/ status = 1011 /\ e = "down" /\ broken'
    /\ \/ told' = told
       \/ ws[Other(e)] = "open" /\ told' = [told EXCEPT ![Other(e)] = @ \cup {status}]
    /\ \/ ws' = [ws EXCEPT ![e] = "closed"]
       \/ ws[Other(e)] = "open" /\ ws' = [ws EXCEPT ![e] = "closed", ![Other(e)] = "closing"]
    /\ broken' \in BOOLEAN /\ (broken => broken')
    /\ e = "down" \/ UNCHANGED socket
    /\ UNCHANGED <<stage, step, request, fault>>

LEMMA ClosingKeeps ==
    ASSUME IInv, NEW e \in End, NEW final, NEW status, Closing(e, final, status)
    PROVE  /\ ws' \in [End -> WsState]
           /\ code' \in [End -> AnyCode]
           /\ told' \in [End -> SUBSET Status]
           /\ ws'[e] = "closed" /\ code'[e] = final
           /\ \A f \in End : f # e => /\ ws'[f] \in {ws[f], "closing"} /\ code'[f] = code[f]
                                      /\ (ws'[f] # ws[f] => ws[f] = "open")
           /\ StageOK' /\ CodesOK'
<1> USE DEF Closing
<1>1. /\ TypeOK /\ Other(e) \in End /\ Other(e) # e
      /\ \A f \in End : f # e => f = Other(e)
    BY DEF IInv, End, Other
<1>2. /\ code' \in [End -> AnyCode] /\ code'[e] = final
      /\ \A f \in End : f # e => code'[f] = code[f]
    BY <1>1 DEF TypeOK
<1>3. /\ ws' \in [End -> WsState] /\ ws'[e] = "closed"
      /\ \A f \in End : f # e => /\ ws'[f] \in {ws[f], "closing"}
                                 /\ (ws'[f] # ws[f] => ws[f] = "open")
  <2> HIDE DEF Closing
  <2>1. ws \in [End -> WsState] /\ "closed" \in WsState /\ "closing" \in WsState
      BY <1>1 DEF TypeOK, WsState
  <2>2. CASE ws' = [ws EXCEPT ![e] = "closed"]
      BY <2>1, <2>2
  <2>3. CASE /\ ws[Other(e)] = "open"
             /\ ws' = [ws EXCEPT ![e] = "closed", ![Other(e)] = "closing"]
      BY <1>1, <2>1, <2>3
  <2>4. \/ ws' = [ws EXCEPT ![e] = "closed"]
        \/ /\ ws[Other(e)] = "open"
           /\ ws' = [ws EXCEPT ![e] = "closed", ![Other(e)] = "closing"]
      BY DEF Closing
  <2> QED BY <2>2, <2>3, <2>4
<1>4. status \in Status
    BY DEF Status
<1>5. /\ told' \in [End -> SUBSET Status] /\ told'[e] = told[e]
      /\ told'[Other(e)] \subseteq told[Other(e)] \cup {status}
  <2> HIDE DEF Closing
  <2>1. told \in [End -> SUBSET Status]
      BY <1>1 DEF TypeOK
  <2>2. CASE told' = told
      BY <1>1, <2>1, <2>2
  <2>3. CASE told' = [told EXCEPT ![Other(e)] = @ \cup {status}]
      BY <1>1, <1>4, <2>1, <2>3
  <2> QED BY <2>2, <2>3 DEF Closing
<1>6. "down" \in End /\ "up" \in End
    BY DEF End
<1>7. Upgraded' <=> Upgraded
    BY <1>3, <1>6 DEF Upgraded
<1>8. StageOK'
  <2>1. ws["up"] = "none" => ws'["up"] = "none"
      BY <1>3, <1>6
  <2> QED BY <1>7, <2>1 DEF IInv, StageOK, Upgraded
<1>9. CodesOK'
  <2>1. SourcesStay
      BY <1>1, <1>2 DEF SourcesStay
  <2>2. \A f \in End : CodeOK(f) /\ MayBeTold(f) \subseteq MayBeTold(f)'
      BY <2>1, MayBeToldStays DEF IInv, CodesOK
  <2>3. CodeOK(e)'
      BY <1>3, <1>5, <2>2 DEF CodeOK
  <2>4. CodeOK(Other(e))'
    <3>1. status \in {Bare} \cup MayBeTold(Other(e))'
      <4>1. final \in {code'["down"], code'["up"]}
          BY <1>2 DEF End
      <4>2. e = "down" => Other(e) = "up"
          BY DEF Other
      <4> QED BY <4>1, <4>2 DEF MayBeTold
    <3>2. told'[Other(e)] \subseteq {Bare} \cup MayBeTold(Other(e))'
        BY <1>1, <1>5, <2>2, <3>1 DEF CodeOK
    <3>3. ws'[Other(e)] \in {"none", "open", "closing"} =>
              ws[Other(e)] \in {"none", "open", "closing"}
        BY <1>1, <1>3
    <3>4. code'[Other(e)] = code[Other(e)]
        BY <1>1, <1>2
    <3> QED BY <1>1, <2>2, <3>2, <3>3, <3>4 DEF CodeOK
  <2> QED BY <1>1, <2>3, <2>4 DEF CodesOK
<1> QED BY <1>2, <1>3, <1>5, <1>8, <1>9

LEMMA WsClosesKeeps ==
    ASSUME IInv, NEW e \in End, WsCloses(e)
    PROVE  IInv'
<1> DEFINE final == FinalCode(e)
<1>1. /\ UNCHANGED <<stage, step, broken, written, request, fault, sent>>
      /\ ws[e] \notin {"none", "closed"} /\ TypeOK
      /\ code' = [code EXCEPT ![e] = final]
      /\ ClosePipe(e, final) /\ heard' = heard \o CloseEvent(e, final)
      /\ socket' = IF e = "down" THEN "closed" ELSE socket
    BY DEF WsCloses, IInv
<1>2. final \in AnyCode \ {NoCode} /\ (code[e] # NoCode => final = code[e])
    BY <1>1, FinalIsCode
<1> HIDE DEF final
<1>3. PICK status \in {Bare} \cup ({final} \cap CloseCode) :
          /\ \/ told' = told
             \/ ws[Other(e)] = "open" /\ told' = [told EXCEPT ![Other(e)] = @ \cup {status}]
          /\ \/ ws' = [ws EXCEPT ![e] = "closed"]
             \/ /\ ws[Other(e)] = "open"
                /\ ws' = [ws EXCEPT ![e] = "closed", ![Other(e)] = "closing"]
  <2>1. Target(e) # e => Target(e) = Other(e)
      BY DEF Target
  <2>2. PassedOn(final) \in {Bare} \cup ({final} \cap CloseCode)
      BY <1>2 DEF PassedOn, AnyCode, IsValidStatusCode, NoCode, NoStatus, Abnormal
  <2>3. CASE Piped(e) /\ Target(e) # e /\ ws[Target(e)] = "open"
      BY <1>1, <2>1, <2>2, <2>3 DEF ClosePipe
  <2>4. CASE ~(Piped(e) /\ Target(e) # e /\ ws[Target(e)] = "open")
      BY <1>1, <2>4 DEF ClosePipe
  <2> QED BY <2>3, <2>4
<1>4. /\ ws' \in [End -> WsState] /\ code' \in [End -> AnyCode] /\ told' \in [End -> SUBSET Status]
      /\ ws'[e] = "closed" /\ code'[e] = final
      /\ \A f \in End : f # e => /\ ws'[f] \in {ws[f], "closing"} /\ code'[f] = code[f]
                                 /\ (ws'[f] # ws[f] => ws[f] = "open")
      /\ StageOK' /\ CodesOK'
  <2>1. Closing(e, final, status)
      BY <1>1, <1>2, <1>3 DEF Closing, TypeOK
  <2> QED BY <2>1, ClosingKeeps
<1>5. "down" \in End
    BY DEF End
<1>6. CASE e = "down"
  <2>1. PICK x \in Announced : CloseEvent("down", final) = <<x>> /\ Ends(x)'
      BY <1>2, <1>4, <1>6, CloseEventEnds
  <2>2. HeardLong
      BY <1>1, <1>6 DEF IInv, HeardOK, Unheard, HeardShort, Upgraded
  <2>3. Chat(heard)
      BY <1>1, <1>6, <2>2, LongIsChat
  <2>4. Upgraded' /\ written' /\ ws'["down"] = "closed" /\ socket' = "closed"
      BY <1>1, <1>4, <1>6, <2>2 DEF Upgraded, HeardLong
  <2>5. heard' = heard \o <<x>>
      BY <1>1, <1>6, <2>1
  <2>6. heard' \in Seq(Announced) /\ HeardLong'
      BY <2>1, <2>3, <2>4, <2>5, ChatEnds
  <2>7. TypeOK'
      BY <1>1, <1>4, <2>4, <2>6 DEF TypeOK
  <2> QED BY <1>4, <2>6, <2>7 DEF IInv, HeardOK
<1>7. CASE e # "down"
  <2>1. heard' = heard
      BY <1>1, <1>7, ConcatEmpty DEF CloseEvent, TypeOK
  <2>2. TypeOK'
      BY <1>1, <1>4, <1>7, <2>1 DEF TypeOK
  <2>3. HeardOK'
      BY <1>1, <1>4, <1>5, <1>7, <2>1, HeardStays DEF IInv, Upgraded
  <2> QED BY <1>4, <2>2, <2>3 DEF IInv
<1> QED BY <1>6, <1>7

LEMMA UpgradedResetsKeeps ==
    ASSUME IInv, UpgradedResets
    PROVE  IInv'
<1> DEFINE final == FinalCode("down")
<1>1. /\ UNCHANGED <<stage, step, written, request, fault, sent>>
      /\ Upgraded /\ socket # "closed" /\ socket' = "closed" /\ broken' = TRUE /\ TypeOK
      /\ code' = [code EXCEPT !["down"] = final]
      /\ heard' = heard \o CloseEvent("down", final)
      /\ "down" \in End /\ Other("down") = "up"
    BY DEF UpgradedResets, IInv, End, Other
<1>2. final \in AnyCode \ {NoCode} /\ (code["down"] # NoCode => final = code["down"])
    BY <1>1, FinalIsCode
<1> HIDE DEF final
<1>3. /\ \/ told' = told
         \/ ws["up"] = "open" /\ told' = [told EXCEPT !["up"] = @ \cup {1011}]
      /\ \/ ws' = [ws EXCEPT !["down"] = "closed"]
         \/ ws["up"] = "open" /\ ws' = [ws EXCEPT !["down"] = "closed", !["up"] = "closing"]
    BY DEF UpgradedResets
<1>4. HeardLong /\ ws["down"] \notin {"none", "closed"}
    BY <1>1 DEF IInv, HeardOK, Unheard, HeardShort, HeardLong, Upgraded
<1>5. /\ ws' \in [End -> WsState] /\ code' \in [End -> AnyCode] /\ told' \in [End -> SUBSET Status]
      /\ ws'["down"] = "closed" /\ code'["down"] = final
      /\ StageOK' /\ CodesOK'
  <2>1. Closing("down", final, 1011)
      BY <1>1, <1>2, <1>3, <1>4 DEF Closing
  <2> HIDE DEF Closing
  <2> QED BY <1>1, <2>1, ClosingKeeps
<1>6. PICK x \in Announced : CloseEvent("down", final) = <<x>> /\ Ends(x)'
    BY <1>2, <1>5, CloseEventEnds
<1>7. Chat(heard)
    BY <1>1, <1>4, LongIsChat
<1>8. Upgraded' /\ written'
    BY <1>1, <1>4, <1>5 DEF Upgraded, HeardLong
<1>9. heard' \in Seq(Announced) /\ HeardLong'
    BY <1>1, <1>5, <1>6, <1>7, <1>8, ChatEnds
<1>10. TypeOK'
    BY <1>1, <1>5, <1>9 DEF TypeOK
<1> QED BY <1>5, <1>9, <1>10 DEF IInv, HeardOK

-----------------------------------------------------------------------------

LEMMA NextIInv == IInv /\ [Next]_vars => IInv'
<1> SUFFICES ASSUME IInv, [Next]_vars
             PROVE  IInv'
    OBVIOUS
<1>1. CASE UNCHANGED vars
  <2>1. UNCHANGED <<stage, step, socket, broken, written, request, ws, code, told, fault, sent, heard>>
      BY <1>1 DEF vars
  <2>2. TypeOK' /\ StageOK'
      BY <2>1 DEF IInv, TypeOK, StageOK, Upgraded
  <2>3. HeardOK' /\ CodesOK'
      BY <2>1, HeardStays, CodesStay DEF IInv, Upgraded
  <2> QED BY <2>2, <2>3 DEF IInv
<1>2. CASE HandleWebSocket \/ Handler
    BY <1>2, HandleKeeps, MatchingKeeps, RunStepKeeps DEF Handler
<1>3. CASE Upstream \/ ClientEnds \/ ClientResets \/ UpgradedResets
    BY <1>3, UpstreamKeeps, ClientKeeps, UpgradedResetsKeeps
<1>4. ASSUME NEW e \in End, Message(e) \/ PeerCloses(e) \/ BadFrame(e) \/ WsCloses(e)
      PROVE  IInv'
    BY <1>4, MessageKeeps, PeerClosesKeeps, BadFrameKeeps, WsClosesKeeps
<1> QED BY <1>1, <1>2, <1>3, <1>4 DEF Next

\* The invariant of a WebSocket request.
THEOREM WebSocketInvariant == Spec => []IInv
BY InitIInv, NextIInv, PTL DEF Spec

\* Type correctness, with every status in a close frame a known one.
THEOREM WebSocketTypeOK == Spec => []TypeOK
<1>1. IInv => TypeOK
    BY DEF IInv
<1> QED BY <1>1, WebSocketInvariant, PTL

(***************************************************************************)
(* A WebSocket request has one outcome, however its client, its upstream   *)
(* and its rule interleave, and for any number of messages: what is heard  *)
(* is nothing, a response or an abort, or an acceptance, messages, and an  *)
(* end as soon as the client's socket is closed.                           *)
(***************************************************************************)
THEOREM WebSocketOneOutcome == Spec => []OneOutcome
<1>1. IInv => OneOutcome
  <2> SUFFICES ASSUME IInv
               PROVE  OneOutcome
      OBVIOUS
  <2>1. heard \in Seq(Announced) /\ written \in BOOLEAN
      BY DEF IInv, TypeOK
  <2>2. CASE Unheard
      BY <2>2 DEF Unheard, OneOutcome
  <2>3. CASE HeardShort
      BY <2>1, <2>3 DEF HeardShort, Event, OneOutcome, Final
  <2>4. CASE HeardLong
    <3>1. \A i \in 2..Len(heard) :
              /\ heard[i].event \in Talk \cup {"abort", "websocket-close"}
              /\ heard[i].event \in Final => i = Len(heard)
        BY <2>4 DEF HeardLong, Ends, Talk, Final
    <3>2. Len(heard) \in Nat /\ Len(heard) >= 1 /\ heard # <<>> /\ written
          /\ heard[1].event = "websocket-accepted"
        BY <2>1, <2>4 DEF HeardLong
    <3>3. ASSUME NEW i \in 1..Len(heard)
          PROVE  /\ heard[i].event \in Final => i = Len(heard)
                 /\ heard[i].event = "websocket-accepted" <=> i = 1 /\ heard[i].event \notin Final
                 /\ heard[i].event = "response" => i = 1
      <4>1. CASE i = 1
          BY <3>2, <4>1 DEF Final
      <4>2. CASE i # 1
        <5>1. i \in 2..Len(heard)
            BY <3>2, <4>2
        <5> QED BY <3>1, <4>2, <5>1 DEF Talk
      <4> QED BY <4>1, <4>2
    <3>4. socket = "closed" => heard[Len(heard)].event \in Final
      <4> SUFFICES ASSUME socket = "closed"
                   PROVE  heard[Len(heard)].event \in Final
          OBVIOUS
      <4>1. ws["down"] = "closed" /\ Len(heard) \in 2..Len(heard)
          BY <2>4, <3>2 DEF HeardLong
      <4> QED BY <2>4, <4>1 DEF HeardLong, Ends, Final
    <3> QED BY <3>2, <3>3, <3>4 DEF OneOutcome
  <2> QED BY <2>2, <2>3, <2>4 DEF IInv, HeardOK
<1> QED BY <1>1, WebSocketInvariant, PTL

(***************************************************************************)
(* The statuses that either peer is closed with, and the one announced,    *)
(* come from a peer or from an error of its own, whatever statuses peers   *)
(* choose, valid or not: the library's 1005 and 1006 are sent to a peer    *)
(* only if the other did send that number.                                 *)
(***************************************************************************)
THEOREM WebSocketCodesNotInvented == Spec => []CodesNotInvented
<1>1. IInv => CodesNotInvented
  <2> SUFFICES ASSUME IInv
               PROVE  CodesNotInvented
      OBVIOUS
  <2>1. \A e \in End :
            told[e] \subseteq {Bare} \cup MayBeTold(e)
      BY DEF IInv, CodesOK, CodeOK
  <2>2. ASSUME NEW i \in 1..Len(heard), heard[i].event = "websocket-close"
        PROVE  code["down"] = (IF heard[i].code = NoCode THEN NoStatus ELSE heard[i].code)
    <3>1. HeardLong
        BY <2>2 DEF IInv, HeardOK, Unheard, HeardShort, Event
    <3>2. i \in 2..Len(heard)
        BY <2>2, <3>1 DEF HeardLong, IInv, TypeOK
    <3> QED BY <2>2, <3>1, <3>2 DEF HeardLong, Ends, Talk
  <2> QED BY <2>1, <2>2 DEF CodesNotInvented
<1> QED BY <1>1, WebSocketInvariant, PTL

=============================================================================
