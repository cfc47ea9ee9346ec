-------------------------- MODULE Passthrough_proofs --------------------------
(***************************************************************************)
(* Theorems of Passthrough, for any number of requests and connections:    *)
(* agents never outlive their connection, there is one of each kind,       *)
(* clients of HTTP/1 take their upstream requests with them, failures are  *)
(* told once, requests go to their destinations, and headers survive.      *)
(*                                                                         *)
(* Each step is seen as one of three: agents stay and connections are at   *)
(* most destroyed, an open connection gets agents, or one is closed.       *)
(***************************************************************************)
EXTENDS Forwarding, FiniteSetTheorems, SequenceTheorems, WellFoundedInduction, TLAPS

-----------------------------------------------------------------------------
(* Types *)

LEMMA InitTypeOK == Init => TypeOK
<1> SUFFICES ASSUME Init PROVE TypeOK
  OBVIOUS
<1>1. AgentsTypeOK
  BY DEF Init, AgentsInit, AgentsTypeOK
<1>2. heard \in [Request -> Seq(Event)]
  BY DEF Init
<1>3. QED
  BY <1>1, <1>2 DEF Init, TypeOK

\* The parts of steps keep the types of what they change.
LEMMA TellsType ==
    ASSUME TypeOK, NEW q \in Request, NEW events \in Seq(Event), Tells(q, events)
    PROVE  heard' \in [Request -> Seq(Event)]
  BY DEF TypeOK, Tells

LEMMA EventsType ==
    /\ <<>> \in Seq(Event)
    /\ <<"request">> \in Seq(Event)
    /\ <<"response-head">> \in Seq(Event)
    /\ <<"response-head", "response-body">> \in Seq(Event)
    /\ <<"overridden">> \in Seq(Event)
    /\ <<"response-body">> \in Seq(Event)
    /\ <<"abort">> \in Seq(Event)
  BY DEF Event

LEMMA GetOrCreateType ==
    ASSUME TypeOK, NEW q \in Request, NEW keys \in SUBSET Key, GetOrCreate(q, keys)
    PROVE  agents' \in [Connection -> SUBSET Agent]
  <1>1. [key : {k \in keys : ~Pooled(q, k)}, builtFor : {q}] \in SUBSET Agent
    BY DEF Agent
  <1>2. QED  BY <1>1, ConnectionOfAssumption DEF TypeOK, AgentsTypeOK, GetOrCreate

LEMMA FailType ==
    ASSUME TypeOK, NEW q \in Request, Fail(q)
    PROVE  /\ stage' \in [Request -> {"new", "preparing", "agent", "alpn", "sent",
                                      "answering", "streaming"} \cup Settled]
           /\ ended' \in [Request -> BOOLEAN]
           /\ conn' \in [Connection -> {"open", "destroyed", "closed"}]
           /\ down' \in [Request -> {"open", "finished", "left"}]
  BY DEF TypeOK, AgentsTypeOK, Fail, Goes, Ends, Settled

LEMMA AbortType ==
    ASSUME TypeOK, NEW q \in Request, Abort(q)
    PROVE  /\ stage' \in [Request -> {"new", "preparing", "agent", "alpn", "sent",
                                      "answering", "streaming"} \cup Settled]
           /\ ended' \in [Request -> BOOLEAN]
           /\ conn' \in [Connection -> {"open", "destroyed", "closed"}]
           /\ down' \in [Request -> {"open", "finished", "left"}]
  <1>1. /\ stage' = [stage EXCEPT ![q] = "aborted"]
        /\ ended' = ended
    BY DEF Abort, Goes
  <1>2. /\ stage' \in [Request -> {"new", "preparing", "agent", "alpn", "sent",
                                   "answering", "streaming"} \cup Settled]
        /\ ended' \in [Request -> BOOLEAN]
    BY <1>1 DEF TypeOK, Settled
  <1>3. CASE Http2(q)
    <2>1. conn' = conn /\ down' = [down EXCEPT ![q] = IfOpen(down[q], "left")]
      BY <1>3 DEF Abort
    <2>2. IfOpen(down[q], "left") \in {"open", "finished", "left"}
      BY DEF TypeOK, IfOpen
    <2>3. QED  BY <1>2, <2>1, <2>2 DEF TypeOK, AgentsTypeOK
  <1>4. CASE ~Http2(q)
    <2> DEFINE c == ConnectionOf[q]
    <2>1. down' = down /\ conn' = [conn EXCEPT ![c] = IfOpen(conn[c], "destroyed")]
      BY <1>4 DEF Abort
    <2>2. IfOpen(conn[c], "destroyed") \in {"open", "destroyed", "closed"}
      BY ConnectionOfAssumption DEF TypeOK, AgentsTypeOK, IfOpen
    <2>3. QED  BY <1>2, <2>1, <2>2 DEF TypeOK, AgentsTypeOK
  <1>5. QED  BY <1>3, <1>4

-----------------------------------------------------------------------------
(* Types are kept, action by action. *)

LEMMA BeginType ==
    ASSUME TypeOK, NEW q \in Request, Begin(q)
    PROVE  TypeOK'
  <1>1. UNCHANGED <<protocol, agents, asking, plan, up, aborted, draining, failing,
                    reported, heard>>
    BY DEF Begin
  <1>2. CASE Abort(q)  BY <1>1, <1>2, AbortType DEF TypeOK, AgentsTypeOK
  <1>3. CASE Fail(q)   BY <1>1, <1>3, FailType DEF TypeOK, AgentsTypeOK
  <1>4. CASE Goes(q, "preparing") /\ UNCHANGED <<conn, down, ended>>
    BY <1>1, <1>4 DEF TypeOK, AgentsTypeOK, Goes
  <1>5. QED  BY <1>2, <1>3, <1>4 DEF Begin

LEMMA PrepareType ==
    ASSUME TypeOK, NEW q \in Request, Prepare(q)
    PROVE  TypeOK'
  <1>1. UNCHANGED <<plan, up, aborted, draining, failing, reported, heard>>
    BY DEF Prepare
  <1>2. CASE Abort(q) /\ UNCHANGED <<protocol, agents, asking>>
    BY <1>1, <1>2, AbortType DEF TypeOK, AgentsTypeOK
  <1>3. CASE Fail(q) /\ UNCHANGED <<protocol, agents, asking>>
    BY <1>1, <1>3, FailType DEF TypeOK, AgentsTypeOK
  <1>4. CASE Goes(q, "resolved") /\ Ends(q) /\ UNCHANGED <<agentVars, down>>
    BY <1>1, <1>4 DEF TypeOK, AgentsTypeOK, Goes, Ends, Settled, agentVars
  <1>5. CASE AskForAgent(q) /\ Goes(q, "agent") /\ UNCHANGED <<down, ended>>
    BY <1>1, <1>5 DEF TypeOK, AgentsTypeOK, Goes, AskForAgent, Moves
  <1>6. QED  BY <1>2, <1>3, <1>4, <1>5 DEF Prepare

LEMMA GoWithoutType ==
    ASSUME TypeOK, NEW q \in Request, GoWithout(q)
    PROVE  TypeOK'
  <1>1. UNCHANGED <<plan, up, aborted, draining, failing, reported, heard>>
    BY DEF GoWithout
  <1>2. CASE Refuse(q) /\ Abort(q)
    BY <1>1, <1>2, AbortType DEF TypeOK, AgentsTypeOK, Refuse, Moves
  <1>3. CASE AgentFails(q) /\ Fail(q)
    BY <1>1, <1>3, FailType DEF TypeOK, AgentsTypeOK, AgentFails, Moves
  <1>4. QED  BY <1>2, <1>3 DEF GoWithout

LEMMA PrepareProxyType ==
    ASSUME TypeOK, NEW q \in Request, PrepareProxy(q)
    PROVE  TypeOK'
  BY DEF TypeOK, AgentsTypeOK, PrepareProxy, AwaitCerts, Moves, requestVars

\* makeRequest.
LEMMA SendType ==
    ASSUME TypeOK, NEW q \in Request, Send(q)
    PROVE  /\ stage' \in [Request -> {"new", "preparing", "agent", "alpn", "sent",
                                      "answering", "streaming"} \cup Settled]
           /\ up' \in [Request -> {"none", "open", "answered", "ended", "breaking", "broken"}]
           /\ heard' \in [Request -> Seq(Event)]
  <1>1. heard' \in [Request -> Seq(Event)]
    BY EventsType, TellsType DEF Send
  <1>2. QED  BY <1>1 DEF TypeOK, Send, Goes, Upstream

LEMMA GoThroughType ==
    ASSUME TypeOK, NEW q \in Request, NEW tryHttp2 \in BOOLEAN, GoThrough(q, tryHttp2)
    PROVE  /\ stage' \in [Request -> {"new", "preparing", "agent", "alpn", "sent",
                                      "answering", "streaming"} \cup Settled]
           /\ up' \in [Request -> {"none", "open", "answered", "ended", "breaking", "broken"}]
           /\ heard' \in [Request -> Seq(Event)]
  <1>1. CASE tryHttp2   BY <1>1 DEF TypeOK, GoThrough, Goes
  <1>2. CASE ~tryHttp2  BY <1>2, SendType DEF GoThrough
  <1>3. QED  BY <1>1, <1>2

LEMMA DirectKeysAreKeys ==
    ASSUME NEW q \in Request, NEW keys \in DirectKeys(q)
    PROVE  keys \in SUBSET Key
  BY DEF DirectKeys, Key

LEMMA UseAgentType ==
    ASSUME TypeOK, NEW q \in Request, UseAgent(q)
    PROVE  TypeOK'
  <1>1. UNCHANGED <<plan, aborted, draining, failing, reported, down, ended>>
    BY DEF UseAgent
  <1>2. CASE ReuseProxyAgent(q) /\ GoThrough(q, FALSE)
    BY <1>1, <1>2, GoThroughType DEF TypeOK, AgentsTypeOK, ReuseProxyAgent, Moves
  <1>3. CASE BuildProxyAgent(q) /\ GoThrough(q, FALSE)
    <2>1. agents' \in [Connection -> SUBSET Agent]
      BY <1>3, GetOrCreateType DEF BuildProxyAgent, Key
    <2>2. QED
      BY <1>1, <1>3, <2>1, GoThroughType DEF TypeOK, AgentsTypeOK, BuildProxyAgent, Moves
  <1>4. ASSUME NEW keys \in DirectKeys(q),
               UseDirectAgent(q, keys), GoThrough(q, "http2:" \in keys)
        PROVE  TypeOK'
    <2>1. agents' \in [Connection -> SUBSET Agent]
      BY <1>4, DirectKeysAreKeys, GetOrCreateType DEF UseDirectAgent
    <2>2. ("http2:" \in keys) \in BOOLEAN
      OBVIOUS
    <2>3. QED
      BY <1>1, <1>4, <2>1, <2>2, GoThroughType
      DEF TypeOK, AgentsTypeOK, UseDirectAgent, Moves
  <1>5. QED  BY <1>2, <1>3, <1>4 DEF UseAgent

LEMMA AlpnFailsType ==
    ASSUME TypeOK, NEW q \in Request, AlpnFails(q)
    PROVE  TypeOK'
  BY FailType, AbortType DEF TypeOK, AgentsTypeOK, AlpnFails

LEMMA AlpnSucceedsType ==
    ASSUME TypeOK, NEW q \in Request, AlpnSucceeds(q)
    PROVE  TypeOK'
  BY SendType DEF TypeOK, AgentsTypeOK, AlpnSucceeds, agentVars

LEMMA UpstreamHeadType ==
    ASSUME TypeOK, NEW q \in Request, UpstreamHead(q)
    PROVE  TypeOK'
  <1>1. UNCHANGED <<agentVars, aborted, draining, failing, reported, down>>
    BY DEF UpstreamHead
  <1>2. heard' \in [Request -> Seq(Event)]
    BY EventsType, TellsType DEF UpstreamHead
  <1>3. plan' \in [Request -> {"none", "pipe", "replace", "read"}]
    BY DEF TypeOK, UpstreamHead
  <1>4. /\ stage' \in [Request -> {"new", "preparing", "agent", "alpn", "sent",
                                   "answering", "streaming"} \cup Settled]
        /\ up' \in [Request -> {"none", "open", "answered", "ended", "breaking", "broken"}]
        /\ ended' \in [Request -> BOOLEAN]
    BY DEF TypeOK, UpstreamHead, Goes, Upstream, Ends, Settled
  <1>5. QED  BY <1>1, <1>2, <1>3, <1>4 DEF TypeOK, AgentsTypeOK, agentVars

LEMMA ReplaceType ==
    ASSUME TypeOK, NEW q \in Request, Replace(q)
    PROVE  TypeOK'
  <1>1. UNCHANGED <<protocol, agents, asking, plan, up, aborted, failing, reported, heard>>
    BY DEF Replace
  <1>2. CASE Fail(q) /\ UNCHANGED draining
    BY <1>1, <1>2, FailType DEF TypeOK, AgentsTypeOK
  <1>3. CASE /\ Goes(q, "resolved")
             /\ Ends(q)
             /\ draining' = [draining EXCEPT ![q] = TRUE]
             /\ UNCHANGED <<conn, down>>
    BY <1>1, <1>3 DEF TypeOK, AgentsTypeOK, Goes, Ends, Settled
  <1>4. QED  BY <1>2, <1>3 DEF Replace

LEMMA AnswerType ==
    ASSUME TypeOK, NEW q \in Request, Answer(q)
    PROVE  TypeOK'
  <1>1. UNCHANGED <<protocol, agents, asking, plan, up, aborted, draining, failing, reported>>
    BY DEF Answer
  <1>2. heard' \in [Request -> Seq(Event)]
    BY EventsType, TellsType DEF TypeOK, Answer
  <1>3. CASE Goes(q, "resolved") /\ Ends(q) /\ UNCHANGED <<conn, down>>
    BY <1>1, <1>2, <1>3 DEF TypeOK, AgentsTypeOK, Goes, Ends, Settled
  <1>4. CASE Fail(q)   BY <1>1, <1>2, <1>4, FailType DEF TypeOK, AgentsTypeOK
  <1>5. CASE Abort(q)  BY <1>1, <1>2, <1>5, AbortType DEF TypeOK, AgentsTypeOK
  <1>6. QED  BY <1>3, <1>4, <1>5 DEF Answer

LEMMA UpstreamEndType ==
    ASSUME TypeOK, NEW q \in Request, UpstreamEnd(q)
    PROVE  TypeOK'
  <1>1. UNCHANGED <<agentVars, plan, aborted, failing, reported, down>>
    BY DEF UpstreamEnd
  <1>2. heard' \in [Request -> Seq(Event)]
    BY EventsType, TellsType DEF UpstreamEnd
  <1>3. /\ up' \in [Request -> {"none", "open", "answered", "ended", "breaking", "broken"}]
        /\ draining' \in [Request -> BOOLEAN]
    BY DEF TypeOK, UpstreamEnd, Upstream
  <1>4. /\ stage' \in [Request -> {"new", "preparing", "agent", "alpn", "sent",
                                   "answering", "streaming"} \cup Settled]
        /\ ended' \in [Request -> BOOLEAN]
    BY DEF TypeOK, UpstreamEnd, Goes, Ends, Settled
  <1>5. QED  BY <1>1, <1>2, <1>3, <1>4 DEF TypeOK, AgentsTypeOK, agentVars

LEMMA ReportType ==
    ASSUME TypeOK, NEW q \in Request, Report(q)
    PROVE  heard' \in [Request -> Seq(Event)] /\ reported' \in [Request -> BOOLEAN]
  BY EventsType, TellsType DEF TypeOK, Report

LEMMA BreaksType ==
    ASSUME TypeOK, NEW q \in Request, Breaks(q)
    PROVE  TypeOK'
  <1>1. UNCHANGED <<protocol, agents, asking, plan, aborted>>
    BY DEF Breaks
  <1>2. heard' \in [Request -> Seq(Event)] /\ reported' \in [Request -> BOOLEAN]
    BY ReportType DEF Breaks
  <1>3. /\ up' \in [Request -> {"none", "open", "answered", "ended", "breaking", "broken"}]
        /\ draining' \in [Request -> BOOLEAN]
        /\ failing' \in [Request -> SUBSET Listener]
    BY DEF TypeOK, Breaks, Upstream
  <1>4. CASE UNCHANGED <<stage, ended, conn, down>>
    BY <1>1, <1>2, <1>3, <1>4 DEF TypeOK, AgentsTypeOK
  <1>5. CASE Fail(q)
    BY <1>1, <1>2, <1>3, <1>5, FailType DEF TypeOK, AgentsTypeOK
  <1>6. CASE Abort(q)
    BY <1>1, <1>2, <1>3, <1>6, AbortType DEF TypeOK, AgentsTypeOK
  <1>7. QED  BY <1>4, <1>5, <1>6 DEF Breaks, Reject

LEMMA HearAgainType ==
    ASSUME TypeOK, NEW q \in Request, HearAgain(q)
    PROVE  TypeOK'
  <1>1. UNCHANGED <<agentVars, stage, plan, up, aborted, draining, down, ended>>
    BY DEF HearAgain
  <1>2. heard' \in [Request -> Seq(Event)] /\ reported' \in [Request -> BOOLEAN]
    BY ReportType DEF HearAgain
  <1>3. failing' \in [Request -> SUBSET Listener]
    BY DEF TypeOK, HearAgain
  <1>4. QED  BY <1>1, <1>2, <1>3 DEF TypeOK, AgentsTypeOK, agentVars

LEMMA FinishType ==
    ASSUME TypeOK, NEW q \in Request, Finish(q)
    PROVE  TypeOK'
  BY DEF TypeOK, AgentsTypeOK, Finish, agentVars

LEMMA LeaveType ==
    ASSUME TypeOK, NEW qs \in SUBSET Request, Leave(qs)
    PROVE  /\ down' \in [Request -> {"open", "finished", "left"}]
           /\ aborted' \in [Request -> BOOLEAN]
  <1>1. down' \in [Request -> {"open", "finished", "left"}]
    BY DEF TypeOK, Leave
  <1>2. aborted' \in [Request -> BOOLEAN]
    BY Zenon DEF TypeOK, Leave
  <1>3. QED  BY <1>1, <1>2

LEMMA ResetStreamType ==
    ASSUME TypeOK, NEW q \in Request, ResetStream(q)
    PROVE  TypeOK'
  <1>1. UNCHANGED <<agentVars, stage, plan, draining, failing, reported, heard, ended>>
    BY DEF ResetStream
  <1>2. /\ down' \in [Request -> {"open", "finished", "left"}]
        /\ aborted' \in [Request -> BOOLEAN]
    BY LeaveType DEF ResetStream
  <1>3. up' \in [Request -> {"none", "open", "answered", "ended", "breaking", "broken"}]
    BY DEF TypeOK, ResetStream, Upstream
  <1>4. QED  BY <1>1, <1>2, <1>3 DEF TypeOK, AgentsTypeOK, agentVars

LEMMA DisconnectType ==
    ASSUME TypeOK, NEW c \in Connection, Disconnect(c)
    PROVE  TypeOK'
  BY DEF TypeOK, AgentsTypeOK, Disconnect, DestroyConnection, requestVars

LEMMA CloseType ==
    ASSUME TypeOK, NEW c \in Connection, Close(c)
    PROVE  TypeOK'
  <1>1. CloseConnection(c) /\ UNCHANGED <<stage, plan, draining, failing, reported, heard, ended>>
    BY DEF Close
  <1>2. /\ down' \in [Request -> {"open", "finished", "left"}]
        /\ aborted' \in [Request -> BOOLEAN]
    BY LeaveType DEF Close
  <1>3. up' \in [Request -> {"none", "open", "answered", "ended", "breaking", "broken"}]
    BY DEF TypeOK, Close
  <1>4. QED  BY <1>1, <1>2, <1>3 DEF TypeOK, AgentsTypeOK, CloseConnection

LEMMA NextTypeOK ==
    ASSUME TypeOK, [Next]_vars
    PROVE  TypeOK'
  <1>1. CASE UNCHANGED vars
    BY <1>1 DEF TypeOK, AgentsTypeOK, vars, agentVars, requestVars
  <1>2. ASSUME NEW q \in Request, Proceeds(q)
        PROVE  TypeOK'
    BY <1>2, BeginType, PrepareType, GoWithoutType, PrepareProxyType, UseAgentType,
       AlpnFailsType, AlpnSucceedsType, ReplaceType, AnswerType DEF Proceeds
  <1>3. ASSUME NEW q \in Request,
               UpstreamHead(q) \/ UpstreamEnd(q) \/ UpstreamFails(q) \/ UpstreamBroken(q)
        PROVE  TypeOK'
    BY <1>3, UpstreamHeadType, UpstreamEndType, BreaksType
    DEF UpstreamFails, UpstreamBroken
  <1>4. ASSUME NEW q \in Request, HearAgain(q) \/ Finish(q) \/ ResetStream(q)
        PROVE  TypeOK'
    BY <1>4, HearAgainType, FinishType, ResetStreamType
  <1>5. ASSUME NEW c \in Connection, Disconnect(c) \/ Close(c)
        PROVE  TypeOK'
    BY <1>5, DisconnectType, CloseType
  <1>6. QED  BY <1>1, <1>2, <1>3, <1>4, <1>5 DEF Next

(***************************************************************************)
(* Every state of Passthrough is of the declared types.                    *)
(***************************************************************************)
THEOREM PassthroughTypeOK == Spec => []TypeOK
  <1>1. Init => TypeOK  BY InitTypeOK
  <1>2. TypeOK /\ [Next]_vars => TypeOK'  BY NextTypeOK
  <1>3. QED  BY <1>1, <1>2, PTL DEF Spec

-----------------------------------------------------------------------------
(* Agents *)

AgentsInv == NoAgentOutlivesConnection /\ OneAgentPerKey

\* Nothing is closed, and no agents are made.
KeepsAgents ==
    /\ agents' = agents
    /\ \A c \in Connection : conn'[c] = "closed" => conn[c] = "closed"

\* An open connection gets the agents that it has not.
GetsAgents(q) ==
    \E keys \in SUBSET Key : Alive(q) /\ GetOrCreate(q, keys) /\ conn' = conn

\* What the steps of a request do to agents and connections.
Seen(q) == KeepsAgents \/ GetsAgents(q)

LEMMA SameKeepsAgents ==
    ASSUME agents' = agents, conn' = conn
    PROVE  KeepsAgents
  BY DEF KeepsAgents

LEMMA FailKeepsAgents ==
    ASSUME NEW q \in Request, Fail(q), agents' = agents
    PROVE  KeepsAgents
  BY DEF Fail, KeepsAgents

LEMMA AbortKeepsAgents ==
    ASSUME TypeOK, NEW q \in Request, Abort(q), agents' = agents
    PROVE  KeepsAgents
  <1>1. CASE Http2(q)  BY <1>1 DEF Abort, KeepsAgents
  <1>2. CASE ~Http2(q)
    <2> DEFINE c == ConnectionOf[q]
    <2>1. conn' = [conn EXCEPT ![c] = IfOpen(conn[c], "destroyed")]
      BY <1>2 DEF Abort
    <2>2. IfOpen(conn[c], "destroyed") = "closed" => conn[c] = "closed"
      BY DEF IfOpen
    <2>3. QED
      BY <2>1, <2>2, ConnectionOfAssumption DEF TypeOK, AgentsTypeOK, KeepsAgents
  <1>3. QED  BY <1>1, <1>2

LEMMA UseAgentSeen ==
    ASSUME NEW q \in Request, UseAgent(q)
    PROVE  Seen(q)
  <1>1. CASE ReuseProxyAgent(q)
    BY <1>1 DEF ReuseProxyAgent, KeepsAgents, Seen
  <1>2. CASE BuildProxyAgent(q)
    <2>1. {"proxy:"} \in SUBSET Key
      BY DEF Key
    <2>2. QED  BY <1>2, <2>1 DEF BuildProxyAgent, GetsAgents, Seen
  <1>3. ASSUME NEW keys \in DirectKeys(q), UseDirectAgent(q, keys)
        PROVE  Seen(q)
    BY <1>3, DirectKeysAreKeys DEF UseDirectAgent, GetsAgents, Seen
  <1>4. QED  BY <1>1, <1>2, <1>3 DEF UseAgent

LEMMA ProceedsSeen ==
    ASSUME TypeOK, NEW q \in Request, Proceeds(q)
    PROVE  Seen(q)
  <1>1. CASE Begin(q)
    BY <1>1, FailKeepsAgents, AbortKeepsAgents, SameKeepsAgents DEF Begin, Seen
  <1>2. CASE Prepare(q)
    BY <1>2, FailKeepsAgents, AbortKeepsAgents, SameKeepsAgents
    DEF Prepare, AskForAgent, agentVars, Seen
  <1>3. CASE GoWithout(q)
    BY <1>3, FailKeepsAgents, AbortKeepsAgents DEF GoWithout, Refuse, AgentFails, Seen
  <1>4. CASE PrepareProxy(q)
    BY <1>4, SameKeepsAgents DEF PrepareProxy, AwaitCerts, Seen
  <1>5. CASE UseAgent(q)
    BY <1>5, UseAgentSeen
  <1>6. CASE AlpnFails(q)
    BY <1>6, FailKeepsAgents, AbortKeepsAgents DEF AlpnFails, Seen
  <1>7. CASE AlpnSucceeds(q)
    BY <1>7, SameKeepsAgents DEF AlpnSucceeds, agentVars, Seen
  <1>8. CASE Replace(q)
    BY <1>8, FailKeepsAgents, SameKeepsAgents DEF Replace, Seen
  <1>9. CASE Answer(q)
    BY <1>9, FailKeepsAgents, AbortKeepsAgents, SameKeepsAgents DEF Answer, Seen
  <1>10. QED
    BY <1>1, <1>2, <1>3, <1>4, <1>5, <1>6, <1>7, <1>8, <1>9 DEF Proceeds

LEMMA BreaksKeepsAgents ==
    ASSUME TypeOK, NEW q \in Request, Breaks(q)
    PROVE  KeepsAgents
  BY FailKeepsAgents, AbortKeepsAgents, SameKeepsAgents DEF Breaks, Reject

LEMMA OthersKeepAgents ==
    ASSUME TypeOK, NEW q \in Request,
           \/ UpstreamHead(q) \/ UpstreamEnd(q) \/ UpstreamFails(q) \/ UpstreamBroken(q)
           \/ HearAgain(q) \/ Finish(q) \/ ResetStream(q)
    PROVE  KeepsAgents
  <1>1. CASE UpstreamFails(q) \/ UpstreamBroken(q)
    BY <1>1, BreaksKeepsAgents DEF UpstreamFails, UpstreamBroken
  <1>2. CASE UpstreamHead(q) \/ UpstreamEnd(q) \/ HearAgain(q) \/ Finish(q) \/ ResetStream(q)
    BY <1>2, SameKeepsAgents
    DEF UpstreamHead, UpstreamEnd, HearAgain, Finish, ResetStream, agentVars
  <1>3. QED  BY <1>1, <1>2

LEMMA KeepsAgentsInv ==
    ASSUME TypeOK, AgentsInv, KeepsAgents
    PROVE  AgentsInv'
  BY DEF AgentsInv, NoAgentOutlivesConnection, OneAgentPerKey, KeepsAgents

\* A new agent is of a key that the pool lacks, and all new ones are built for q.
LEMMA GetsAgentsInv ==
    ASSUME TypeOK, AgentsInv, NEW q \in Request, GetsAgents(q)
    PROVE  AgentsInv'
  <1> DEFINE c == ConnectionOf[q]
  <1>1. PICK keys \in SUBSET Key : Alive(q) /\ GetOrCreate(q, keys) /\ conn' = conn
    BY DEF GetsAgents
  <1> DEFINE new == [key : {k \in keys : ~Pooled(q, k)}, builtFor : {q}]
  <1>2. c \in Connection
    BY ConnectionOfAssumption
  <1>3. agents' = [agents EXCEPT ![c] = agents[c] \cup new]
    BY <1>1 DEF GetOrCreate
  <1>4. agents'[c] = agents[c] \cup new
    BY <1>2, <1>3 DEF TypeOK, AgentsTypeOK
  <1>5. \A d \in Connection : d # c => agents'[d] = agents[d]
    BY <1>3 DEF TypeOK, AgentsTypeOK
  <1>6. NoAgentOutlivesConnection'
    BY <1>1, <1>2, <1>5 DEF AgentsInv, NoAgentOutlivesConnection, Alive
  <1>7. \A a, b \in agents'[c] : a.key = b.key => a = b
    <2> SUFFICES ASSUME NEW a \in agents'[c], NEW b \in agents'[c], a.key = b.key
                 PROVE  a = b
      OBVIOUS
    <2>1. \A x \in new : ~Pooled(q, x.key) /\ x.builtFor = q /\ x = [key |-> x.key, builtFor |-> q]
      OBVIOUS
    <2>2. \A x \in agents[c] : Pooled(q, x.key)
      BY DEF Pooled
    <2>3. CASE a \in agents[c] /\ b \in agents[c]
      BY <1>2, <2>3 DEF AgentsInv, OneAgentPerKey
    <2>4. CASE a \in new /\ b \in new
      BY <2>1, <2>4
    <2>5. QED  BY <1>4, <2>1, <2>2, <2>3, <2>4
  <1>8. OneAgentPerKey'
    BY <1>5, <1>7 DEF AgentsInv, OneAgentPerKey
  <1>9. QED  BY <1>6, <1>8 DEF AgentsInv

LEMMA CloseAgentsInv ==
    ASSUME TypeOK, AgentsInv, NEW c \in Connection, CloseConnection(c)
    PROVE  AgentsInv'
  <1>1. agents' = [agents EXCEPT ![c] = {}] /\ conn' = [conn EXCEPT ![c] = "closed"]
    BY DEF CloseConnection
  <1>2. NoAgentOutlivesConnection'
    BY <1>1 DEF TypeOK, AgentsTypeOK, AgentsInv, NoAgentOutlivesConnection
  <1>3. OneAgentPerKey'
    BY <1>1 DEF TypeOK, AgentsTypeOK, AgentsInv, OneAgentPerKey
  <1>4. QED  BY <1>2, <1>3 DEF AgentsInv

LEMMA NextAgentsInv ==
    ASSUME TypeOK, AgentsInv, [Next]_vars
    PROVE  AgentsInv'
  <1>1. CASE UNCHANGED vars
    BY <1>1, SameKeepsAgents, KeepsAgentsInv DEF vars, agentVars
  <1>2. ASSUME NEW q \in Request, Proceeds(q)
        PROVE  AgentsInv'
    BY <1>2, ProceedsSeen, KeepsAgentsInv, GetsAgentsInv DEF Seen
  <1>3. ASSUME NEW q \in Request,
               \/ UpstreamHead(q) \/ UpstreamEnd(q) \/ UpstreamFails(q) \/ UpstreamBroken(q)
               \/ HearAgain(q) \/ Finish(q) \/ ResetStream(q)
        PROVE  AgentsInv'
    BY <1>3, OthersKeepAgents, KeepsAgentsInv
  <1>4. ASSUME NEW c \in Connection, Disconnect(c)
        PROVE  AgentsInv'
    <2>1. KeepsAgents
      BY <1>4 DEF TypeOK, AgentsTypeOK, Disconnect, DestroyConnection, KeepsAgents
    <2>2. QED  BY <2>1, KeepsAgentsInv
  <1>5. ASSUME NEW c \in Connection, Close(c)
        PROVE  AgentsInv'
    BY <1>5, CloseAgentsInv DEF Close
  <1>6. QED  BY <1>1, <1>2, <1>3, <1>4, <1>5 DEF Next

LEMMA InitAgentsInv == Init => AgentsInv
  BY DEF Init, AgentsInit, AgentsInv, NoAgentOutlivesConnection, OneAgentPerKey

(***************************************************************************)
(* A connection that emitted `close` has no agents: getAgent never attaches*)
(* one to a connection that nobody will clean up.                          *)
(***************************************************************************)
THEOREM PassthroughNoAgentOutlives == Spec => []NoAgentOutlivesConnection
  <1>1. Init => TypeOK /\ AgentsInv  BY InitTypeOK, InitAgentsInv
  <1>2. TypeOK /\ AgentsInv /\ [Next]_vars => TypeOK' /\ AgentsInv'
    BY NextTypeOK, NextAgentsInv
  <1>3. AgentsInv => NoAgentOutlivesConnection  BY DEF AgentsInv
  <1>4. QED  BY <1>1, <1>2, <1>3, PTL DEF Spec

(***************************************************************************)
(* A connection has one agent for each protocol or proxy, however many     *)
(* requests ask for it at the same time.                                   *)
(***************************************************************************)
THEOREM PassthroughOneAgentPerKey == Spec => []OneAgentPerKey
  <1>1. Init => TypeOK /\ AgentsInv  BY InitTypeOK, InitAgentsInv
  <1>2. TypeOK /\ AgentsInv /\ [Next]_vars => TypeOK' /\ AgentsInv'
    BY NextTypeOK, NextAgentsInv
  <1>3. AgentsInv => OneAgentPerKey  BY DEF AgentsInv
  <1>4. QED  BY <1>1, <1>2, <1>3, PTL DEF Spec

-----------------------------------------------------------------------------
(* Clients of HTTP/1 *)

(***************************************************************************)
(* The inductive invariant: a client of HTTP/1 leaves when its connection  *)
(* closes and not before, so that getAgent refuses whoever comes later, and*)
(* no await is between the agent and the upstream request.                 *)
(***************************************************************************)
Http1Inv ==
    \A q \in Request : ~Http2(q) =>
        /\ stage[q] # "alpn"
        /\ down[q] = "left" => conn[ConnectionOf[q]] = "closed" /\ ~Flowing(q)

\* Most steps only make it more true of p.
Calms(p) ==
    /\ stage'[p] = "alpn" => stage[p] = "alpn"
    /\ down'[p] = "left" => down[p] = "left"
    /\ Flowing(p)' => Flowing(p)

\* Connections keep their protocol, and stay closed.
KeepsClosed ==
    /\ protocol' = protocol
    /\ \A c \in Connection : conn[c] = "closed" => conn'[c] = "closed"

LEMMA CalmHttp1 ==
    ASSUME Http1Inv, KeepsClosed, \A p \in Request : ~Http2(p) => Calms(p)
    PROVE  Http1Inv'
  BY ConnectionOfAssumption DEF Http1Inv, KeepsClosed, Calms, Http2

\* A rejection leaves the client where it is, if it is one of HTTP/1.
LEMMA FailCalms ==
    ASSUME TypeOK, NEW q \in Request, Fail(q)
    PROVE  /\ conn' = conn
           /\ \A p \in Request : /\ stage'[p] = "alpn" => stage[p] = "alpn"
                                 /\ down'[p] = down[p]
  BY DEF TypeOK, Fail, Goes

LEMMA AbortCalms ==
    ASSUME TypeOK, NEW q \in Request, Abort(q)
    PROVE  /\ \A c \in Connection : conn[c] = "closed" => conn'[c] = "closed"
           /\ \A p \in Request : stage'[p] = "alpn" => stage[p] = "alpn"
           /\ \A p \in Request : ~Http2(p) => down'[p] = down[p]
  <1>1. \A p \in Request : stage'[p] = "alpn" => stage[p] = "alpn"
    BY DEF TypeOK, Abort, Goes
  <1>2. CASE Http2(q)
    BY <1>1, <1>2 DEF TypeOK, Abort
  <1>3. CASE ~Http2(q)
    <2> DEFINE c == ConnectionOf[q]
    <2>1. down' = down /\ conn' = [conn EXCEPT ![c] = IfOpen(conn[c], "destroyed")]
      BY <1>3 DEF Abort
    <2>2. conn[c] = "closed" => IfOpen(conn[c], "destroyed") = "closed"
      BY DEF IfOpen
    <2>3. QED
      BY <1>1, <2>1, <2>2, ConnectionOfAssumption DEF TypeOK, AgentsTypeOK
  <1>4. QED  BY <1>2, <1>3

\* An upstream request that did not flow flows only from where it is sent.
LEMMA SameUpCalms ==
    ASSUME NEW p \in Request, up' = up
    PROVE  Flowing(p)' => Flowing(p)
  BY DEF Flowing

LEMMA UseAgentHttp1 ==
    ASSUME TypeOK, Http1Inv, NEW q \in Request, UseAgent(q)
    PROVE  Http1Inv'
  <1>1. UNCHANGED <<protocol, conn, down>> /\ Alive(q)
    BY DEF UseAgent, ReuseProxyAgent, BuildProxyAgent, UseDirectAgent
  <1>2. PICK tryHttp2 \in BOOLEAN : GoThrough(q, tryHttp2) /\ (tryHttp2 => Http2(q))
    <2>1. ASSUME NEW keys \in DirectKeys(q), GoThrough(q, "http2:" \in keys)
          PROVE  \E try \in BOOLEAN : GoThrough(q, try) /\ (try => Http2(q))
      <3>1. "http2:" \in keys => Http2(q)
        BY DEF DirectKeys
      <3>2. ("http2:" \in keys) \in BOOLEAN
        OBVIOUS
      <3>3. QED  BY <2>1, <3>1, <3>2
    <2>2. QED  BY <2>1 DEF UseAgent
  <1>3. stage' = [stage EXCEPT ![q] = stage'[q]] /\ (stage'[q] = "alpn" => Http2(q))
    <2>1. CASE tryHttp2   BY <1>2, <2>1 DEF TypeOK, GoThrough, Goes
    <2>2. CASE ~tryHttp2  BY <1>2, <2>2 DEF TypeOK, GoThrough, Send, Goes
    <2>3. QED  BY <2>1, <2>2
  <1>4. \A p \in Request : p # q => up'[p] = up[p]
    <2>1. CASE tryHttp2   BY <1>2, <2>1 DEF GoThrough
    <2>2. CASE ~tryHttp2  BY <1>2, <2>2 DEF TypeOK, GoThrough, Send, Upstream
    <2>3. QED  BY <2>1, <2>2
  <1>5. ~Http2(q) => down[q] # "left"
    BY <1>1 DEF Http1Inv, Alive
  <1>6. SUFFICES ASSUME NEW p \in Request, ~Http2(p)
                 PROVE  /\ stage'[p] # "alpn"
                        /\ down'[p] = "left" =>
                              conn'[ConnectionOf[p]] = "closed" /\ ~Flowing(p)'
    BY <1>1 DEF Http1Inv, Http2
  <1>7. CASE p = q
    BY <1>1, <1>3, <1>5, <1>6, <1>7
  <1>8. CASE p # q
    <2>1. stage'[p] = stage[p] /\ up'[p] = up[p]
      BY <1>3, <1>4, <1>8 DEF TypeOK
    <2>2. QED  BY <1>1, <1>6, <2>1 DEF Http1Inv, Flowing
  <1>9. QED  BY <1>7, <1>8

LEMMA AlpnSucceedsHttp1 ==
    ASSUME TypeOK, Http1Inv, NEW q \in Request, AlpnSucceeds(q)
    PROVE  Http1Inv'
  <1>1. Http2(q)
    BY DEF Http1Inv, AlpnSucceeds
  <1>2. KeepsClosed
    BY DEF AlpnSucceeds, agentVars, KeepsClosed
  <1>3. \A p \in Request : ~Http2(p) => Calms(p)
    BY <1>1 DEF TypeOK, AlpnSucceeds, Send, Goes, Upstream, Calms, Flowing
  <1>4. QED  BY <1>2, <1>3, CalmHttp1

LEMMA ProceedsHttp1 ==
    ASSUME TypeOK, Http1Inv, NEW q \in Request, Proceeds(q)
    PROVE  Http1Inv'
  <1>1. CASE UseAgent(q)      BY <1>1, UseAgentHttp1
  <1>2. CASE AlpnSucceeds(q)  BY <1>2, AlpnSucceedsHttp1
  <1>3. CASE ~UseAgent(q) /\ ~AlpnSucceeds(q)
    <2>1. protocol' = protocol /\ up' = up
      BY <1>3 DEF Proceeds, Begin, Prepare, AskForAgent, agentVars, GoWithout, Refuse,
         AgentFails, PrepareProxy, AwaitCerts, requestVars, AlpnFails, Replace, Answer
    <2>2. \/ Fail(q)
          \/ Abort(q)
          \/ conn' = conn /\ down' = down /\ stage' = stage
          \/ /\ conn' = conn /\ down' = down
             /\ Goes(q, "preparing") \/ Goes(q, "resolved") \/ Goes(q, "agent")
      BY <1>3 DEF Proceeds, Begin, Prepare, AskForAgent, agentVars, GoWithout,
         PrepareProxy, AwaitCerts, requestVars, AlpnFails, Replace, Answer
    <2>3. KeepsClosed
      BY <2>1, <2>2, FailCalms, AbortCalms DEF KeepsClosed
    <2>4. \A p \in Request : stage'[p] = "alpn" => stage[p] = "alpn"
      BY <2>2, FailCalms, AbortCalms DEF TypeOK, Goes
    <2>5. \A p \in Request : ~Http2(p) => down'[p] = down[p]
      BY <2>2, FailCalms, AbortCalms
    <2>6. \A p \in Request : ~Http2(p) => Calms(p)
      BY <2>1, <2>4, <2>5, SameUpCalms DEF Calms
    <2>7. QED  BY <2>3, <2>6, CalmHttp1
  <1>4. QED  BY <1>1, <1>2, <1>3

LEMMA UpstreamHttp1 ==
    ASSUME TypeOK, Http1Inv, NEW q \in Request,
           UpstreamHead(q) \/ UpstreamEnd(q) \/ HearAgain(q) \/ Finish(q)
    PROVE  Http1Inv'
  <1>1. KeepsClosed
    BY DEF UpstreamHead, UpstreamEnd, HearAgain, Finish, agentVars, KeepsClosed
  <1>2. \A p \in Request : stage'[p] = "alpn" => stage[p] = "alpn"
    BY DEF TypeOK, UpstreamHead, UpstreamEnd, HearAgain, Finish, Goes
  <1>3. \A p \in Request : down'[p] = "left" => down[p] = "left"
    BY DEF TypeOK, UpstreamHead, UpstreamEnd, HearAgain, Finish
  <1>4. \A p \in Request : Flowing(p)' => Flowing(p)
    BY DEF TypeOK, UpstreamHead, UpstreamEnd, HearAgain, Finish, Upstream, Flowing
  <1>5. QED  BY <1>1, <1>2, <1>3, <1>4, CalmHttp1 DEF Calms

LEMMA BreaksHttp1 ==
    ASSUME TypeOK, Http1Inv, NEW q \in Request, Breaks(q)
    PROVE  Http1Inv'
  <1>1. \A p \in Request : Flowing(p)' => Flowing(p)
    BY DEF TypeOK, Breaks, Upstream, Flowing
  <1>2. Fail(q) \/ Abort(q) \/ UNCHANGED <<stage, ended, conn, down>>
    BY DEF Breaks, Reject
  <1>3. KeepsClosed
    BY <1>2, FailCalms, AbortCalms DEF Breaks, KeepsClosed
  <1>4. \A p \in Request : ~Http2(p) => Calms(p)
    BY <1>1, <1>2, FailCalms, AbortCalms DEF Calms
  <1>5. QED  BY <1>3, <1>4, CalmHttp1

LEMMA ResetStreamHttp1 ==
    ASSUME TypeOK, Http1Inv, NEW q \in Request, ResetStream(q)
    PROVE  Http1Inv'
  <1>1. KeepsClosed
    BY DEF ResetStream, agentVars, KeepsClosed
  <1>2. \A p \in Request : ~Http2(p) => Calms(p)
    BY DEF TypeOK, ResetStream, Leave, Upstream, Calms, Flowing
  <1>3. QED  BY <1>1, <1>2, CalmHttp1

LEMMA CloseHttp1 ==
    ASSUME TypeOK, Http1Inv, NEW c \in Connection, Close(c)
    PROVE  Http1Inv'
  <1>1. protocol' = protocol /\ conn' = [conn EXCEPT ![c] = "closed"] /\ stage' = stage
    BY DEF Close, CloseConnection
  <1>2. \A p \in Request : ConnectionOf[p] = c => ~Flowing(p)'
    BY DEF TypeOK, Close, Flowing
  <1>3. \A p \in Request : ConnectionOf[p] # c => up'[p] = up[p] /\ down'[p] = down[p]
    BY DEF TypeOK, Close, Leave
  <1>4. \A p \in Request : ConnectionOf[p] = c => conn'[ConnectionOf[p]] = "closed"
    BY <1>1 DEF TypeOK, AgentsTypeOK
  <1>5. \A p \in Request : ConnectionOf[p] # c =>
            conn'[ConnectionOf[p]] = conn[ConnectionOf[p]]
    BY <1>1, ConnectionOfAssumption DEF TypeOK, AgentsTypeOK
  <1>6. QED
    BY <1>1, <1>2, <1>3, <1>4, <1>5 DEF Http1Inv, Http2, Flowing

LEMMA NextHttp1Inv ==
    ASSUME TypeOK, Http1Inv, [Next]_vars
    PROVE  Http1Inv'
  <1>1. CASE UNCHANGED vars
    BY <1>1 DEF vars, agentVars, requestVars, Http1Inv, Http2, Flowing
  <1>2. ASSUME NEW q \in Request, Proceeds(q)
        PROVE  Http1Inv'
    BY <1>2, ProceedsHttp1
  <1>3. ASSUME NEW q \in Request,
               \/ UpstreamHead(q) \/ UpstreamEnd(q) \/ UpstreamFails(q) \/ UpstreamBroken(q)
               \/ HearAgain(q) \/ Finish(q) \/ ResetStream(q)
        PROVE  Http1Inv'
    BY <1>3, UpstreamHttp1, BreaksHttp1, ResetStreamHttp1 DEF UpstreamFails, UpstreamBroken
  <1>4. ASSUME NEW c \in Connection, Disconnect(c)
        PROVE  Http1Inv'
    <2>1. KeepsClosed
      BY <1>4 DEF TypeOK, AgentsTypeOK, Disconnect, DestroyConnection, KeepsClosed
    <2>2. \A p \in Request : Calms(p)
      BY <1>4 DEF Disconnect, requestVars, Calms, Flowing
    <2>3. QED  BY <2>1, <2>2, CalmHttp1
  <1>5. ASSUME NEW c \in Connection, Close(c)
        PROVE  Http1Inv'
    BY <1>5, CloseHttp1
  <1>6. QED  BY <1>1, <1>2, <1>3, <1>4, <1>5 DEF Next

LEMMA InitHttp1Inv == Init => Http1Inv
  BY DEF Init, Http1Inv

(***************************************************************************)
(* When a client of HTTP/1 has left before its response was complete, its  *)
(* upstream request does not go on.                                        *)
(***************************************************************************)
THEOREM PassthroughAbortedOnHttp1 == Spec => []UpstreamAbortedOnHttp1
  <1>1. Init => TypeOK /\ Http1Inv  BY InitTypeOK, InitHttp1Inv
  <1>2. TypeOK /\ Http1Inv /\ [Next]_vars => TypeOK' /\ Http1Inv'
    BY NextTypeOK, NextHttp1Inv
  <1>3. Http1Inv => UpstreamAbortedOnHttp1
    BY DEF Http1Inv, UpstreamAbortedOnHttp1
  <1>4. QED  BY <1>1, <1>2, <1>3, PTL DEF Spec

-----------------------------------------------------------------------------
(* What subscribers hear *)

Aborts(q) == {i \in 1..Len(heard[q]) : heard[q][i] = "abort"}

(***************************************************************************)
(* The inductive invariant: reportedUpstreamError is set when the upstream *)
(* request breaks, which it does once, and never after its end, and all the*)
(* listeners that hear of it later find it set.                            *)
(***************************************************************************)
HeardOf(q) ==
    /\ reported[q] = TRUE <=> up[q] = "broken"
    /\ failing[q] # {} => up[q] = "broken"
    /\ up[q] # "broken" => ~Told(q, "abort")
    /\ up[q] = "broken" => \E i \in 1..Len(heard[q]) : Aborts(q) = {i}
    /\ Told(q, "overridden") => up[q] = "ended"

HeardInv == \A q \in Request : HeardOf(q)

\* A step that only moves the upstream request between states of flowing and breaking.
Hushed(p) ==
    /\ heard'[p] = heard[p]
    /\ reported'[p] = reported[p]
    /\ failing'[p] = {} \/ failing'[p] = failing[p]
    /\ \/ up'[p] = up[p]
       \/ up[p] \notin {"ended", "broken"} /\ up'[p] # "broken"

LEMMA HushedHeard ==
    ASSUME NEW p \in Request, HeardOf(p), Hushed(p)
    PROVE  HeardOf(p)'
  BY DEF HeardOf, Hushed, Told, Aborts

\* Events are added to those of one request.
LEMMA ToldAfter ==
    ASSUME TypeOK, NEW q \in Request, NEW events \in Seq(Event), Tells(q, events)
    PROVE  /\ heard'[q] = heard[q] \o events
           /\ \A p \in Request : p # q => heard'[p] = heard[p]
           /\ \A e \in Event : Told(q, e)' <=>
                 Told(q, e) \/ \E i \in 1..Len(events) : events[i] = e
  <1>1. /\ heard'[q] = heard[q] \o events
        /\ \A p \in Request : p # q => heard'[p] = heard[p]
    BY DEF TypeOK, Tells
  <1>2. heard[q] \in Seq(Event)
    BY DEF TypeOK
  <1> DEFINE h == heard[q]
  <1>3. /\ Len(h \o events) = Len(h) + Len(events)
        /\ \A i \in 1..Len(h) : (h \o events)[i] = h[i]
        /\ \A i \in 1..Len(events) : (h \o events)[Len(h) + i] = events[i]
    BY <1>2
  <1>4. ASSUME NEW e \in Event
        PROVE  Told(q, e)' <=> Told(q, e) \/ \E i \in 1..Len(events) : events[i] = e
    <2>1. ASSUME Told(q, e)'
          PROVE  Told(q, e) \/ \E i \in 1..Len(events) : events[i] = e
      <3>1. PICK i \in 1..Len(h \o events) : (h \o events)[i] = e
        BY <1>1, <2>1 DEF Told
      <3>2. CASE i <= Len(h)
        BY <1>2, <1>3, <3>1, <3>2 DEF Told
      <3>3. CASE i > Len(h)
        <4>1. i - Len(h) \in 1..Len(events) /\ i = Len(h) + (i - Len(h))
          BY <1>2, <1>3, <3>3
        <4>2. events[i - Len(h)] = e
          BY <1>3, <3>1, <4>1
        <4>3. QED  BY <4>1, <4>2
      <3>4. QED  BY <1>2, <3>2, <3>3
    <2>2. ASSUME Told(q, e)
          PROVE  Told(q, e)'
      BY <1>1, <1>2, <1>3, <2>2 DEF Told
    <2>3. ASSUME NEW i \in 1..Len(events), events[i] = e
          PROVE  Told(q, e)'
      <3>1. Len(h) + i \in 1..Len(h \o events)
        BY <1>2, <1>3
      <3>2. QED  BY <1>1, <1>3, <2>3, <3>1 DEF Told
    <2>4. QED  BY <2>1, <2>2, <2>3
  <1>5. QED  BY <1>1, <1>4

\* Events of an upstream request that has not failed.
LEMMA TellsHeard ==
    ASSUME TypeOK, NEW q \in Request, HeardOf(q), NEW events \in Seq(Event),
           Tells(q, events), \A i \in 1..Len(events) : events[i] # "abort",
           UNCHANGED <<failing, reported>>, up[q] # "broken", up'[q] # "broken",
           up[q] = "ended" => up'[q] = "ended",
           (\E i \in 1..Len(events) : events[i] = "overridden") => up'[q] = "ended"
    PROVE  HeardOf(q)'
  <1>1. "abort" \in Event /\ "overridden" \in Event
    BY DEF Event
  <1>2. ~Told(q, "abort")'
    BY <1>1, ToldAfter DEF HeardOf
  <1>3. Told(q, "overridden")' => up'[q] = "ended"
    BY <1>1, ToldAfter DEF HeardOf
  <1>4. QED  BY <1>2, <1>3 DEF HeardOf

\* The others.
LEMMA OthersHeard ==
    ASSUME HeardInv, NEW q \in Request, HeardOf(q)',
           \A p \in Request : p # q => Hushed(p)
    PROVE  HeardInv'
  <1>1. ASSUME NEW p \in Request
        PROVE  HeardOf(p)'
    <2>1. CASE p = q  BY <2>1
    <2>2. CASE p # q  BY <2>2, HushedHeard DEF HeardInv
    <2>3. QED  BY <2>1, <2>2
  <1>2. QED  BY <1>1 DEF HeardInv

LEMMA AllHushed ==
    ASSUME HeardInv, \A p \in Request : Hushed(p)
    PROVE  HeardInv'
  <1>1. ASSUME NEW p \in Request
        PROVE  HeardOf(p)'
    BY <1>1, HushedHeard DEF HeardInv
  <1>2. QED  BY <1>1 DEF HeardInv

\* The abort is the only one, since the request had none.
LEMMA BreaksHeard ==
    ASSUME TypeOK, HeardInv, NEW q \in Request, Breaks(q), up[q] # "broken", up[q] # "ended"
    PROVE  HeardInv'
  <1> DEFINE h == heard[q]
  <1>1. HeardOf(q)
    BY DEF HeardInv
  <1>2. reported[q] # TRUE
    BY <1>1 DEF HeardOf
  <1>3. Tells(q, <<"abort">>)
    BY <1>2 DEF Breaks, Report
  <1>4. /\ heard'[q] = h \o <<"abort">>
        /\ \A p \in Request : p # q => heard'[p] = heard[p]
        /\ \A e \in Event : Told(q, e)' <=>
              Told(q, e) \/ \E i \in 1..Len(<<"abort">>) : <<"abort">>[i] = e
    BY <1>3, EventsType, ToldAfter
  <1>5. h \in Seq(Event)
    BY DEF TypeOK
  <1>6. \A i \in 1..Len(h) : h[i] # "abort"
    BY <1>1 DEF HeardOf, Told
  <1>7. /\ Len(heard'[q]) = Len(h) + 1
        /\ \A i \in 1..Len(h) : heard'[q][i] = h[i]
        /\ heard'[q][Len(h) + 1] = "abort"
    BY <1>4, <1>5
  <1>8. Aborts(q)' = {Len(h) + 1} /\ Len(h) + 1 \in 1..Len(heard'[q])
    BY <1>5, <1>6, <1>7 DEF Aborts
  <1>9. up'[q] = "broken" /\ reported'[q] = TRUE
    BY DEF TypeOK, Breaks, Upstream, Report
  <1>10. ~Told(q, "overridden")'
    <2>1. ~Told(q, "overridden")
      BY <1>1 DEF HeardOf
    <2>2. \A i \in 1..Len(<<"abort">>) : <<"abort">>[i] # "overridden"
      OBVIOUS
    <2>3. "overridden" \in Event
      BY DEF Event
    <2>4. QED  BY <1>4, <2>1, <2>2, <2>3
  <1>11. HeardOf(q)'
    BY <1>8, <1>9, <1>10 DEF HeardOf
  <1>12. \A p \in Request : p # q => Hushed(p)
    BY <1>4 DEF TypeOK, Breaks, Upstream, Report, Hushed
  <1>13. QED  BY <1>11, <1>12, OthersHeard

\* Whoever hears later finds that the failure was reported.
LEMMA HearAgainHeard ==
    ASSUME TypeOK, HeardInv, NEW q \in Request, HearAgain(q)
    PROVE  HeardInv'
  <1>1. HeardOf(q) /\ failing[q] # {}
    BY DEF HeardInv, HearAgain
  <1>2. up[q] = "broken" /\ reported[q] = TRUE
    BY <1>1 DEF HeardOf
  <1>3. heard' = [heard EXCEPT ![q] = heard[q] \o <<>>]
    BY <1>2 DEF HearAgain, Report, Tells
  <1>4. heard[q] \o <<>> = heard[q]
    BY DEF TypeOK
  <1>5. heard' = heard /\ reported' = reported /\ up' = up
    BY <1>2, <1>3, <1>4 DEF TypeOK, HearAgain, Report
  <1>6. HeardOf(q)'
    BY <1>1, <1>2, <1>5 DEF HeardOf, Told, Aborts
  <1>7. \A p \in Request : p # q => Hushed(p)
    BY <1>5 DEF TypeOK, HearAgain, Hushed
  <1>8. QED  BY <1>6, <1>7, OthersHeard

LEMMA SendHeard ==
    ASSUME TypeOK, HeardInv, NEW q \in Request, Send(q),
           up[q] = "none", UNCHANGED <<failing, reported>>
    PROVE  HeardInv'
  <1>1. Tells(q, <<"request">>)
    BY DEF Send
  <1>2. up'[q] = "open" /\ \A p \in Request : p # q => up'[p] = up[p]
    BY DEF TypeOK, Send, Upstream
  <1>3. HeardOf(q)
    BY DEF HeardInv
  <1>4. HeardOf(q)'
    <2>1. <<"request">> \in Seq(Event)
      BY EventsType
    <2>2. \A i \in 1..Len(<<"request">>) :
              <<"request">>[i] # "abort" /\ <<"request">>[i] # "overridden"
      OBVIOUS
    <2>3. up[q] # "broken" /\ up[q] # "ended" /\ up'[q] # "broken"
      BY <1>2
    <2>4. QED  BY <1>1, <1>3, <2>1, <2>2, <2>3, TellsHeard
  <1>5. \A p \in Request : p # q => Hushed(p)
    <2>1. \A p \in Request : p # q => heard'[p] = heard[p]
      BY <1>1, EventsType, ToldAfter
    <2>2. QED  BY <1>2, <2>1 DEF Hushed
  <1>6. QED  BY <1>4, <1>5, OthersHeard

(***************************************************************************)
(* There is no upstream request before it is sent.                         *)
(***************************************************************************)
UnsentInv ==
    \A q \in Request :
        stage[q] \in {"new", "preparing", "agent", "alpn"} => up[q] = "none"

LEMMA NextUnsentInv ==
    ASSUME TypeOK, UnsentInv, [Next]_vars
    PROVE  UnsentInv'
  <1> DEFINE Early == {"new", "preparing", "agent", "alpn"}
  \* Only a request that goes on stays early, and it sends nothing then.
  <1>1. ASSUME NEW q \in Request, NEW p \in Request,
               Proceeds(q), stage'[p] \in Early
        PROVE  stage[p] \in Early /\ up'[p] = up[p]
    <2>1. CASE UseAgent(q)
      <3>1. PICK tryHttp2 \in BOOLEAN : GoThrough(q, tryHttp2)
        <4>1. \A keys : ("http2:" \in keys) \in BOOLEAN
          OBVIOUS
        <4>2. QED  BY <2>1, <4>1 DEF UseAgent
      <3>2. CASE tryHttp2
        BY <1>1, <2>1, <3>1, <3>2 DEF TypeOK, UseAgent, GoThrough, Goes
      <3>3. CASE ~tryHttp2
        BY <1>1, <3>1, <3>3 DEF TypeOK, GoThrough, Send, Goes, Upstream
      <3>4. QED  BY <3>2, <3>3
    <2>2. CASE AlpnSucceeds(q)
      BY <1>1, <2>2 DEF TypeOK, AlpnSucceeds, Send, Goes, Upstream
    <2>3. CASE ~UseAgent(q) /\ ~AlpnSucceeds(q)
      <3>1. up' = up
        BY <1>1, <2>3 DEF Proceeds, Begin, Prepare, GoWithout, PrepareProxy, requestVars,
           AlpnFails, Replace, Answer
      <3>2. \/ stage' = stage
            \/ \E to \in Settled : Goes(q, to)
            \/ stage[q] \in Early /\ (Goes(q, "preparing") \/ Goes(q, "agent"))
        BY <1>1, <2>3 DEF Proceeds, Begin, Prepare, GoWithout, PrepareProxy, requestVars,
           AlpnFails, Replace, Answer, Fail, Abort, Settled
      <3>3. QED  BY <1>1, <3>1, <3>2 DEF TypeOK, Goes, Settled
    <2>4. QED  BY <2>1, <2>2, <2>3
  <1>2. ASSUME NEW q \in Request, NEW p \in Request, UpstreamHead(q) \/ UpstreamEnd(q),
               stage'[p] \in Early
        PROVE  stage[p] \in Early /\ (up[p] = "none" => up'[p] = "none")
    BY <1>2 DEF TypeOK, UpstreamHead, UpstreamEnd, Goes, Upstream
  <1>3. ASSUME NEW q \in Request, NEW p \in Request, UpstreamFails(q) \/ UpstreamBroken(q),
               stage'[p] \in Early
        PROVE  stage[p] \in Early /\ (up[p] = "none" => up'[p] = "none")
    <2>1. up[q] # "none" /\ up' = [up EXCEPT ![q] = "broken"]
      BY <1>3 DEF UpstreamFails, UpstreamBroken, Flowing, Breaks, Upstream
    <2>2. stage' = stage \/ \E to \in Settled : Goes(q, to)
      BY <1>3 DEF UpstreamFails, UpstreamBroken, Breaks, Reject, Fail, Abort, Settled
    <2>3. QED  BY <1>3, <2>1, <2>2 DEF TypeOK, Goes, Settled
  <1>4. ASSUME NEW q \in Request, NEW p \in Request,
               HearAgain(q) \/ Finish(q) \/ ResetStream(q)
        PROVE  stage'[p] = stage[p] /\ (up[p] = "none" => up'[p] = "none")
    BY <1>4 DEF TypeOK, HearAgain, Finish, ResetStream, Upstream, Flowing
  <1>5. ASSUME NEW c \in Connection, NEW p \in Request, Disconnect(c) \/ Close(c)
        PROVE  stage'[p] = stage[p] /\ (up[p] = "none" => up'[p] = "none")
    BY <1>5 DEF TypeOK, Disconnect, requestVars, Close, Flowing
  <1>6. CASE UNCHANGED vars
    BY <1>6 DEF vars, requestVars, UnsentInv
  <1>7. QED  BY <1>1, <1>2, <1>3, <1>4, <1>5, <1>6 DEF Next, UnsentInv

LEMMA UpstreamHeadHeard ==
    ASSUME TypeOK, HeardInv, NEW q \in Request, UpstreamHead(q)
    PROVE  HeardInv'
  <1>1. PICK events \in {<<"response-head">>, <<"response-head", "response-body">>} :
            Tells(q, events)
    BY DEF UpstreamHead
  <1>2. events \in Seq(Event)
    BY EventsType
  <1>3. \A i \in 1..Len(events) : events[i] # "abort" /\ events[i] # "overridden"
    OBVIOUS
  <1>4. /\ UNCHANGED <<failing, reported>>
        /\ up[q] = "open" /\ up'[q] \in {"answered", "ended"}
        /\ \A p \in Request : p # q => up'[p] = up[p]
    BY DEF TypeOK, UpstreamHead, Upstream
  <1>5. HeardOf(q)'
    BY <1>1, <1>2, <1>3, <1>4, TellsHeard DEF HeardInv
  <1>6. \A p \in Request : p # q => Hushed(p)
    BY <1>1, <1>2, <1>4, ToldAfter DEF Hushed
  <1>7. QED  BY <1>5, <1>6, OthersHeard

LEMMA AnswerHeard ==
    ASSUME TypeOK, HeardInv, NEW q \in Request, Answer(q)
    PROVE  HeardInv'
  <1>1. UNCHANGED <<failing, reported, up>> /\ up[q] = "ended"
    BY DEF Answer
  <1>2. CASE heard' = heard
    BY <1>1, <1>2, AllHushed DEF Hushed
  <1>3. CASE \E events \in {<<"overridden">>, <<"response-body">>} : Tells(q, events)
    <2>1. PICK events \in {<<"overridden">>, <<"response-body">>} : Tells(q, events)
      BY <1>3
    <2>2. events \in Seq(Event)
      BY EventsType
    <2>3. \A i \in 1..Len(events) : events[i] # "abort"
      OBVIOUS
    <2>4. HeardOf(q)'
      BY <1>1, <2>1, <2>2, <2>3, TellsHeard DEF HeardInv
    <2>5. \A p \in Request : p # q => Hushed(p)
      BY <1>1, <2>1, <2>2, ToldAfter DEF Hushed
    <2>6. QED  BY <2>4, <2>5, OthersHeard
  <1>4. QED  BY <1>2, <1>3 DEF Answer

LEMMA UpstreamEndHeard ==
    ASSUME TypeOK, HeardInv, NEW q \in Request, UpstreamEnd(q)
    PROVE  HeardInv'
  <1>1. PICK events \in {<<"overridden">>, <<>>} : Tells(q, events)
    BY DEF UpstreamEnd
  <1>2. events \in Seq(Event)
    BY EventsType
  <1>3. \A i \in 1..Len(events) : events[i] # "abort"
    OBVIOUS
  <1>4. /\ UNCHANGED <<failing, reported>>
        /\ up[q] = "answered" /\ up'[q] = "ended"
        /\ \A p \in Request : p # q => up'[p] = up[p]
    BY DEF TypeOK, UpstreamEnd, Upstream
  <1>5. HeardOf(q)'
    BY <1>1, <1>2, <1>3, <1>4, TellsHeard DEF HeardInv
  <1>6. \A p \in Request : p # q => Hushed(p)
    BY <1>1, <1>2, <1>4, ToldAfter DEF Hushed
  <1>7. QED  BY <1>5, <1>6, OthersHeard

LEMMA ProceedsHeard ==
    ASSUME TypeOK, UnsentInv, HeardInv, NEW q \in Request, Proceeds(q)
    PROVE  HeardInv'
  <1>1. CASE Answer(q)  BY <1>1, AnswerHeard
  <1>2. CASE AlpnSucceeds(q)
    BY <1>2, SendHeard DEF AlpnSucceeds, UnsentInv
  <1>3. CASE UseAgent(q)
    <2>1. UNCHANGED <<failing, reported>> /\ up[q] = "none"
      BY <1>3 DEF UseAgent, UnsentInv
    <2>2. Send(q) \/ UNCHANGED <<up, heard>>
      BY <1>3 DEF UseAgent, GoThrough
    <2>3. CASE Send(q)  BY <2>1, <2>3, SendHeard
    <2>4. CASE UNCHANGED <<up, heard>>
      BY <2>1, <2>4, AllHushed DEF Hushed
    <2>5. QED  BY <2>2, <2>3, <2>4
  <1>4. CASE UNCHANGED <<up, heard, failing, reported>>
    BY <1>4, AllHushed DEF Hushed
  <1>5. QED
    BY <1>1, <1>2, <1>3, <1>4 DEF Proceeds, Begin, Prepare, GoWithout, PrepareProxy,
       requestVars, AlpnFails, Replace

LEMMA NextHeardInv ==
    ASSUME TypeOK, UnsentInv, HeardInv, [Next]_vars
    PROVE  HeardInv'
  <1>1. CASE UNCHANGED vars
    BY <1>1, AllHushed DEF vars, requestVars, Hushed
  <1>2. ASSUME NEW q \in Request, Proceeds(q)
        PROVE  HeardInv'
    BY <1>2, ProceedsHeard
  <1>3. ASSUME NEW q \in Request, UpstreamHead(q) \/ UpstreamEnd(q)
        PROVE  HeardInv'
    BY <1>3, UpstreamHeadHeard, UpstreamEndHeard
  <1>4. ASSUME NEW q \in Request, UpstreamFails(q) \/ UpstreamBroken(q)
        PROVE  HeardInv'
    BY <1>4, BreaksHeard DEF UpstreamFails, UpstreamBroken, Flowing
  <1>5. ASSUME NEW q \in Request, Finish(q)
        PROVE  HeardInv'
    BY <1>5, AllHushed DEF Finish, Hushed
  <1>6. ASSUME NEW q \in Request, ResetStream(q)
        PROVE  HeardInv'
    <2>1. \A p \in Request : Hushed(p)
      BY <1>6 DEF TypeOK, ResetStream, Upstream, Flowing, Hushed
    <2>2. QED  BY <2>1, AllHushed
  <1>7. ASSUME NEW c \in Connection, Disconnect(c)
        PROVE  HeardInv'
    BY <1>7, AllHushed DEF Disconnect, requestVars, Hushed
  <1>8. ASSUME NEW c \in Connection, Close(c)
        PROVE  HeardInv'
    <2>1. \A p \in Request : Hushed(p)
      BY <1>8 DEF TypeOK, Close, Flowing, Hushed
    <2>2. QED  BY <2>1, AllHushed
  <1>9. ASSUME NEW q \in Request, HearAgain(q)
        PROVE  HeardInv'
    BY <1>9, HearAgainHeard
  <1>10. QED
    BY <1>1, <1>2, <1>3, <1>4, <1>5, <1>6, <1>7, <1>8, <1>9 DEF Next

LEMMA InitHeardInv == Init => UnsentInv /\ HeardInv
  BY DEF Init, UnsentInv, HeardInv, HeardOf, Told

LEMMA HeardSafety ==
    ASSUME TypeOK, HeardInv
    PROVE  FailureToldOnce /\ OriginalBodyIsWhole
  <1>1. ASSUME NEW q \in Request
        PROVE  Cardinality(Aborts(q)) = IF up[q] = "broken" THEN 1 ELSE 0
    <2>1. CASE up[q] = "broken"
      BY <2>1, FS_Singleton DEF HeardInv, HeardOf
    <2>2. CASE up[q] # "broken"
      <3>1. Aborts(q) = {}
        BY <2>2 DEF HeardInv, HeardOf, Told, Aborts
      <3>2. QED  BY <2>2, <3>1, FS_EmptySet
    <2>3. QED  BY <2>1, <2>2
  <1>2. FailureToldOnce
    BY <1>1 DEF FailureToldOnce, Aborts
  <1>3. OriginalBodyIsWhole
    BY DEF HeardInv, HeardOf, OriginalBodyIsWhole
  <1>4. QED  BY <1>2, <1>3

LEMMA HeardInductive == Spec => [](TypeOK /\ UnsentInv /\ HeardInv)
  <1>1. Init => TypeOK /\ UnsentInv /\ HeardInv  BY InitTypeOK, InitHeardInv
  <1>2. TypeOK /\ UnsentInv /\ HeardInv /\ [Next]_vars => (TypeOK /\ UnsentInv /\ HeardInv)'
    BY NextTypeOK, NextUnsentInv, NextHeardInv
  <1>3. QED  BY <1>1, <1>2, PTL DEF Spec

(***************************************************************************)
(* Subscribers hear of one abort for each upstream request that failed or  *)
(* was aborted, whichever listeners report it and whatever comes between   *)
(* them, and of none for others.                                           *)
(***************************************************************************)
THEOREM PassthroughFailureToldOnce == Spec => []FailureToldOnce
  <1>1. TypeOK /\ UnsentInv /\ HeardInv => FailureToldOnce  BY HeardSafety
  <1>2. QED  BY <1>1, HeardInductive, PTL

(***************************************************************************)
(* An original body that is announced was read to its end.                 *)
(***************************************************************************)
THEOREM PassthroughOriginalBodyIsWhole == Spec => []OriginalBodyIsWhole
  <1>1. TypeOK /\ UnsentInv /\ HeardInv => OriginalBodyIsWhole  BY HeardSafety
  <1>2. QED  BY <1>1, HeardInductive, PTL

-----------------------------------------------------------------------------
(* Destinations, for any names, addresses, ports and replacements *)

(* A destination has the name of its host, if that is read right, and a    *)
(* port.                                                                   *)
LEMMA HostsAreNamed ==
    ASSUME NEW host \in Hosts \cup {At("localhost", ServerPort)}, NEW scheme
    PROVE  /\ host = At(host.name, host.port)
           /\ ~Misread(host) => Destination(scheme, host).name = host.name
           /\ Misread(host) => Destination(scheme, host).name \notin Domain \cup Ip
           /\ Destination(scheme, host).port # 0
  <1>1. host = At(host.name, host.port)
    BY DEF Hosts, At, NoHost
  <1>2. DefaultPort(scheme) # 0
    BY DEF DefaultPort
  <1>3. CASE Misread(host)
    <2> DEFINE a == host.name
    <2>1. a \in Ip6 /\ host.port = 0
      BY <1>3 DEF Misread
    <2>2. Destination(scheme, host) = At(Opened[a], LastGroup[a])
      BY <1>3, <2>1 DEF Destination
    <2>3. LastGroup[a] # 0 /\ Opened[a] \notin Domain \cup Ip
      BY <2>1, DestinationsAssumption
    <2> QED  BY <1>1, <1>3, <2>2, <2>3 DEF At
  <1>4. CASE ~Misread(host)
    <2>1. Destination(scheme, host) =
              IF host.port = 0 THEN At(host.name, DefaultPort(scheme)) ELSE host
      BY <1>4 DEF Destination, Misread
    <2> QED  BY <1>1, <1>2, <1>4, <2>1 DEF At
  <1> QED  BY <1>3, <1>4

LEMMA RelativeHosts ==
    ASSUME NEW r \in RelativeRequest
    PROVE  /\ ~r.absolute
           /\ r.tunnel \in Hosts
           /\ UrlHost(r) \in Hosts \cup {At("localhost", ServerPort)}
  <1>1. /\ r.tunnel \in Hosts /\ r.host \in Hosts /\ ~r.absolute
        /\ r.authority \in {NoHost, At("localhost", 0)}
        /\ r.sni \in {NoHost} \cup {At(n, 0) : n \in Domain}
    BY DEF RelativeRequest
  <1>2. NoHost \in Hosts /\ \A n \in Domain : At(n, 0) \in Hosts
    BY DestinationsAssumption DEF Hosts
  <1>3. r.authority \in Hosts /\ r.sni \in Hosts
    BY <1>1, <1>2, DestinationsAssumption
  <1> QED  BY <1>1, <1>3 DEF UrlHost, FirstOf

LEMMA AbsoluteHosts ==
    ASSUME NEW r \in AbsoluteRequest
    PROVE  r.absolute /\ r.urlHost \in Hosts /\ r.tunnel = NoHost
  BY DEF AbsoluteRequest

LEMMA DestinationHost ==
    ASSUME NEW r \in RelativeRequest \cup AbsoluteRequest
    PROVE  \E host \in Hosts \cup {At("localhost", ServerPort)} :
              /\ RequestDestination(r) = Destination(Protocol(r), host)
              /\ host = IF r.absolute THEN r.urlHost
                ELSE IF Given(r.tunnel) THEN r.tunnel ELSE UrlHost(r)
  BY RelativeHosts, AbsoluteHosts DEF RequestDestination

LEMMA DestinationPort ==
    ASSUME NEW r \in RelativeRequest \cup AbsoluteRequest
    PROVE  RequestDestination(r).port # 0
  BY DestinationHost, HostsAreNamed

(* What a tunnel leads to is read right, or else there would be no URL.    *)
LEMMA TunnelIsRead ==
    ASSUME NEW r \in RelativeRequest, Preprocessed(r), Given(r.tunnel)
    PROVE  ~Misread(r.tunnel) /\ (TunnelsToIp(r) <=> r.tunnel.name \in Ip)
  <1>1. r.tunnel \in Hosts /\ ~r.absolute
    BY RelativeHosts
  <1>2. ~Misread(UrlHost(r))
    BY <1>1 DEF Preprocessed
  <1>3. ~Misread(r.tunnel)
    <2> SUFFICES ASSUME Misread(r.tunnel)
                 PROVE  FALSE
      OBVIOUS
    <2>1. ~TunnelsToIp(r)
      BY <1>1, HostsAreNamed DEF TunnelsToIp
    <2>2. UrlHost(r) = r.tunnel
      BY <2>1 DEF UrlHost
    <2> QED  BY <1>2, <2>2
  <1>4. Destination(Protocol(r), r.tunnel).name = r.tunnel.name
    BY <1>1, <1>3, HostsAreNamed
  <1> QED  BY <1>3, <1>4 DEF TunnelsToIp

(* The destination of a request has the name of its host, whose host may be*)
(* said in five places.                                                    *)
LEMMA DestinationNamed ==
    ASSUME NEW r \in RelativeRequest \cup AbsoluteRequest, Preprocessed(r),
           r.absolute => ~Misread(r.urlHost)
    PROVE  RequestDestination(r).name = IF r.absolute THEN r.urlHost.name
                ELSE IF Given(r.tunnel) THEN r.tunnel.name ELSE UrlHost(r).name
  <1>1. PICK host \in Hosts \cup {At("localhost", ServerPort)} :
              /\ RequestDestination(r) = Destination(Protocol(r), host)
              /\ host = IF r.absolute THEN r.urlHost
                ELSE IF Given(r.tunnel) THEN r.tunnel ELSE UrlHost(r)
    BY DestinationHost
  <1>2. ~Misread(host)
    <2>1. CASE r \in AbsoluteRequest
      BY <1>1, <2>1, AbsoluteHosts
    <2>2. CASE r \in RelativeRequest
      <3>1. Given(r.tunnel) => ~Misread(r.tunnel)
        BY <2>2, TunnelIsRead
      <3>2. ~r.absolute /\ ~Misread(UrlHost(r))
        BY <2>2, RelativeHosts DEF Preprocessed
      <3> QED  BY <1>1, <3>1, <3>2
    <2> QED  BY <2>1, <2>2
  <1> QED  BY <1>1, <1>2, HostsAreNamed

(* The headers name the host of a relative URL, unless a tunnel to a domain*)
(* does.                                                                   *)
LEMMA NamesAgreeRelative ==
    ASSUME NEW r \in RelativeRequest, Preprocessed(r), ~CutsGroup(RequestDestination(r).name, r)
    PROVE  EffectiveHostname(RequestDestination(r).name, r) = UrlHost(r).name
  <1> DEFINE name == RequestDestination(r).name
  <1>1. name = IF Given(r.tunnel) THEN r.tunnel.name ELSE UrlHost(r).name
    BY DestinationNamed, RelativeHosts
  <1>2. (\A host \in {r.authority, r.host, r.sni} : ~Given(host)) => WithoutPort(name) = name
    BY DEF CutsGroup, WithoutPort
  <1>3. Given(r.tunnel) => (TunnelsToIp(r) <=> r.tunnel.name \in Ip)
    BY TunnelIsRead
  <1> HIDE DEF name
  <1>4. CASE Given(r.tunnel) /\ ~TunnelsToIp(r)
    BY <1>1, <1>3, <1>4 DEF UrlHost, EffectiveHostname, name
  <1>5. CASE Given(r.tunnel) /\ TunnelsToIp(r)
    BY <1>1, <1>2, <1>3, <1>5 DEF UrlHost, EffectiveHostname, FirstOf, At, name
  <1>6. CASE ~Given(r.tunnel)
    BY <1>1, <1>6, DestinationsAssumption DEF UrlHost, EffectiveHostname, FirstOf, At, name
  <1> QED  BY <1>4, <1>5, <1>6

LEMMA NamesAlwaysAgree == NamesAgree
  <1>1. HostnamesAgree
    <2> SUFFICES ASSUME NEW r \in RelativeRequest \cup AbsoluteRequest,
                        Preprocessed(r), ~(r.absolute /\ r.urlHost.name \in Ip),
                        ~CutsGroup(RequestDestination(r).name, r)
                 PROVE  EffectiveHostname(RequestDestination(r).name, r) = NameInUrl(r)
      BY DEF HostnamesAgree, Requests
    <2>1. CASE r \in RelativeRequest
      BY <2>1, NamesAgreeRelative, RelativeHosts DEF NameInUrl
    <2>2. CASE r \in AbsoluteRequest
      <3>1. r.absolute /\ r.urlHost.name \notin Ip
        BY <2>2, AbsoluteHosts
      <3>2. ~Misread(r.urlHost)
        BY <3>1, DestinationsAssumption DEF Misread
      <3>3. RequestDestination(r).name = r.urlHost.name
        BY <3>1, <3>2, DestinationNamed
      <3> QED  BY <3>1, <3>3 DEF NameInUrl, EffectiveHostname
    <2> QED  BY <2>1, <2>2
  <1>2. ProtocolsAgree
    BY DEF ProtocolsAgree, WebSocketProtocol
  <1> QED  BY <1>1, <1>2 DEF NamesAgree

(* What the upstream request is sent to, field by field.                   *)
LEMMA TargetPort ==
    ASSUME NEW t, NEW scheme, NEW name, NEW port, ~Given(t.target)
    PROVE  Target(t, scheme, name, port).port = NewPort(t, scheme, port)
  <1> HIDE DEF NewPort
  <1>1. Target(t, scheme, name, port) = [name |-> name, port |-> NewPort(t, scheme, port)]
    BY DEF Target, At
  <1> QED  BY <1>1

LEMMA SentToFields ==
    ASSUME NEW r, NEW remote, NEW t
    PROVE  LET name == EffectiveHostname(RequestDestination(r).name, r)
               target == Target(t, Protocol(r), name, RequestDestination(r).port)
               sent == SentTo(r, remote, t)
           IN  /\ sent.address = IF target.name # name THEN target.name
                                 ELSE ClientRelative(RequestDestination(r).name, remote)
               /\ sent.name = target.name
               /\ sent.port = EffectivePort(NewProtocol(t, Protocol(r)), target.port)
               /\ t.header = "target" => sent.header = target
  BY DEF SentTo, HostHeader

LEMMA AddressAlwaysFollows == AddressFollows
  <1> SUFFICES ASSUME NEW r \in RelativeRequest \cup AbsoluteRequest, Preprocessed(r),
                      NEW remote \in Remote, NEW t \in Transform
               PROVE  LET sent == SentTo(r, remote, t) IN
                      /\ Given(r.tunnel) /\ ~Given(t.target) /\ remote \in Local =>
                             sent.address = r.tunnel.name
                      /\ sent.address \in Local =>
                             (Moved(r, t) \/ remote \in Local \/ RequestDestination(r).name \notin Local)
                      /\ Moved(r, t) => sent.address = t.target.name
                      /\ t.header = "target" => sent.header.name = sent.name
    BY DEF AddressFollows, Requests
  <1> DEFINE destination == RequestDestination(r)
             name == EffectiveHostname(destination.name, r)
             target == Target(t, Protocol(r), name, destination.port)
             sent == SentTo(r, remote, t)
  <1>1. /\ sent.address = IF target.name # name THEN target.name
                          ELSE ClientRelative(destination.name, remote)
        /\ sent.name = target.name
        /\ t.header = "target" => sent.header = target
    BY SentToFields
  <1>2. Given(r.tunnel) => destination.name = r.tunnel.name
    <2>1. ASSUME Given(r.tunnel)
          PROVE  r \in RelativeRequest /\ ~r.absolute
      BY <2>1, AbsoluteHosts, RelativeHosts DEF Given
    <2>2. Given(r.tunnel) => destination.name = r.tunnel.name
      BY <2>1, DestinationNamed
    <2> QED  BY <2>2
  <1>3. ~Given(t.target) => target.name = name
    BY DEF Target, At
  <1>4. Given(t.target) => target = t.target
    BY DEF Target
  <1>5. Moved(r, t) <=> Given(t.target) /\ t.target.name # name
    BY DEF Moved
  <1> HIDE DEF destination, name, target, sent
  <1>6. Given(r.tunnel) /\ ~Given(t.target) /\ remote \in Local => sent.address = r.tunnel.name
    BY <1>1, <1>2, <1>3 DEF ClientRelative
  <1>7. sent.address \in Local => Moved(r, t) \/ remote \in Local \/ destination.name \notin Local
    BY <1>1, <1>3, <1>4, <1>5 DEF ClientRelative
  <1>8. Moved(r, t) => sent.address = t.target.name
    BY <1>1, <1>4, <1>5
  <1>9. t.header = "target" => sent.header.name = sent.name
    BY <1>1
  <1> QED  BY <1>6, <1>7, <1>8, <1>9 DEF sent, destination

(* A port that was made explicit is never 0, which a passthrough would take*)
(* for a missing one.                                                      *)
LEMMA PortAlwaysFollows == PortFollows
  <1> SUFFICES ASSUME NEW r \in RelativeRequest \cup AbsoluteRequest,
                      NEW remote \in Remote, NEW t \in Transform, ~Given(t.target)
               PROVE  LET port == RequestDestination(r).port
                          sent == SentTo(r, remote, t)
                      IN IF t.protocol = "none" THEN sent.port = port
                         ELSE (sent.port = DefaultPort(t.protocol)) <=>
                                (port \in {DefaultPort(Protocol(r)), DefaultPort(t.protocol)})
    BY DEF PortFollows, Requests
  <1> DEFINE port == RequestDestination(r).port
             sent == SentTo(r, remote, t)
  <1>1. port # 0
    BY DestinationPort
  <1>2. sent.port = EffectivePort(NewProtocol(t, Protocol(r)), NewPort(t, Protocol(r), port))
    <2> DEFINE target == Target(t, Protocol(r), EffectiveHostname(RequestDestination(r).name, r), port)
    <2>1. target.port = NewPort(t, Protocol(r), port)
      BY TargetPort
    <2>2. sent.port = EffectivePort(NewProtocol(t, Protocol(r)), target.port)
      BY SentToFields
    <2> HIDE DEF target, sent, port
    <2> QED  BY <2>1, <2>2
  <1>3. DefaultPort(t.protocol) # 0
    BY DEF DefaultPort
  <1> HIDE DEF port, sent
  <1>4. NewPort(t, Protocol(r), port) # 0
    BY <1>1, <1>3 DEF NewPort
  <1>5. sent.port = NewPort(t, Protocol(r), port)
    BY <1>2, <1>4 DEF EffectivePort
  <1>6. IF t.protocol = "none" THEN sent.port = port
        ELSE (sent.port = DefaultPort(t.protocol)) <=>
                 (port \in {DefaultPort(Protocol(r)), DefaultPort(t.protocol)})
    BY <1>5 DEF NewPort
  <1> QED  BY <1>6 DEF port, sent

(***************************************************************************)
(* Whatever the names, addresses and ports: a passthrough works with the   *)
(* name that the URL and the events have, and sends the request to where   *)
(* its tunnel leads or its URL says unless a rule says otherwise.          *)
(***************************************************************************)
THEOREM PassthroughDestinationsAgree == Spec => []DestinationsAgree
  <1>1. DestinationsAgree
    BY NamesAlwaysAgree, AddressAlwaysFollows, PortAlwaysFollows
       DEF DestinationsAgree, UpstreamIsDestination
  <1>2. QED  BY <1>1, PTL

-----------------------------------------------------------------------------
(* Induction, and loops over sequences *)

LEMMA LeastOf ==
    ASSUME NEW T \in SUBSET Nat, T # {}
    PROVE  \E n \in T : \A m \in T : n <= m
  <1> DEFINE R == OpToRel(<, Nat)
  <1>1. IsWellFoundedOn(R, Nat)
      BY NatLessThanWellFounded
  <1>2. \A m, n \in Nat : <<m, n>> \in R <=> m < n
      BY DEF OpToRel
  <1> HIDE DEF R
  <1>3. PICK n \in T : \A m \in T : ~(<<m, n>> \in R)
      BY <1>1, WFMin
  <1>4. \A m \in T : ~(m < n)
      BY <1>2, <1>3
  <1>5. \A m \in T : n <= m
      BY <1>4
  <1> QED  BY <1>5

LEMMA Induction ==
    ASSUME NEW T \in SUBSET Nat, 0 \in T, \A n \in T : n + 1 \in T
    PROVE  T = Nat
  <1>1. SUFFICES ASSUME Nat \ T # {}
                 PROVE  FALSE
      OBVIOUS
  <1>2. PICK n \in Nat \ T : \A m \in Nat \ T : n <= m
      BY <1>1, LeastOf
  <1>3. n - 1 \in Nat /\ ~(n <= n - 1)
      BY <1>2
  <1> QED  BY <1>2, <1>3

\* Up to k, each value of f is what D makes of the one before.
Follows(f, D, start, k) == f[0] = start /\ \A n \in 1..k : f[n] = D[<<f[n - 1], n>>]

\* There is such a function.
LEMMA Recursion ==
    ASSUME NEW S, NEW start \in S, NEW D \in [S \X Nat -> S], NEW k \in Nat
    PROVE  \E f \in [0..k -> S] : Follows(f, D, start, k)
  <1> DEFINE Good(f, j) == Follows(f, D, start, j)
             T == {j \in Nat : \E f \in [0..j -> S] : Good(f, j)}
  <1>1. 0 \in T
    <2> DEFINE f == [n \in 0..0 |-> start]
    <2>1. f \in [0..0 -> S] /\ Good(f, 0)
        BY DEF Follows
    <2> QED  BY <2>1
  <1>2. ASSUME NEW j \in T
        PROVE  j + 1 \in T
    <2>1. j \in Nat
        OBVIOUS
    <2>2. PICK f \in [0..j -> S] : Good(f, j)
        OBVIOUS
    <2> HIDE DEF T
    <2> DEFINE x == D[<<f[j], j + 1>>]
               g == [n \in 0..(j + 1) |-> IF n = j + 1 THEN x ELSE f[n]]
    <2>3. /\ f[j] \in S /\ j + 1 \in Nat /\ 0 \in 0..j /\ 0 # j + 1 /\ j + 1 \in 0..(j + 1)
          /\ \A n \in 0..j : n # j + 1 /\ n \in 0..(j + 1)
          /\ \A n \in 0..(j + 1) : n = j + 1 \/ n \in 0..j
        BY <2>1
    <2>4. x \in S
        BY <2>3
    <2> HIDE DEF x
    <2>5. g \in [0..(j + 1) -> S]
        BY <2>3, <2>4
    <2>6. g[0] = start /\ g[j + 1] = x /\ \A n \in 0..j : g[n] = f[n]
        BY <2>2, <2>3 DEF Follows
    <2> HIDE DEF g
    <2>7. ASSUME NEW n \in 1..(j + 1)
          PROVE  g[n] = D[<<g[n - 1], n>>]
      <3>1. CASE n = j + 1
        <4>1. n - 1 = j /\ j \in 0..j
            BY <2>1, <3>1
        <4> QED  BY <2>6, <3>1, <4>1 DEF x
      <3>2. CASE n \in 1..j
        <4>1. n \in 0..j /\ n - 1 \in 0..j
            BY <2>1, <3>2
        <4> QED  BY <2>2, <2>6, <3>2, <4>1 DEF Follows
      <3> QED  BY <2>1, <3>1, <3>2
    <2>8. Good(g, j + 1)
        BY <2>6, <2>7 DEF Follows
    <2> QED  BY <2>3, <2>5, <2>8 DEF T
  <1> HIDE DEF T
  <1>3. T = Nat
      BY <1>1, <1>2, Induction DEF T
  <1> QED  BY <1>3 DEF T

\* What holds of no elements, and of one more, holds of all sequences.
LEMMA SequenceInduction ==
    ASSUME NEW H, NEW T \in SUBSET Seq(H), <<>> \in T,
           \A s \in T, h \in H : Append(s, h) \in T
    PROVE  T = Seq(H)
  <1> DEFINE L == {n \in Nat : \A s \in Seq(H) : Len(s) = n => s \in T}
  <1>1. 0 \in L
    <2>1. \A s \in Seq(H) : Len(s) = 0 => s = <<>>
        BY EmptySeq
    <2> QED  BY <2>1
  <1>2. ASSUME NEW n \in L
        PROVE  n + 1 \in L
    <2>1. ASSUME NEW s \in Seq(H), Len(s) = n + 1
          PROVE  s \in T
      <3>1. s # <<>>
          BY <2>1, EmptySeq
      <3>2. PICK t \in Seq(H), h \in H : s = Append(t, h)
          BY <3>1, SequenceEmptyOrAppend
      <3>3. Len(s) = Len(t) + 1 /\ Len(t) \in Nat
          BY <3>2, AppendProperties
      <3>4. t \in T
          BY <2>1, <3>3
      <3> QED  BY <3>2, <3>4
    <2> QED  BY <2>1
  <1> HIDE DEF L
  <1>3. L = Nat
      BY <1>1, <1>2, Induction DEF L
  <1>4. \A s \in Seq(H) : Len(s) \in L
      BY <1>3
  <1> QED  BY <1>4 DEF L

\* The loop over a sequence that starts with start and goes on with D.
IsLoop(f, D, start, s) ==
    f = [n \in 0..Len(s) |-> IF n = 0 THEN start ELSE D[<<f[n - 1], s[n]>>]]
Loop(D, start, s) == CHOOSE f : IsLoop(f, D, start, s)
After(D, start, s) == Loop(D, start, s)[Len(s)]

\* A loop in equations.
LEMMA LoopUnfolds ==
    ASSUME NEW f, NEW D, NEW start, NEW s, Len(s) \in Nat, IsLoop(f, D, start, s)
    PROVE  /\ DOMAIN f = 0..Len(s) /\ f[0] = start /\ f = [n \in 0..Len(s) |-> f[n]]
           /\ \A n \in 1..Len(s) : f[n] = D[<<f[n - 1], s[n]>>]
  <1> DEFINE body(n) == IF n = 0 THEN start ELSE D[<<f[n - 1], s[n]>>]
  <1>1. f = [n \in 0..Len(s) |-> body(n)]
      BY Zenon DEF IsLoop
  <1>2. body(0) = start /\ \A n \in 1..Len(s) : body(n) = D[<<f[n - 1], s[n]>>]
      OBVIOUS
  <1> HIDE DEF body
  <1>3. 0 \in 0..Len(s) /\ \A n \in 1..Len(s) : n \in 0..Len(s)
      OBVIOUS
  <1>4. DOMAIN f = 0..Len(s) /\ f = [n \in 0..Len(s) |-> f[n]] /\ \A n \in 0..Len(s) : f[n] = body(n)
      BY <1>1
  <1> QED  BY <1>2, <1>3, <1>4, Zenon

\* There is one loop.
LEMMA LoopExists ==
    ASSUME NEW H, NEW S, NEW start \in S, NEW D \in [S \X H -> S], NEW s \in Seq(H)
    PROVE  /\ IsLoop(Loop(D, start, s), D, start, s)
           /\ Loop(D, start, s) \in [0..Len(s) -> S]
           /\ \A f : IsLoop(f, D, start, s) => f = Loop(D, start, s)
  <1> DEFINE N == Len(s)
             E == [x \in S \X Nat |-> IF x[2] \in 1..N THEN D[<<x[1], s[x[2]]>>] ELSE x[1]]
  <1>1. N \in Nat /\ DOMAIN s = 1..N /\ \A n \in 1..N : s[n] \in H
      OBVIOUS
  <1>2. \A x \in S, h \in H : D[<<x, h>>] \in S
      OBVIOUS
  <1>3. E \in [S \X Nat -> S] /\ \A x \in S, n \in 1..N : E[<<x, n>>] = D[<<x, s[n]>>]
      BY <1>1, <1>2
  <1> HIDE DEF E
  <1>4. PICK f \in [0..N -> S] : f[0] = start /\ \A n \in 1..N : f[n] = E[<<f[n - 1], n>>]
    <2>1. \E f \in [0..N -> S] : Follows(f, E, start, N)
        BY <1>1, <1>3, Recursion
    <2> QED  BY <2>1 DEF Follows
  <1>5. ASSUME NEW n \in 1..N
        PROVE  f[n] = D[<<f[n - 1], s[n]>>]
    <2>1. f[n - 1] \in S
        BY <1>1
    <2> QED  BY <1>3, <1>4, <2>1
  <1>6. IsLoop(f, D, start, s)
      BY <1>1, <1>4, <1>5 DEF IsLoop
  <1>7. ASSUME NEW g, IsLoop(g, D, start, s)
        PROVE  g = f
    <2>1. /\ DOMAIN g = 0..N /\ g[0] = start /\ g = [n \in 0..N |-> g[n]]
          /\ \A n \in 1..N : g[n] = D[<<g[n - 1], s[n]>>]
        BY <1>1, <1>7, LoopUnfolds
    <2> DEFINE T == {k \in Nat : k \in 0..N => g[k] = f[k]}
    <2>2. 0 \in T
        BY <1>4, <2>1
    <2>3. ASSUME NEW k \in T
          PROVE  k + 1 \in T
      <3>1. CASE k + 1 \in 0..N
        <4>1. g[k] = f[k] /\ k + 1 \in 1..N /\ (k + 1) - 1 = k
            BY <1>1, <3>1
        <4>2. g[k + 1] = D[<<g[k], s[k + 1]>>] /\ f[k + 1] = D[<<f[k], s[k + 1]>>]
            BY <1>5, <2>1, <4>1
        <4>3. g[k + 1] = f[k + 1]
            BY <4>1, <4>2
        <4> QED  BY <4>3
      <3> QED  BY <3>1
    <2> HIDE DEF T
    <2>4. T = Nat
        BY <2>2, <2>3, Induction DEF T
    <2>5. \A k \in 0..N : g[k] = f[k]
        BY <1>1, <2>4 DEF T
    <2> QED  BY <2>1, <2>5
  <1>8. IsLoop(Loop(D, start, s), D, start, s)
      BY <1>6, Zenon DEF Loop
  <1>9. Loop(D, start, s) = f
      BY <1>7, <1>8
  <1> QED  BY <1>6, <1>7, <1>9

\* What one step of a loop does, on states S and elements H.
IsStep(D, start, S, H) == start \in S /\ D \in [S \X H -> S]

LEMMA LoopUnique ==
    ASSUME NEW H, NEW S, NEW start, NEW D, IsStep(D, start, S, H), NEW s \in Seq(H),
           NEW f, IsLoop(f, D, start, s)
    PROVE  f = Loop(D, start, s)
  <1>1. start \in S /\ D \in [S \X H -> S]
      BY DEF IsStep
  <1>2. \A g : IsLoop(g, D, start, s) => g = Loop(D, start, s)
      BY <1>1, LoopExists, Zenon
  <1> QED  BY <1>2, Zenon

\* A loop over one element more goes one step further.
LEMMA LoopNext ==
    ASSUME NEW H, NEW S, NEW start \in S, NEW D \in [S \X H -> S]
    PROVE  /\ After(D, start, <<>>) = start
           /\ \A s \in Seq(H), h \in H :
                  After(D, start, Append(s, h)) = D[<<After(D, start, s), h>>]
           /\ \A s \in Seq(H) : After(D, start, s) \in S
  <1>0. IsStep(D, start, S, H)
      BY DEF IsStep
  <1>1. After(D, start, <<>>) = start
    <2>1. <<>> \in Seq(H) /\ Len(<<>>) = 0
        OBVIOUS
    <2>2. IsLoop(Loop(D, start, <<>>), D, start, <<>>)
        BY <2>1, LoopExists
    <2> QED  BY <2>1, <2>2 DEF IsLoop, After
  <1>2. ASSUME NEW s \in Seq(H), NEW h \in H
        PROVE  After(D, start, Append(s, h)) = D[<<After(D, start, s), h>>]
    <2> DEFINE N == Len(s)
               t == Append(s, h)
               f == Loop(D, start, t)
               g == [n \in 0..N |-> f[n]]
    <2>1. /\ t \in Seq(H) /\ Len(t) = N + 1 /\ N \in Nat /\ t[N + 1] = h
          /\ \A n \in 1..N : t[n] = s[n]
        BY AppendProperties
    <2> HIDE DEF t
    <2>2. IsLoop(f, D, start, t)
        BY <2>1, LoopExists
    <2> HIDE DEF f
    <2>3. f[0] = start /\ \A n \in 1..(N + 1) : f[n] = D[<<f[n - 1], t[n]>>]
        BY <2>1, <2>2, LoopUnfolds
    <2>4. \A n \in 1..N : n - 1 \in 0..N /\ n \in 1..(N + 1) /\ n \in 0..N /\ n # 0
        BY <2>1
    <2>5. 0 \in 0..N /\ N \in 0..N /\ N + 1 \in 1..(N + 1) /\ (N + 1) - 1 = N
        BY <2>1
    <2>6. g[0] = start /\ g[N] = f[N] /\ \A n \in 1..N : g[n] = D[<<g[n - 1], s[n]>>]
        BY <2>1, <2>3, <2>4, <2>5
    <2>7. g = [n \in 0..N |-> g[n]]
        OBVIOUS
    <2> HIDE DEF g
    <2>8. \A n \in 0..N : n = 0 \/ n \in 1..N
        BY <2>1
    <2>9. IsLoop(g, D, start, s)
        BY <2>6, <2>7, <2>8 DEF IsLoop
    <2>10. g = Loop(D, start, s)
        BY <1>0, <2>9, LoopUnique
    <2>11. f[N + 1] = D[<<f[N], h>>]
        BY <2>1, <2>3, <2>5
    <2>12. f[N] = After(D, start, s)
        BY <2>6, <2>10 DEF After
    <2> QED  BY <2>1, <2>11, <2>12 DEF After, f, t
  <1>3. ASSUME NEW s \in Seq(H)
        PROVE  After(D, start, s) \in S
    <2>1. Loop(D, start, s) \in [0..Len(s) -> S] /\ Len(s) \in 0..Len(s)
      <3>1. Loop(D, start, s) \in [0..Len(s) -> S]
          BY LoopExists, Zenon
      <3> QED  BY <3>1
    <2> QED  BY <2>1 DEF After
  <1> QED  BY <1>1, <1>2, <1>3

\* A function that goes on with D, as long as it stays in S, is the loop.
Continues(g, D, start, S, s) ==
    /\ g = [n \in 0..Len(s) |-> g[n]]
    /\ g[0] = start
    /\ \A n \in 1..Len(s) : g[n - 1] \in S => g[n] = D[<<g[n - 1], s[n]>>]

LEMMA LoopIs ==
    ASSUME NEW H, NEW S, NEW start, NEW D, IsStep(D, start, S, H), NEW s \in Seq(H),
           NEW g, Continues(g, D, start, S, s)
    PROVE  g[Len(s)] = After(D, start, s)
  <1> DEFINE N == Len(s)
             T == {k \in Nat : k \in 0..N => g[k] \in S}
  <1>1. N \in Nat /\ \A n \in 1..N : s[n] \in H
      OBVIOUS
  <1>0. /\ g = [n \in 0..N |-> g[n]] /\ g[0] = start
        /\ \A n \in 1..N : g[n - 1] \in S => g[n] = D[<<g[n - 1], s[n]>>]
      BY Zenon DEF Continues
  <1>2. \A x \in S, h \in H : D[<<x, h>>] \in S
      BY DEF IsStep
  <1>3. 0 \in T
      BY <1>0 DEF IsStep
  <1>4. ASSUME NEW k \in T
        PROVE  k + 1 \in T
    <2>1. CASE k + 1 \in 0..N
      <3>1. g[k] \in S /\ k + 1 \in 1..N /\ (k + 1) - 1 = k
          BY <1>1, <2>1
      <3>2. g[k + 1] = D[<<g[k], s[k + 1]>>]
          BY <1>0, <3>1
      <3>3. g[k + 1] \in S
          BY <1>1, <1>2, <3>1, <3>2
      <3> QED  BY <3>3
    <2> QED  BY <2>1
  <1> HIDE DEF T
  <1>5. T = Nat
      BY <1>3, <1>4, Induction DEF T
  <1>6. \A k \in 0..N : g[k] \in S
      BY <1>1, <1>5 DEF T
  <1>7. \A n \in 1..N : g[n] = D[<<g[n - 1], s[n]>>]
    <2>1. \A n \in 1..N : n - 1 \in 0..N
        BY <1>1
    <2> QED  BY <1>0, <1>6, <2>1
  <1>8. IsLoop(g, D, start, s)
    <2>1. \A n \in 0..N : n = 0 \/ n \in 1..N
        BY <1>1
    <2> QED  BY <1>0, <1>7, <2>1 DEF IsLoop
  <1>9. g = Loop(D, start, s)
      BY <1>8, LoopUnique
  <1> QED  BY <1>9, Zenon DEF After

LEMMA MembersOf ==
    ASSUME NEW H
    PROVE  /\ ToSet(<<>>) = {}
           /\ \A s \in Seq(H), h \in H : ToSet(Append(s, h)) = ToSet(s) \cup {h}
           /\ \A s, t \in Seq(H) : ToSet(s \o t) = ToSet(s) \cup ToSet(t)
           /\ \A s \in Seq(H) : ToSet(s) \subseteq H
  <1>1. ToSet(<<>>) = {}
      BY DEF ToSet
  <1>2. ASSUME NEW s \in Seq(H), NEW h \in H
        PROVE  ToSet(Append(s, h)) = ToSet(s) \cup {h}
      BY AppendProperties DEF ToSet
  <1>3. ASSUME NEW s \in Seq(H), NEW t \in Seq(H)
        PROVE  ToSet(s \o t) = ToSet(s) \cup ToSet(t)
    <2> DEFINE N == Len(s)
               M == Len(t)
               u == s \o t
    <2>1. /\ N \in Nat /\ M \in Nat /\ DOMAIN s = 1..N /\ DOMAIN t = 1..M /\ DOMAIN u = 1..(N + M)
          /\ \A i \in 1..N : u[i] = s[i]
          /\ \A i \in 1..M : u[N + i] = t[i]
        BY ConcatProperties
    <2> HIDE DEF u
    <2>2. \A i \in 1..(N + M) : i \in 1..N \/ (i - N \in 1..M /\ i = N + (i - N))
        BY <2>1
    <2>3. (\A i \in 1..N : i \in 1..(N + M)) /\ \A i \in 1..M : N + i \in 1..(N + M)
        BY <2>1
    <2>4. ToSet(u) = ToSet(s) \cup ToSet(t)
      <3>1. ASSUME NEW x \in ToSet(u)
            PROVE  x \in ToSet(s) \cup ToSet(t)
        <4>1. PICK i \in 1..(N + M) : x = u[i]
            BY <2>1 DEF ToSet
        <4>2. CASE i \in 1..N
            BY <2>1, <4>1, <4>2 DEF ToSet
        <4>3. CASE i - N \in 1..M /\ i = N + (i - N)
            BY <2>1, <4>1, <4>3 DEF ToSet
        <4> QED  BY <2>2, <4>2, <4>3
      <3>2. ASSUME NEW x \in ToSet(s)
            PROVE  x \in ToSet(u)
          BY <2>1, <2>3 DEF ToSet
      <3>3. ASSUME NEW x \in ToSet(t)
            PROVE  x \in ToSet(u)
          BY <2>1, <2>3 DEF ToSet
      <3> QED  BY <3>1, <3>2, <3>3
    <2> QED  BY <2>4 DEF u
  <1>4. ASSUME NEW s \in Seq(H)
        PROVE  ToSet(s) \subseteq H
      BY DEF ToSet
  <1> QED  BY <1>1, <1>2, <1>3, <1>4

\* A filter in equations.
LEMMA FilterNext ==
    ASSUME NEW H, NEW W
    PROVE  /\ Filter(<<>>, W) = <<>>
           /\ \A s \in Seq(H), h \in H : Filter(Append(s, h), W) = Keep(Filter(s, W), h, W)
           /\ \A s \in Seq(H) : Filter(s, W) \in Seq(H)
  <1> DEFINE S == Seq(H)
             D == [x \in S \X H |-> Keep(x[1], x[2], W)]
  <1>1. <<>> \in S /\ \A x \in S, h \in H : Keep(x, h, W) \in S
      BY DEF Keep
  <1> HIDE DEF S
  <1>2. D \in [S \X H -> S] /\ \A x \in S, h \in H : D[<<x, h>>] = Keep(x, h, W)
      BY <1>1
  <1> HIDE DEF D
  <1>0. IsStep(D, <<>>, S, H)
      BY <1>1, <1>2 DEF IsStep
  <1>3. ASSUME NEW s \in Seq(H)
        PROVE  Filter(s, W) = After(D, <<>>, s)
    <2> DEFINE N == Len(s)
               IsRun(g) ==
                   g = [n \in 0..N |-> IF n = 0 THEN <<>>
                                       ELSE Keep(g[n - 1], s[n], W)]
               run == CHOOSE g : IsRun(g)
               f == Loop(D, <<>>, s)
    <2>1. N \in Nat /\ \A n \in 1..N : s[n] \in H
        OBVIOUS
    <2>2. IsLoop(f, D, <<>>, s) /\ f \in [0..N -> S]
        BY <1>1, <1>2, LoopExists
    <2> HIDE DEF f
    <2>3. /\ f = [n \in 0..N |-> f[n]] /\ f[0] = <<>>
          /\ \A n \in 1..N : f[n] = D[<<f[n - 1], s[n]>>]
        BY <2>1, <2>2, LoopUnfolds
    <2>4. IsRun(f)
      <3>1. \A n \in 0..N : n = 0 \/ (n \in 1..N /\ n - 1 \in 0..N)
          BY <2>1
      <3>2. \A n \in 1..N : n - 1 \in 0..N /\ n \in 0..N /\ n # 0
          BY <2>1
      <3>3. \A n \in 1..N : f[n] = Keep(f[n - 1], s[n], W)
          BY <1>2, <2>1, <2>2, <2>3, <3>2
      <3> QED  BY <2>3, <3>1, <3>3
    <2>5. IsRun(run)
        BY <2>4, Zenon
    <2>6. Filter(s, W) = run[N]
        BY Zenon DEF Filter
    <2> HIDE DEF run
    <2>7. /\ run = [n \in 0..N |-> run[n]] /\ run[0] = <<>>
          /\ \A n \in 1..N : run[n] = Keep(run[n - 1], s[n], W)
        BY <2>1, <2>5
    <2>8. \A n \in 1..N : run[n - 1] \in S => run[n] = D[<<run[n - 1], s[n]>>]
        BY <1>2, <2>1, <2>7
    <2>9. Continues(run, D, <<>>, S, s)
        BY <2>7, <2>8, Zenon DEF Continues
    <2>10. run[N] = After(D, <<>>, s)
        BY <1>0, <2>9, LoopIs
    <2> QED  BY <2>6, <2>10
  <1>4. /\ After(D, <<>>, <<>>) = <<>>
        /\ \A s \in Seq(H), h \in H :
               After(D, <<>>, Append(s, h)) = D[<<After(D, <<>>, s), h>>]
        /\ \A s \in Seq(H) : After(D, <<>>, s) \in S
      BY <1>1, <1>2, LoopNext
  <1>5. <<>> \in Seq(H) /\ \A s \in Seq(H), h \in H : Append(s, h) \in Seq(H)
      OBVIOUS
  <1>6. Filter(<<>>, W) = <<>> /\ \A s \in Seq(H) : Filter(s, W) \in S
      BY <1>3, <1>4, <1>5
  <1>7. ASSUME NEW s \in Seq(H), NEW h \in H
        PROVE  Filter(Append(s, h), W) = Keep(Filter(s, W), h, W)
    <2>1. After(D, <<>>, s) \in S /\ After(D, <<>>, Append(s, h)) = D[<<After(D, <<>>, s), h>>]
        BY <1>4
    <2>2. Filter(s, W) = After(D, <<>>, s) /\ Filter(Append(s, h), W) = After(D, <<>>, Append(s, h))
        BY <1>3, <1>5
    <2> QED  BY <1>2, <2>1, <2>2
  <1> QED  BY <1>6, <1>7 DEF S

LEMMA FilterMembers ==
    ASSUME NEW H, NEW W, NEW s \in Seq(H)
    PROVE  ToSet(Filter(s, W)) = ToSet(s) \cap W
  <1> DEFINE T == {t \in Seq(H) : ToSet(Filter(t, W)) = ToSet(t) \cap W}
  <1>1. <<>> \in T
      BY FilterNext, MembersOf
  <1>2. ASSUME NEW t \in T, NEW h \in H
        PROVE  Append(t, h) \in T
    <2>1. t \in Seq(H) /\ Append(t, h) \in Seq(H) /\ ToSet(Filter(t, W)) = ToSet(t) \cap W
        OBVIOUS
    <2>2. Filter(t, W) \in Seq(H) /\ Filter(Append(t, h), W) = Keep(Filter(t, W), h, W)
        BY <2>1, FilterNext
    <2>3. /\ ToSet(Append(t, h)) = ToSet(t) \cup {h}
          /\ ToSet(Append(Filter(t, W), h)) = ToSet(Filter(t, W)) \cup {h}
        BY <2>1, <2>2, MembersOf
    <2>4. ToSet(Filter(Append(t, h), W)) = ToSet(Append(t, h)) \cap W
        BY <2>1, <2>2, <2>3 DEF Keep
    <2> QED  BY <2>1, <2>4
  <1> HIDE DEF T
  <1>3. T \in SUBSET Seq(H)
      BY DEF T
  <1>4. T = Seq(H)
      BY <1>1, <1>2, <1>3, SequenceInduction
  <1> QED  BY <1>4 DEF T

LEMMA ConcatNext ==
    ASSUME NEW H, NEW s \in Seq(H), NEW t \in Seq(H), NEW h \in H
    PROVE  s \o Append(t, h) = Append(s \o t, h) /\ s \o t \in Seq(H) /\ s \o <<>> = s
  <1>1. <<h>> \in Seq(H)
      OBVIOUS
  <1>2. Append(t, h) = t \o <<h>> /\ s \o t \in Seq(H)
      BY AppendIsConcat, ConcatProperties
  <1>3. Append(s \o t, h) = (s \o t) \o <<h>>
      BY <1>2, AppendIsConcat
  <1>4. (s \o t) \o <<h>> = s \o (t \o <<h>>)
      BY <1>1, ConcatAssociative
  <1>5. s \o <<>> = s
      BY ConcatEmptySeq
  <1> QED  BY <1>2, <1>3, <1>4, <1>5

LEMMA FilterConcat ==
    ASSUME NEW H, NEW W, NEW s \in Seq(H), NEW t \in Seq(H)
    PROVE  Filter(s \o t, W) = Filter(s, W) \o Filter(t, W)
  <1> DEFINE F(u) == Filter(u, W)
             T == {u \in Seq(H) : F(s \o u) = F(s) \o F(u)}
  <1>1. F(<<>>) = <<>> /\ \A u \in Seq(H) : F(u) \in Seq(H)
      BY FilterNext
  <1>2. \A u \in Seq(H), h \in H : F(Append(u, h)) = Keep(F(u), h, W)
      BY FilterNext
  <1> HIDE DEF F
  <1>3. <<>> \in T
      BY <1>1, ConcatEmptySeq
  <1>4. ASSUME NEW u \in T, NEW h \in H
        PROVE  Append(u, h) \in T
    <2>1. u \in Seq(H) /\ Append(u, h) \in Seq(H) /\ F(s \o u) = F(s) \o F(u)
        OBVIOUS
    <2>2. s \o Append(u, h) = Append(s \o u, h) /\ s \o u \in Seq(H)
        BY <2>1, ConcatNext
    <2>3. F(s \o Append(u, h)) = Keep(F(s) \o F(u), h, W)
        BY <1>2, <2>1, <2>2
    <2>4. F(Append(u, h)) = Keep(F(u), h, W) /\ F(s) \in Seq(H) /\ F(u) \in Seq(H)
        BY <1>1, <1>2, <2>1
    <2>5. F(s) \o Append(F(u), h) = Append(F(s) \o F(u), h)
        BY <2>4, ConcatNext
    <2>6. F(s \o Append(u, h)) = F(s) \o F(Append(u, h))
        BY <2>3, <2>4, <2>5 DEF Keep
    <2> QED  BY <2>1, <2>6
  <1> HIDE DEF T
  <1>5. T \in SUBSET Seq(H)
      BY DEF T
  <1>6. T = Seq(H)
      BY <1>3, <1>4, <1>5, SequenceInduction
  <1> QED  BY <1>6 DEF T, F

\* What is wanted of a filtered sequence is what is wanted of both.
LEMMA FilterTwice ==
    ASSUME NEW H, NEW W, NEW X, NEW Y, NEW s \in Seq(H),
           \A h \in ToSet(s) : h \in Y <=> h \in W /\ h \in X
    PROVE  Filter(Filter(s, W), X) = Filter(s, Y)
  <1> DEFINE Agrees(u) == \A h \in ToSet(u) : h \in Y <=> h \in W /\ h \in X
             T == {u \in Seq(H) : Agrees(u) => Filter(Filter(u, W), X) = Filter(u, Y)}
  <1>1. <<>> \in T
      BY FilterNext
  <1>5. \A u \in Seq(H), h \in H :
            Filter(Append(u, h), W) = Keep(Filter(u, W), h, W) /\ Filter(u, W) \in Seq(H)
      BY FilterNext
  <1>6. \A u \in Seq(H), h \in H :
            Filter(Append(u, h), X) = Keep(Filter(u, X), h, X) /\ Filter(u, X) \in Seq(H)
      BY FilterNext
  <1>7. \A u \in Seq(H), h \in H :
            Filter(Append(u, h), Y) = Keep(Filter(u, Y), h, Y) /\ Filter(u, Y) \in Seq(H)
      BY FilterNext
  <1>2. ASSUME NEW u \in T, NEW h \in H
        PROVE  Append(u, h) \in T
    <2>1. u \in Seq(H) /\ Append(u, h) \in Seq(H)
        OBVIOUS
    <2>2. ASSUME Agrees(Append(u, h))
          PROVE  Filter(Filter(Append(u, h), W), X) = Filter(Append(u, h), Y)
      <3>1. ToSet(Append(u, h)) = ToSet(u) \cup {h}
          BY <2>1, MembersOf
      <3>2. Agrees(u) /\ (h \in Y <=> h \in W /\ h \in X)
          BY <2>2, <3>1
      <3>3. Filter(Filter(u, W), X) = Filter(u, Y)
          BY <3>2
      <3>4. /\ Filter(Append(u, h), W) = Keep(Filter(u, W), h, W)
            /\ Filter(Append(u, h), Y) = Keep(Filter(u, Y), h, Y)
            /\ Filter(u, W) \in Seq(H)
          BY <1>5, <1>7, <2>1
      <3>5. Filter(Append(Filter(u, W), h), X) = Keep(Filter(Filter(u, W), X), h, X)
          BY <1>6, <3>4
      <3> QED  BY <3>2, <3>3, <3>4, <3>5 DEF Keep
    <2> QED  BY <2>1, <2>2
  <1> HIDE DEF T
  <1>3. T \in SUBSET Seq(H)
      BY DEF T
  <1>4. T = Seq(H)
      BY <1>1, <1>2, <1>3, SequenceInduction
  <1> QED  BY <1>4 DEF T

LEMMA FilterSame ==
    ASSUME NEW H, NEW W, NEW X, NEW s \in Seq(H), \A h \in ToSet(s) : h \in X <=> h \in W
    PROVE  Filter(s, W) = Filter(s, X)
  <1> DEFINE Agrees(u) == \A h \in ToSet(u) : h \in X <=> h \in W
             T == {u \in Seq(H) : Agrees(u) => Filter(u, W) = Filter(u, X)}
  <1>1. <<>> \in T
      BY FilterNext
  <1>5. \A u \in Seq(H), h \in H :
            Filter(Append(u, h), W) = Keep(Filter(u, W), h, W) /\ Filter(u, W) \in Seq(H)
      BY FilterNext
  <1>6. \A u \in Seq(H), h \in H :
            Filter(Append(u, h), X) = Keep(Filter(u, X), h, X) /\ Filter(u, X) \in Seq(H)
      BY FilterNext
  <1>2. ASSUME NEW u \in T, NEW h \in H
        PROVE  Append(u, h) \in T
    <2>1. u \in Seq(H) /\ Append(u, h) \in Seq(H)
        OBVIOUS
    <2>2. ASSUME Agrees(Append(u, h))
          PROVE  Filter(Append(u, h), W) = Filter(Append(u, h), X)
      <3>1. ToSet(Append(u, h)) = ToSet(u) \cup {h}
          BY <2>1, MembersOf
      <3>2. Agrees(u) /\ (h \in X <=> h \in W)
          BY <2>2, <3>1
      <3>3. Filter(u, W) = Filter(u, X)
          BY <3>2
      <3>4. /\ Filter(Append(u, h), W) = Keep(Filter(u, W), h, W)
            /\ Filter(Append(u, h), X) = Keep(Filter(u, X), h, X)
          BY <1>5, <1>6, <2>1
      <3> QED  BY <3>2, <3>3, <3>4 DEF Keep
    <2> QED  BY <2>1, <2>2
  <1> HIDE DEF T
  <1>3. T \in SUBSET Seq(H)
      BY DEF T
  <1>4. T = Seq(H)
      BY <1>1, <1>2, <1>3, SequenceInduction
  <1> QED  BY <1>4 DEF T

\* A filter that wants nothing of a sequence leaves nothing, one that wants all leaves all.
LEMMA FilterNone ==
    ASSUME NEW H, NEW W, NEW s \in Seq(H)
    PROVE  (Filter(s, W) = <<>>) <=> (ToSet(s) \cap W = {})
  <1>1. Filter(s, W) \in Seq(H)
      BY FilterNext
  <1>2. \A u \in Seq(H) : u = <<>> <=> ToSet(u) = {}
    <2>1. \A u \in Seq(H) : u # <<>> => 1 \in DOMAIN u
        OBVIOUS
    <2> QED  BY <2>1, MembersOf DEF ToSet
  <1> QED  BY <1>1, <1>2, FilterMembers

-----------------------------------------------------------------------------
(* Headers *)

\* The headers that messages have: those of the samples, and those that the code adds.
AnyName == HeaderName \cup OwnName
AnyValue == HeaderValue \cup {"joined", "chunked", "1", "2", "target"}
AnyHeader == AnyName \X AnyValue
Named(name) == {h \in AnyHeader : h[1] = name}
Others(names) == {h \in AnyHeader : h[1] \notin names}

\* Names in objects, in any case.
GivenName == AnyName \cup DOMAIN Cased

LEMMA LowerIs ==
    /\ \A name \in AnyName : name \in GivenName /\ Lower(name) = name
    /\ \A name \in GivenName : Lower(name) \in AnyName
  BY CaseAssumption DEF Lower, AnyName, GivenName

LEMMA UndefinedIsNoValue == Undefined \notin AnyValue
  BY HeadersAssumption DEF AnyValue, Undefined

LEMMA FindAllFilters ==
    ASSUME NEW s \in Seq(AnyHeader), NEW name
    PROVE  FindAll(s, name) = Filter(s, Named(name)) /\ FindAll(s, name) \in Seq(AnyHeader)
  <1> DEFINE W == {h \in ToSet(s) : h[1] = name}
  <1>1. \A h \in ToSet(s) : h \in Named(name) <=> h \in W
      BY MembersOf DEF Named
  <1> HIDE DEF W
  <1>2. Filter(s, W) = Filter(s, Named(name))
      BY <1>1, FilterSame
  <1>3. Filter(s, Named(name)) \in Seq(AnyHeader)
      BY FilterNext
  <1> QED  BY <1>2, <1>3 DEF FindAll, W

LEMMA WithoutFilters ==
    ASSUME NEW s \in Seq(AnyHeader), NEW names
    PROVE  Without(s, names) = Filter(s, Others(names)) /\ Without(s, names) \in Seq(AnyHeader)
  <1> DEFINE W == {h \in ToSet(s) : h[1] \notin names}
  <1>1. \A h \in ToSet(s) : h \in Others(names) <=> h \in W
      BY MembersOf DEF Others
  <1> HIDE DEF W
  <1>2. Filter(s, W) = Filter(s, Others(names))
      BY <1>1, FilterSame
  <1>3. Filter(s, Others(names)) \in Seq(AnyHeader)
      BY FilterNext
  <1> QED  BY <1>2, <1>3 DEF Without, W

LEMMA EmptyMessage ==
    ASSUME NEW name, NEW names
    PROVE  <<>> \in Seq(AnyHeader) /\ FindAll(<<>>, name) = <<>> /\ Without(<<>>, names) = <<>>
  <1>1. <<>> \in Seq(AnyHeader)
      OBVIOUS
  <1>2. Filter(<<>>, Named(name)) = <<>> /\ Filter(<<>>, Others(names)) = <<>>
      BY FilterNext
  <1> QED  BY <1>1, <1>2, FindAllFilters, WithoutFilters

\* Which headers are found, or left, is a matter of each header.
LEMMA FoundNext ==
    ASSUME NEW s \in Seq(AnyHeader), NEW h \in AnyHeader, NEW name
    PROVE  FindAll(Append(s, h), name) =
               IF h[1] = name THEN Append(FindAll(s, name), h) ELSE FindAll(s, name)
  <1>1. Append(s, h) \in Seq(AnyHeader) /\ (h \in Named(name) <=> h[1] = name)
      BY DEF Named
  <1>2. Filter(Append(s, h), Named(name)) = Keep(Filter(s, Named(name)), h, Named(name))
      BY FilterNext
  <1> QED  BY <1>1, <1>2, FindAllFilters DEF Keep

LEMMA LeftNext ==
    ASSUME NEW s \in Seq(AnyHeader), NEW h \in AnyHeader, NEW names
    PROVE  Without(Append(s, h), names) =
               IF h[1] \in names THEN Without(s, names) ELSE Append(Without(s, names), h)
  <1>1. Append(s, h) \in Seq(AnyHeader) /\ (h \in Others(names) <=> h[1] \notin names)
      BY DEF Others
  <1>2. Filter(Append(s, h), Others(names)) = Keep(Filter(s, Others(names)), h, Others(names))
      BY FilterNext
  <1> QED  BY <1>1, <1>2, WithoutFilters DEF Keep

LEMMA FoundConcat ==
    ASSUME NEW s \in Seq(AnyHeader), NEW t \in Seq(AnyHeader), NEW name
    PROVE  FindAll(s \o t, name) = FindAll(s, name) \o FindAll(t, name)
  <1>1. s \o t \in Seq(AnyHeader)
      BY ConcatProperties
  <1>2. Filter(s \o t, Named(name)) = Filter(s, Named(name)) \o Filter(t, Named(name))
      BY FilterConcat
  <1> QED  BY <1>1, <1>2, FindAllFilters

LEMMA LeftConcat ==
    ASSUME NEW s \in Seq(AnyHeader), NEW t \in Seq(AnyHeader), NEW names
    PROVE  Without(s \o t, names) = Without(s, names) \o Without(t, names)
  <1>1. s \o t \in Seq(AnyHeader)
      BY ConcatProperties
  <1>2. Filter(s \o t, Others(names)) = Filter(s, Others(names)) \o Filter(t, Others(names))
      BY FilterConcat
  <1> QED  BY <1>1, <1>2, WithoutFilters

LEMMA OneHeader ==
    ASSUME NEW h \in AnyHeader, NEW name, NEW names
    PROVE  /\ <<h>> \in Seq(AnyHeader)
           /\ FindAll(<<h>>, name) = IF h[1] = name THEN <<h>> ELSE <<>>
           /\ Without(<<h>>, names) = IF h[1] \in names THEN <<>> ELSE <<h>>
  <1> DEFINE e == <<>>
  <1>1. <<h>> = Append(e, h) /\ e \in Seq(AnyHeader) /\ <<h>> \in Seq(AnyHeader)
      OBVIOUS
  <1>2. FindAll(e, name) = e /\ Without(e, names) = e
      BY EmptyMessage
  <1> HIDE DEF e
  <1>3. FindAll(Append(e, h), name) = IF h[1] = name THEN Append(e, h) ELSE e
      BY <1>1, <1>2, FoundNext
  <1>4. Without(Append(e, h), names) = IF h[1] \in names THEN e ELSE Append(e, h)
      BY <1>1, <1>2, LeftNext
  <1> QED  BY <1>1, <1>3, <1>4, Zenon DEF e

LEMMA FoundMembers ==
    ASSUME NEW s \in Seq(AnyHeader), NEW name
    PROVE  /\ ToSet(FindAll(s, name)) = {h \in ToSet(s) : h[1] = name}
           /\ Has(s, name) <=> \E h \in ToSet(s) : h[1] = name
  <1>1. ToSet(FindAll(s, name)) = ToSet(s) \cap Named(name)
      BY FindAllFilters, FilterMembers
  <1>2. (FindAll(s, name) = <<>>) <=> (ToSet(s) \cap Named(name) = {})
      BY FindAllFilters, FilterNone
  <1>3. ToSet(s) \cap Named(name) = {h \in ToSet(s) : h[1] = name}
      BY MembersOf DEF Named
  <1> QED  BY <1>1, <1>2, <1>3 DEF Has

LEMMA LeftMembers ==
    ASSUME NEW s \in Seq(AnyHeader), NEW names
    PROVE  ToSet(Without(s, names)) = {h \in ToSet(s) : h[1] \notin names}
  <1>1. ToSet(Without(s, names)) = ToSet(s) \cap Others(names)
      BY WithoutFilters, FilterMembers
  <1> QED  BY <1>1, MembersOf DEF Others

\* What is found among those left is what is found, unless it was left out.
LEMMA FoundInLeft ==
    ASSUME NEW s \in Seq(AnyHeader), NEW names, NEW name
    PROVE  FindAll(Without(s, names), name) = IF name \in names THEN <<>> ELSE FindAll(s, name)
  <1> DEFINE u == Filter(s, Others(names))
  <1>1. u \in Seq(AnyHeader) /\ Without(s, names) = u /\ ToSet(u) = ToSet(s) \cap Others(names)
      BY WithoutFilters, FilterMembers
  <1>2. CASE name \in names
    <2>1. ToSet(u) \cap Named(name) = {}
        BY <1>1, <1>2 DEF Named, Others
    <2> HIDE DEF u
    <2>2. Filter(u, Named(name)) = <<>>
        BY <1>1, <2>1, FilterNone
    <2> QED  BY <1>1, <1>2, <2>2, FindAllFilters
  <1>3. CASE name \notin names
    <2>1. \A h \in ToSet(s) : h \in Named(name) <=> h \in Others(names) /\ h \in Named(name)
        BY <1>3, MembersOf DEF Named, Others
    <2>2. Filter(u, Named(name)) = Filter(s, Named(name))
        BY <2>1, FilterTwice
    <2> HIDE DEF u
    <2> QED  BY <1>1, <1>3, <2>2, FindAllFilters
  <1> QED  BY <1>2, <1>3

LEMMA LeftTwice ==
    ASSUME NEW s \in Seq(AnyHeader), NEW more, NEW names \in SUBSET more
    PROVE  Without(Without(s, names), more) = Without(s, more)
  <1> DEFINE W == Others(names)
             X == Others(more)
             u == Filter(s, W)
  <1>1. u \in Seq(AnyHeader) /\ Without(s, names) = u
      BY WithoutFilters
  <1>2. \A h \in ToSet(s) : h \in X <=> h \in W /\ h \in X
      BY DEF Others
  <1> HIDE DEF W, X
  <1>3. Filter(u, X) = Filter(s, X)
      BY <1>2, FilterTwice
  <1> HIDE DEF u
  <1>4. Without(u, more) = Filter(u, X) /\ Without(s, more) = Filter(s, X)
      BY <1>1, WithoutFilters DEF X
  <1> QED  BY <1>1, <1>3, <1>4

\* A value is that of a header, or undefined.
LEMMA ValueOf ==
    ASSUME NEW s \in Seq(AnyHeader), NEW name
    PROVE  /\ Has(s, name) => <<name, Value(s, name)>> \in ToSet(s) /\ Value(s, name) \in AnyValue
           /\ (Value(s, name) # Undefined) <=> Has(s, name)
  <1> DEFINE f == FindAll(s, name)
  <1>1. f \in Seq(AnyHeader) /\ ToSet(f) = {h \in ToSet(s) : h[1] = name}
      BY FindAllFilters, FoundMembers
  <1>2. ASSUME Has(s, name)
        PROVE  <<name, Value(s, name)>> \in ToSet(s) /\ Value(s, name) \in AnyValue
    <2>1. f # <<>> /\ Value(s, name) = f[1][2]
        BY <1>2 DEF Has, Value
    <2> HIDE DEF f
    <2>2. f[1] \in AnyHeader /\ f[1] \in ToSet(f)
        BY <1>1, <2>1 DEF ToSet
    <2>3. f[1] \in ToSet(s) /\ f[1][1] = name /\ f[1] = <<f[1][1], f[1][2]>> /\ f[1][2] \in AnyValue
        BY <1>1, <2>2 DEF AnyHeader
    <2> QED  BY <2>1, <2>3
  <1>3. ~Has(s, name) => Value(s, name) = Undefined
      BY DEF Value
  <1> QED  BY <1>2, <1>3, UndefinedIsNoValue

LEMMA SamplesAreMessages == RawSample \subseteq Seq(AnyHeader)
  <1>1. ASSUME NEW n \in 0..MaxHeaders, NEW raw \in [1..n -> HeaderName \X HeaderValue]
        PROVE  raw \in Seq(AnyHeader)
    <2>1. \A i \in 1..n : raw[i] \in AnyHeader
        BY DEF AnyHeader, AnyName, AnyValue
    <2>2. n \in Nat /\ raw = [i \in 1..n |-> raw[i]]
        BY HeadersAssumption
    <2> QED  BY <2>1, <2>2, IsASeq
  <1> QED  BY <1>1 DEF RawSample

-----------------------------------------------------------------------------
(* Between HTTP/2 and HTTP/1 *)

\* From HTTP/1 to HTTP/2.
LEMMA UpgradeKept == UpgradeKeeps
  <1> SUFFICES ASSUME NEW raw \in RawSample, NEW i \in DOMAIN raw
               PROVE  Contains(ForClient(raw, {}, TRUE), raw[i])
                          <=> raw[i][1] \notin IllegalInH2 \cup {":status"}
      BY DEF UpgradeKeeps
  <1> DEFINE u == Without(raw, IllegalInH2)
             W == {h \in ToSet(u) : h[1] # ":status" /\ h[2] \notin {}}
             v == Filter(u, W)
  <1>1. raw \in Seq(AnyHeader) /\ raw[i] \in ToSet(raw)
      BY SamplesAreMessages DEF ToSet
  <1>2. u \in Seq(AnyHeader) /\ ToSet(u) = {h \in ToSet(raw) : h[1] \notin IllegalInH2}
      BY <1>1, WithoutFilters, LeftMembers
  <1>3. ForClient(raw, {}, TRUE) = v
      BY DEF ForClient, H1ToH2
  <1> HIDE DEF u
  <1>4. v \in Seq(AnyHeader) /\ ToSet(v) = ToSet(u) \cap W
      BY <1>2, FilterNext, FilterMembers
  <1>5. raw[i] \in ToSet(v) <=> raw[i][1] \notin IllegalInH2 \cup {":status"}
      BY <1>1, <1>2, <1>4
  <1> HIDE DEF v
  <1>6. Contains(v, raw[i]) <=> raw[i] \in ToSet(v)
      BY <1>4 DEF Contains, ToSet
  <1> QED  BY <1>3, <1>5, <1>6

\* Framing touches nothing but itself, and is there.
LEMMA FramingKeeps ==
    ASSUME NEW r \in Seq(AnyHeader), NEW method
    PROVE  /\ FrameMaybe(r, method) \in Seq(AnyHeader)
           /\ \A names : "transfer-encoding" \in names =>
                  Without(FrameMaybe(r, method), names) = Without(r, names)
           /\ \A name : name # "transfer-encoding" =>
                  FindAll(FrameMaybe(r, method), name) = FindAll(r, name)
           /\ method = "POST" => \/ Has(FrameMaybe(r, method), "content-length")
                                 \/ Has(FrameMaybe(r, method), "transfer-encoding")
  <1> DEFINE h == <<"transfer-encoding", "chunked">>
  <1>1. h \in AnyHeader /\ h[1] = "transfer-encoding"
      BY DEF AnyHeader, AnyName, OwnName, AnyValue
  <1>2. FrameMaybe(r, method) \in {r, Append(r, h)}
      BY DEF FrameMaybe
  <1>3. FrameMaybe(r, method) = r /\ method = "POST" =>
            Has(r, "content-length") \/ Has(r, "transfer-encoding")
    <2>1. SUFFICES ASSUME FrameMaybe(r, method) = r, method = "POST", ~Has(r, "content-length")
                   PROVE  Has(r, "transfer-encoding")
        OBVIOUS
    <2>2. Append(r, h) # r
        BY <1>1, AppendProperties
    <2>3. Value(r, "transfer-encoding") = "chunked"
        BY <2>1, <2>2 DEF FrameMaybe
    <2> QED  BY <2>3, ValueOf DEF Undefined
  <1> HIDE DEF h
  <1>4. CASE FrameMaybe(r, method) = r
      BY <1>3, <1>4
  <1>5. CASE FrameMaybe(r, method) = Append(r, h)
    <2>1. Append(r, h) \in Seq(AnyHeader)
        BY <1>1
    <2>2. \A names : "transfer-encoding" \in names => Without(Append(r, h), names) = Without(r, names)
        BY <1>1, LeftNext
    <2>3. \A name : FindAll(Append(r, h), name) =
                        IF name = "transfer-encoding" THEN Append(FindAll(r, name), h)
                                                      ELSE FindAll(r, name)
        BY <1>1, FoundNext
    <2>4. Has(Append(r, h), "transfer-encoding")
      <3>1. h \in ToSet(Append(r, h))
          BY <1>1, MembersOf
      <3> QED  BY <1>1, <2>1, <3>1, FoundMembers
    <2> QED  BY <1>5, <2>1, <2>2, <2>3, <2>4
  <1> QED  BY <1>2, <1>4, <1>5

\* Joined cookies touch nothing but cookies, and are one header.
LEMMA JoiningKeeps ==
    ASSUME NEW r \in Seq(AnyHeader)
    PROVE  /\ JoinCookies(r) \in Seq(AnyHeader)
           /\ \A names : "cookie" \in names => Without(JoinCookies(r), names) = Without(r, names)
           /\ \A name : name # "cookie" => FindAll(JoinCookies(r), name) = FindAll(r, name)
           /\ Has(r, "cookie") => Len(FindAll(JoinCookies(r), "cookie")) = 1
  <1> DEFINE h == <<"cookie", "joined">>
             w == Without(r, {"cookie"})
  <1>1. h \in AnyHeader /\ h[1] = "cookie"
      BY DEF AnyHeader, AnyName, OwnName, AnyValue
  <1>2. JoinCookies(r) = IF Len(FindAll(r, "cookie")) > 1 THEN Append(w, h) ELSE r
      BY DEF JoinCookies
  <1>3. /\ w \in Seq(AnyHeader)
        /\ \A names : "cookie" \in names => Without(w, names) = Without(r, names)
        /\ \A name : FindAll(w, name) = IF name = "cookie" THEN <<>> ELSE FindAll(r, name)
    <2>1. ASSUME NEW names, "cookie" \in names
          PROVE  Without(w, names) = Without(r, names)
      <3>1. {"cookie"} \in SUBSET names
          BY <2>1
      <3> QED  BY <3>1, LeftTwice
    <2>2. \A name : FindAll(w, name) = IF name \in {"cookie"} THEN <<>> ELSE FindAll(r, name)
        BY FoundInLeft, Zenon
    <2>3. w \in Seq(AnyHeader)
        BY WithoutFilters, Zenon
    <2> QED  BY <2>1, <2>2, <2>3
  <1> HIDE DEF h, w
  <1>4. CASE Len(FindAll(r, "cookie")) > 1
    <2>1. Append(w, h) \in Seq(AnyHeader)
        BY <1>1, <1>3
    <2>2. \A names : "cookie" \in names => Without(Append(w, h), names) = Without(r, names)
        BY <1>1, <1>3, LeftNext
    <2>3. \A name : name # "cookie" => FindAll(Append(w, h), name) = FindAll(r, name)
        BY <1>1, <1>3, FoundNext
    <2>4. /\ FindAll(Append(w, h), "cookie") = Append(FindAll(w, "cookie"), h)
          /\ FindAll(w, "cookie") = <<>>
        BY <1>1, <1>3, FoundNext
    <2>5. Len(FindAll(Append(w, h), "cookie")) = 1
      <3>1. <<>> \in Seq(AnyHeader) /\ Len(<<>>) = 0
          OBVIOUS
      <3>2. Len(Append(<<>>, h)) = 1
          BY <1>1, <3>1, AppendProperties
      <3> QED  BY <2>4, <3>2
    <2> QED  BY <1>2, <1>4, <2>1, <2>2, <2>3, <2>5
  <1>5. CASE ~(Len(FindAll(r, "cookie")) > 1)
    <2>1. Has(r, "cookie") => Len(FindAll(r, "cookie")) = 1
      <3> DEFINE f == FindAll(r, "cookie")
      <3>1. f \in Seq(AnyHeader) /\ ~(Len(f) > 1)
          BY <1>5, FindAllFilters
      <3> HIDE DEF f
      <3> DEFINE n == Len(f)
      <3>2. n \in Nat /\ ~(n > 1) /\ (f # <<>> => n # 0)
          BY <3>1, EmptySeq
      <3> HIDE DEF n
      <3>3. n = 0 \/ n = 1
          BY <3>2
      <3> QED  BY <3>2, <3>3 DEF Has, f, n
    <2> QED  BY <1>2, <1>5, <2>1
  <1> QED  BY <1>4, <1>5

\* A host that is added touches no other header.
LEMMA HostKeeps ==
    ASSUME NEW r \in Seq(AnyHeader), NEW h2 \in Seq(AnyHeader)
    PROVE  /\ HostFirst(r, h2) \in Seq(AnyHeader)
           /\ \A names : "host" \in names => Without(HostFirst(r, h2), names) = Without(r, names)
           /\ \A name : name # "host" => FindAll(HostFirst(r, h2), name) = FindAll(r, name)
           /\ Has(r, "host") => HostFirst(r, h2) = r
           /\ ~Has(r, "host") /\ Has(h2, ":authority") =>
                  FindAll(HostFirst(r, h2), "host") = <<<<"host", Value(h2, ":authority")>>>>
  <1> DEFINE h == <<"host", Value(h2, ":authority")>>
             x == <<h>>
  <1>1. HostFirst(r, h2) = IF ~Has(r, "host") /\ Has(h2, ":authority") THEN x \o r ELSE r
      BY DEF HostFirst
  <1>2. CASE ~Has(r, "host") /\ Has(h2, ":authority")
    <2>1. h \in AnyHeader /\ h[1] = "host"
        BY <1>2, ValueOf DEF AnyHeader, AnyName, OwnName
    <2> HIDE DEF h
    <2>2. x \in Seq(AnyHeader)
        BY <2>1, OneHeader
    <2>3. \A name : FindAll(x, name) = IF name = "host" THEN x ELSE <<>>
        BY <2>1, OneHeader
    <2>4. \A names : "host" \in names => Without(x, names) = <<>>
        BY <2>1, OneHeader
    <2> HIDE DEF x
    <2>5. FindAll(r, "host") = <<>>
        BY <1>2 DEF Has
    <2>6. \A name, names : FindAll(r, name) \in Seq(AnyHeader) /\ Without(r, names) \in Seq(AnyHeader)
        BY FindAllFilters, WithoutFilters
    <2>7. x \o r \in Seq(AnyHeader) /\ x \o <<>> = x
        BY <2>2, ConcatProperties, ConcatEmptySeq
    <2>8. \A t \in Seq(AnyHeader) : <<>> \o t = t
        BY ConcatEmptySeq
    <2>9. ASSUME NEW names, "host" \in names
          PROVE  Without(x \o r, names) = Without(r, names)
      <3>1. Without(x \o r, names) = Without(x, names) \o Without(r, names)
          BY <2>2, LeftConcat
      <3> QED  BY <2>4, <2>6, <2>8, <2>9, <3>1
    <2>10. \A name : FindAll(x \o r, name) = FindAll(x, name) \o FindAll(r, name)
        BY <2>2, FoundConcat
    <2>11. /\ FindAll(x \o r, "host") = x
           /\ \A name : name # "host" => FindAll(x \o r, name) = FindAll(r, name)
        BY <2>3, <2>5, <2>6, <2>7, <2>8, <2>10
    <2> QED  BY <1>1, <1>2, <2>7, <2>9, <2>11 DEF x, h
  <1>3. CASE ~(~Has(r, "host") /\ Has(h2, ":authority"))
      BY <1>1, <1>3
  <1> QED  BY <1>2, <1>3

\* From HTTP/2 to HTTP/1, all steps together.
LEMMA DowngradeKept == DowngradeKeeps
  <1> SUFFICES ASSUME NEW raw \in RawSample, NEW method \in Methods
               PROVE  LET h1 == ForUpstream(raw, method, TRUE, FALSE)
                          own == Pseudo \cup {"host", "cookie", "transfer-encoding"}
                      IN /\ Without(h1, own) = Without(raw, own)
                         /\ \A name \in Pseudo : ~Has(h1, name)
                         /\ Has(raw, ":authority") /\ ~Has(raw, "host") =>
                                FindAll(h1, "host") = <<<<"host", Value(raw, ":authority")>>>>
                         /\ Has(raw, "host") => FindAll(h1, "host") = FindAll(raw, "host")
                         /\ Has(raw, "cookie") => Len(FindAll(h1, "cookie")) = 1
                         /\ method = "POST" =>
                                Has(h1, "content-length") \/ Has(h1, "transfer-encoding")
      BY Zenon DEF DowngradeKeeps
  <1> DEFINE own == Pseudo \cup {"host", "cookie", "transfer-encoding"}
             a == Without(raw, Pseudo)
             b == HostFirst(a, raw)
             c == JoinCookies(b)
             d == FrameMaybe(c, method)
  <1>1. ForUpstream(raw, method, TRUE, FALSE) = d
      BY DEF ForUpstream, H2ToH1
  <1>2. raw \in Seq(AnyHeader) /\ a \in Seq(AnyHeader)
      BY SamplesAreMessages, WithoutFilters
  <1>3. /\ Without(a, own) = Without(raw, own)
        /\ \A name : FindAll(a, name) = IF name \in Pseudo THEN <<>> ELSE FindAll(raw, name)
    <2>1. Pseudo \in SUBSET own
        OBVIOUS
    <2>2. Without(a, own) = Without(raw, own)
        BY <1>2, <2>1, LeftTwice
    <2>3. \A name : FindAll(a, name) = IF name \in Pseudo THEN <<>> ELSE FindAll(raw, name)
        BY <1>2, FoundInLeft, Zenon
    <2> QED  BY <2>2, <2>3
  <1>4. "host" \in own /\ "cookie" \in own /\ "transfer-encoding" \in own
      OBVIOUS
  <1>5. /\ "host" \notin Pseudo /\ "cookie" \notin Pseudo /\ "transfer-encoding" \notin Pseudo
        /\ "host" # "cookie" /\ "host" # "transfer-encoding" /\ "cookie" # "transfer-encoding"
      BY DEF Pseudo
  <1> HIDE DEF own, a
  <1>6. /\ b \in Seq(AnyHeader) /\ Without(b, own) = Without(a, own)
        /\ \A name : name # "host" => FindAll(b, name) = FindAll(a, name)
        /\ Has(a, "host") => b = a
        /\ ~Has(a, "host") /\ Has(raw, ":authority") =>
               FindAll(b, "host") = <<<<"host", Value(raw, ":authority")>>>>
      BY <1>2, <1>4, HostKeeps
  <1> HIDE DEF b
  <1>7. /\ c \in Seq(AnyHeader) /\ Without(c, own) = Without(b, own)
        /\ \A name : name # "cookie" => FindAll(c, name) = FindAll(b, name)
        /\ Has(b, "cookie") => Len(FindAll(c, "cookie")) = 1
      BY <1>4, <1>6, JoiningKeeps
  <1> HIDE DEF c
  <1>8. /\ Without(d, own) = Without(c, own)
        /\ \A name : name # "transfer-encoding" => FindAll(d, name) = FindAll(c, name)
        /\ method = "POST" => Has(d, "content-length") \/ Has(d, "transfer-encoding")
      BY <1>4, <1>7, FramingKeeps
  <1> HIDE DEF d
  <1>9. \A name \in Pseudo : ~Has(d, name)
      BY <1>3, <1>5, <1>6, <1>7, <1>8 DEF Has
  <1>10. Has(raw, "cookie") => Len(FindAll(d, "cookie")) = 1
      BY <1>3, <1>5, <1>6, <1>7, <1>8 DEF Has
  <1>11. Has(a, "host") <=> Has(raw, "host")
      BY <1>3, <1>5 DEF Has
  <1>12. Has(raw, "host") => FindAll(d, "host") = FindAll(raw, "host")
      BY <1>3, <1>5, <1>6, <1>7, <1>8, <1>11
  <1>13. Has(raw, ":authority") /\ ~Has(raw, "host") =>
             FindAll(d, "host") = <<<<"host", Value(raw, ":authority")>>>>
      BY <1>5, <1>6, <1>7, <1>8, <1>11
  <1> QED  BY <1>1, <1>3, <1>6, <1>7, <1>8, <1>9, <1>10, <1>12, <1>13 DEF own

-----------------------------------------------------------------------------
(* Updates *)

\* What the loop of a removal has come to after some headers.
Removing(s, name) ==
    After([x \in [kept : Seq(AnyHeader), moved : BOOLEAN] \X AnyHeader |->
               RemoveOrKeep(x[1], x[2], name)],
          [kept |-> <<>>, moved |-> FALSE], s)

\* A removal in equations, and that its loop is what removes.
LEMMA RemovingNext ==
    ASSUME NEW name
    PROVE  /\ Removing(<<>>, name) = [kept |-> <<>>, moved |-> FALSE]
           /\ \A s \in Seq(AnyHeader), h \in AnyHeader :
                  Removing(Append(s, h), name) = RemoveOrKeep(Removing(s, name), h, name)
           /\ \A s \in Seq(AnyHeader) :
                  Removing(s, name) \in [kept : Seq(AnyHeader), moved : BOOLEAN]
           /\ \A s \in Seq(AnyHeader) : RemoveName(s, name) = Removing(s, name).kept
  <1> DEFINE S == [kept : Seq(AnyHeader), moved : BOOLEAN]
             start == [kept |-> <<>>, moved |-> FALSE]
             D == [x \in S \X AnyHeader |-> RemoveOrKeep(x[1], x[2], name)]
  <1>1. start \in S /\ \A x \in S, h \in AnyHeader : RemoveOrKeep(x, h, name) \in S
      BY DEF RemoveOrKeep
  <1>2. \A s : Removing(s, name) = After(D, start, s)
      BY Zenon DEF Removing
  <1> HIDE DEF S, start
  <1>3. /\ D \in [S \X AnyHeader -> S]
        /\ \A x \in S, h \in AnyHeader : D[<<x, h>>] = RemoveOrKeep(x, h, name)
      BY <1>1
  <1> HIDE DEF D
  <1>4. IsStep(D, start, S, AnyHeader)
      BY <1>1, <1>3 DEF IsStep
  <1>5. ASSUME NEW s \in Seq(AnyHeader)
        PROVE  RemoveName(s, name) = After(D, start, s).kept
    <2> DEFINE N == Len(s)
               IsRun(g) ==
                   g = [n \in 0..N |-> IF n = 0 THEN [kept |-> <<>>, moved |-> FALSE]
                                       ELSE RemoveOrKeep(g[n - 1], s[n], name)]
               run == CHOOSE g : IsRun(g)
               f == Loop(D, start, s)
    <2>1. N \in Nat /\ \A n \in 1..N : s[n] \in AnyHeader
        OBVIOUS
    <2>2. IsLoop(f, D, start, s) /\ f \in [0..N -> S]
        BY <1>1, <1>3, LoopExists
    <2> HIDE DEF f
    <2>3. /\ f = [n \in 0..N |-> f[n]] /\ f[0] = start
          /\ \A n \in 1..N : f[n] = D[<<f[n - 1], s[n]>>]
        BY <2>1, <2>2, LoopUnfolds
    <2>4. IsRun(f)
      <3>1. \A n \in 0..N : n = 0 \/ (n \in 1..N /\ n - 1 \in 0..N)
          BY <2>1
      <3>2. \A n \in 1..N : n - 1 \in 0..N /\ n \in 0..N /\ n # 0
          BY <2>1
      <3>3. \A n \in 1..N : f[n] = RemoveOrKeep(f[n - 1], s[n], name)
          BY <1>3, <2>1, <2>2, <2>3, <3>2
      <3> QED  BY <2>3, <3>1, <3>3 DEF start
    <2>5. IsRun(run)
        BY <2>4, Zenon
    <2>6. RemoveName(s, name) = run[N].kept
        BY Zenon DEF RemoveName
    <2> HIDE DEF run
    <2>7. /\ run = [n \in 0..N |-> run[n]] /\ run[0] = start
          /\ \A n \in 1..N : run[n] = RemoveOrKeep(run[n - 1], s[n], name)
        BY <2>1, <2>5 DEF start
    <2>8. \A n \in 1..N : run[n - 1] \in S => run[n] = D[<<run[n - 1], s[n]>>]
        BY <1>3, <2>1, <2>7
    <2>9. Continues(run, D, start, S, s)
        BY <2>7, <2>8, Zenon DEF Continues
    <2>10. run[N] = After(D, start, s)
        BY <1>4, <2>9, LoopIs
    <2> QED  BY <2>6, <2>10
  <1>6. /\ After(D, start, <<>>) = start
        /\ \A s \in Seq(AnyHeader), h \in AnyHeader :
               After(D, start, Append(s, h)) = D[<<After(D, start, s), h>>]
        /\ \A s \in Seq(AnyHeader) : After(D, start, s) \in S
      BY <1>1, <1>3, LoopNext
  <1>7. ASSUME NEW s \in Seq(AnyHeader), NEW h \in AnyHeader
        PROVE  Removing(Append(s, h), name) = RemoveOrKeep(Removing(s, name), h, name)
    <2>1. After(D, start, s) \in S /\ After(D, start, Append(s, h)) = D[<<After(D, start, s), h>>]
        BY <1>6
    <2> QED  BY <1>2, <1>3, <2>1
  <1> QED  BY <1>2, <1>5, <1>6, <1>7, Zenon DEF S, start

\* An entry of an object: a name and its values.
Entry == GivenName \X Seq(AnyValue)

\* An entry of an object that is made of headers.
PlainEntry == AnyName \X Seq(AnyValue)

LEMMA PlainIsEntry ==
    ASSUME NEW o \in Seq(PlainEntry)
    PROVE  o \in Seq(Entry)
  <1>1. PlainEntry \subseteq Entry
      BY LowerIs DEF PlainEntry, Entry
  <1>2. Len(o) \in Nat /\ o = [i \in 1..Len(o) |-> o[i]] /\ \A i \in 1..Len(o) : o[i] \in PlainEntry
      OBVIOUS
  <1>3. \A i \in 1..Len(o) : o[i] \in Entry
      BY <1>1, <1>2
  <1> QED  BY <1>2, <1>3, IsASeq

\* Pushing an entry adds a header for each value.
LEMMA PushAllMembers ==
    ASSUME NEW r \in Seq(AnyHeader), NEW e \in Entry
    PROVE  /\ PushAll(r, e) \in Seq(AnyHeader)
           /\ ToSet(PushAll(r, e)) = ToSet(r) \cup {<<Lower(e[1]), e[2][j]>> : j \in DOMAIN e[2]}
  <1> DEFINE t == [j \in DOMAIN e[2] |-> <<Lower(e[1]), e[2][j]>>]
  <1>1. Lower(e[1]) \in AnyName /\ e[2] \in Seq(AnyValue)
      BY LowerIs DEF Entry
  <1>2. t \in Seq(AnyHeader)
    <2>1. \A j \in 1..Len(e[2]) : <<Lower(e[1]), e[2][j]>> \in AnyHeader
        BY <1>1 DEF AnyHeader
    <2>2. DOMAIN e[2] = 1..Len(e[2]) /\ Len(e[2]) \in Nat
        BY <1>1
    <2> QED  BY <2>1, <2>2, IsASeq
  <1>3. ToSet(t) = {<<Lower(e[1]), e[2][j]>> : j \in DOMAIN e[2]}
      BY DEF ToSet
  <1>4. PushAll(r, e) = r \o t
      BY DEF PushAll
  <1> HIDE DEF t
  <1>5. r \o t \in Seq(AnyHeader) /\ ToSet(r \o t) = ToSet(r) \cup ToSet(t)
      BY <1>2, ConcatProperties, MembersOf
  <1> QED  BY <1>3, <1>4, <1>5

\* The headers that some entries have come to.
Pushing(s) ==
    After([x \in Seq(AnyHeader) \X Entry |-> PushAll(x[1], x[2])], <<>>, s)

\* The same of making headers of objects.
LEMMA PushingNext ==
    /\ Pushing(<<>>) = <<>>
    /\ \A s \in Seq(Entry), h \in Entry :
           Pushing(Append(s, h)) = PushAll(Pushing(s), h)
    /\ \A s \in Seq(Entry) : Pushing(s) \in Seq(AnyHeader)
    /\ \A s \in Seq(Entry) : ToRaw(s) = Pushing(s)
  <1> DEFINE S == Seq(AnyHeader)
             start == <<>>
             D == [x \in S \X Entry |-> PushAll(x[1], x[2])]
  <1>1. start \in S /\ \A x \in S, h \in Entry : PushAll(x, h) \in S
      BY PushAllMembers
  <1>2. \A s : Pushing(s) = After(D, start, s)
      BY Zenon DEF Pushing
  <1> HIDE DEF S, start
  <1>3. /\ D \in [S \X Entry -> S]
        /\ \A x \in S, h \in Entry : D[<<x, h>>] = PushAll(x, h)
      BY <1>1
  <1> HIDE DEF D
  <1>4. IsStep(D, start, S, Entry)
      BY <1>1, <1>3 DEF IsStep
  <1>5. ASSUME NEW s \in Seq(Entry)
        PROVE  ToRaw(s) = After(D, start, s)
    <2> DEFINE N == Len(s)
               IsRun(g) ==
                   g = [n \in 0..N |-> IF n = 0 THEN <<>>
                                       ELSE PushAll(g[n - 1], s[n])]
               run == CHOOSE g : IsRun(g)
               f == Loop(D, start, s)
    <2>1. N \in Nat /\ \A n \in 1..N : s[n] \in Entry
        OBVIOUS
    <2>2. IsLoop(f, D, start, s) /\ f \in [0..N -> S]
        BY <1>1, <1>3, LoopExists
    <2> HIDE DEF f
    <2>3. /\ f = [n \in 0..N |-> f[n]] /\ f[0] = start
          /\ \A n \in 1..N : f[n] = D[<<f[n - 1], s[n]>>]
        BY <2>1, <2>2, LoopUnfolds
    <2>4. IsRun(f)
      <3>1. \A n \in 0..N : n = 0 \/ (n \in 1..N /\ n - 1 \in 0..N)
          BY <2>1
      <3>2. \A n \in 1..N : n - 1 \in 0..N /\ n \in 0..N /\ n # 0
          BY <2>1
      <3>3. \A n \in 1..N : f[n] = PushAll(f[n - 1], s[n])
          BY <1>3, <2>1, <2>2, <2>3, <3>2
      <3> QED  BY <2>3, <3>1, <3>3 DEF start
    <2>5. IsRun(run)
        BY <2>4, Zenon
    <2>6. ToRaw(s) = run[N]
        BY Zenon DEF ToRaw
    <2> HIDE DEF run
    <2>7. /\ run = [n \in 0..N |-> run[n]] /\ run[0] = start
          /\ \A n \in 1..N : run[n] = PushAll(run[n - 1], s[n])
        BY <2>1, <2>5 DEF start
    <2>8. \A n \in 1..N : run[n - 1] \in S => run[n] = D[<<run[n - 1], s[n]>>]
        BY <1>3, <2>1, <2>7
    <2>9. Continues(run, D, start, S, s)
        BY <2>7, <2>8, Zenon DEF Continues
    <2>10. run[N] = After(D, start, s)
        BY <1>4, <2>9, LoopIs
    <2> QED  BY <2>6, <2>10
  <1>6. /\ After(D, start, <<>>) = start
        /\ \A s \in Seq(Entry), h \in Entry :
               After(D, start, Append(s, h)) = D[<<After(D, start, s), h>>]
        /\ \A s \in Seq(Entry) : After(D, start, s) \in S
      BY <1>1, <1>3, LoopNext
  <1>7. ASSUME NEW s \in Seq(Entry), NEW h \in Entry
        PROVE  Pushing(Append(s, h)) = PushAll(Pushing(s), h)
    <2>1. After(D, start, s) \in S /\ After(D, start, Append(s, h)) = D[<<After(D, start, s), h>>]
        BY <1>6
    <2> QED  BY <1>2, <1>3, <2>1
  <1> QED  BY <1>2, <1>5, <1>6, <1>7, Zenon DEF S, start

LEMMA RemovedTyped ==
    ASSUME NEW r \in Seq(AnyHeader), NEW name
    PROVE  RemoveName(r, name) \in Seq(AnyHeader)
  <1>1. RemoveName(r, name) = Removing(r, name).kept
      BY RemovingNext
  <1>2. Removing(r, name) \in [kept : Seq(AnyHeader), moved : BOOLEAN]
      BY RemovingNext, Zenon
  <1> QED  BY <1>1, <1>2

\* What the removals of some entries leave.
Clearing(s, raw) ==
    After([x \in Seq(AnyHeader) \X Entry |-> RemoveName(x[1], Lower(x[2][1]))], raw, s)

\* The same of an update.
LEMMA ClearingNext ==
    ASSUME NEW raw \in Seq(AnyHeader)
    PROVE  /\ Clearing(<<>>, raw) = raw
           /\ \A s \in Seq(Entry), h \in Entry :
                  Clearing(Append(s, h), raw) = RemoveName(Clearing(s, raw), Lower(h[1]))
           /\ \A s \in Seq(Entry) : Clearing(s, raw) \in Seq(AnyHeader)
           /\ \A s \in Seq(Entry) : UpdateRaw(raw, s) = Clearing(s, raw) \o ToRaw(s)
  <1> DEFINE S == Seq(AnyHeader)
             start == raw
             D == [x \in S \X Entry |-> RemoveName(x[1], Lower(x[2][1]))]
  <1>1. start \in S /\ \A x \in S, h \in Entry : RemoveName(x, Lower(h[1])) \in S
      BY RemovedTyped
  <1>2. \A s : Clearing(s, raw) = After(D, start, s)
      BY Zenon DEF Clearing
  <1> HIDE DEF S, start
  <1>3. /\ D \in [S \X Entry -> S]
        /\ \A x \in S, h \in Entry : D[<<x, h>>] = RemoveName(x, Lower(h[1]))
      BY <1>1
  <1> HIDE DEF D
  <1>4. IsStep(D, start, S, Entry)
      BY <1>1, <1>3 DEF IsStep
  <1>5. ASSUME NEW s \in Seq(Entry)
        PROVE  UpdateRaw(raw, s) = After(D, start, s) \o ToRaw(s)
    <2> DEFINE N == Len(s)
               IsRun(g) ==
                   g = [n \in 0..N |-> IF n = 0 THEN raw
                                       ELSE RemoveName(g[n - 1], Lower(s[n][1]))]
               run == CHOOSE g : IsRun(g)
               f == Loop(D, start, s)
    <2>1. N \in Nat /\ \A n \in 1..N : s[n] \in Entry
        OBVIOUS
    <2>2. IsLoop(f, D, start, s) /\ f \in [0..N -> S]
        BY <1>1, <1>3, LoopExists
    <2> HIDE DEF f
    <2>3. /\ f = [n \in 0..N |-> f[n]] /\ f[0] = start
          /\ \A n \in 1..N : f[n] = D[<<f[n - 1], s[n]>>]
        BY <2>1, <2>2, LoopUnfolds
    <2>4. IsRun(f)
      <3>1. \A n \in 0..N : n = 0 \/ (n \in 1..N /\ n - 1 \in 0..N)
          BY <2>1
      <3>2. \A n \in 1..N : n - 1 \in 0..N /\ n \in 0..N /\ n # 0
          BY <2>1
      <3>3. \A n \in 1..N : f[n] = RemoveName(f[n - 1], Lower(s[n][1]))
          BY <1>3, <2>1, <2>2, <2>3, <3>2
      <3> QED  BY <2>3, <3>1, <3>3 DEF start
    <2>5. IsRun(run)
        BY <2>4, Zenon
    <2>6. UpdateRaw(raw, s) = run[N] \o ToRaw(s)
        BY Zenon DEF UpdateRaw
    <2> HIDE DEF run
    <2>7. /\ run = [n \in 0..N |-> run[n]] /\ run[0] = start
          /\ \A n \in 1..N : run[n] = RemoveName(run[n - 1], Lower(s[n][1]))
        BY <2>1, <2>5 DEF start
    <2>8. \A n \in 1..N : run[n - 1] \in S => run[n] = D[<<run[n - 1], s[n]>>]
        BY <1>3, <2>1, <2>7
    <2>9. Continues(run, D, start, S, s)
        BY <2>7, <2>8, Zenon DEF Continues
    <2>10. run[N] = After(D, start, s)
        BY <1>4, <2>9, LoopIs
    <2> QED  BY <2>6, <2>10
  <1>6. /\ After(D, start, <<>>) = start
        /\ \A s \in Seq(Entry), h \in Entry :
               After(D, start, Append(s, h)) = D[<<After(D, start, s), h>>]
        /\ \A s \in Seq(Entry) : After(D, start, s) \in S
      BY <1>1, <1>3, LoopNext
  <1>7. ASSUME NEW s \in Seq(Entry), NEW h \in Entry
        PROVE  Clearing(Append(s, h), raw) = RemoveName(Clearing(s, raw), Lower(h[1]))
    <2>1. After(D, start, s) \in S /\ After(D, start, Append(s, h)) = D[<<After(D, start, s), h>>]
        BY <1>6
    <2> QED  BY <1>2, <1>3, <2>1
  <1> QED  BY <1>2, <1>5, <1>6, <1>7, Zenon DEF S, start

LEMMA RemovingFields ==
    ASSUME NEW s \in Seq(AnyHeader), NEW h \in AnyHeader, NEW name
    PROVE  LET x == Removing(s, name)
               y == Removing(Append(s, h), name)
           IN /\ x.kept \in Seq(AnyHeader) /\ x.moved \in BOOLEAN
              /\ y.kept = IF h[1] = name /\ ~x.moved THEN x.kept ELSE Append(x.kept, h)
              /\ y.moved <=> (h[1] = name /\ ~x.moved)
  <1> DEFINE x == Removing(s, name)
             y == Removing(Append(s, h), name)
  <1>1. x \in [kept : Seq(AnyHeader), moved : BOOLEAN]
      BY RemovingNext, Zenon
  <1>2. y = RemoveOrKeep(x, h, name)
      BY RemovingNext, Zenon
  <1> HIDE DEF x, y
  <1>3. /\ x.kept \in Seq(AnyHeader) /\ x.moved \in BOOLEAN
        /\ y.kept = IF h[1] = name /\ ~x.moved THEN x.kept ELSE Append(x.kept, h)
        /\ y.moved <=> (h[1] = name /\ ~x.moved)
      BY <1>1, <1>2 DEF RemoveOrKeep
  <1> QED  BY <1>3 DEF x, y

LEMMA RemovingStart ==
    ASSUME NEW name
    PROVE  Removing(<<>>, name).kept = <<>> /\ Removing(<<>>, name).moved = FALSE
  <1>1. Removing(<<>>, name) = [kept |-> <<>>, moved |-> FALSE]
      BY RemovingNext, Zenon
  <1> QED  BY <1>1

\* A removal keeps all other headers.
LEMMA RemovedLeaves ==
    ASSUME NEW s \in Seq(AnyHeader), NEW name
    PROVE  /\ Without(RemoveName(s, name), {name}) = Without(s, {name})
           /\ \A other : other # name => FindAll(RemoveName(s, name), other) = FindAll(s, other)
  <1> DEFINE Kept(t) == Removing(t, name).kept
             T == {t \in Seq(AnyHeader) : Without(Kept(t), {name}) = Without(t, {name})}
  <1>1. Kept(<<>>) = <<>>
      BY RemovingStart
  <1>2. ASSUME NEW t \in Seq(AnyHeader), NEW h \in AnyHeader
        PROVE  /\ Kept(t) \in Seq(AnyHeader)
               /\ Kept(Append(t, h)) \in {Kept(t), Append(Kept(t), h)}
               /\ h[1] # name => Kept(Append(t, h)) = Append(Kept(t), h)
      BY RemovingFields
  <1> HIDE DEF Kept
  <1>3. <<>> \in T
      BY <1>1
  <1>4. ASSUME NEW t \in T, NEW h \in AnyHeader
        PROVE  Append(t, h) \in T
    <2>1. /\ t \in Seq(AnyHeader) /\ Append(t, h) \in Seq(AnyHeader)
          /\ Without(Kept(t), {name}) = Without(t, {name}) /\ Kept(t) \in Seq(AnyHeader)
        BY <1>2
    <2>2. Without(Append(t, h), {name}) =
              IF h[1] \in {name} THEN Without(t, {name}) ELSE Append(Without(t, {name}), h)
        BY <2>1, LeftNext
    <2>3. Without(Append(Kept(t), h), {name}) =
              IF h[1] \in {name} THEN Without(Kept(t), {name})
                                 ELSE Append(Without(Kept(t), {name}), h)
        BY <2>1, LeftNext
    <2>4. Without(Kept(Append(t, h)), {name}) = Without(Append(t, h), {name})
        BY <1>2, <2>1, <2>2, <2>3
    <2> QED  BY <2>1, <2>4
  <1> HIDE DEF T
  <1>5. T \in SUBSET Seq(AnyHeader)
      BY DEF T
  <1>6. T = Seq(AnyHeader)
      BY <1>3, <1>4, <1>5, SequenceInduction
  <1>7. RemoveName(s, name) = Kept(s)
      BY RemovingNext DEF Kept
  <1>8. Without(RemoveName(s, name), {name}) = Without(s, {name})
      BY <1>6, <1>7 DEF T
  <1>9. ASSUME NEW other, other # name
        PROVE  FindAll(RemoveName(s, name), other) = FindAll(s, other)
    <2>1. RemoveName(s, name) \in Seq(AnyHeader)
        BY RemovedTyped
    <2>2. /\ FindAll(Without(s, {name}), other) = FindAll(s, other)
          /\ FindAll(Without(RemoveName(s, name), {name}), other) =
                 FindAll(RemoveName(s, name), other)
      <3>1. other \notin {name}
          BY <1>9
      <3> QED  BY <2>1, <3>1, FoundInLeft
    <2> QED  BY <1>8, <2>2
  <1> QED  BY <1>8, <1>9

\* What it leaves of its own name came right after another of that name.
LEMMA RemovedAdjacent ==
    ASSUME NEW s \in Seq(AnyHeader), NEW name, Has(RemoveName(s, name), name)
    PROVE  \E i \in 2..Len(s) : s[i][1] = name /\ s[i - 1][1] = name
  <1> DEFINE Kept(t) == Removing(t, name).kept
             JustMoved(t) == Removing(t, name).moved
             Adjacent(t) == \E i \in 2..Len(t) : t[i][1] = name /\ t[i - 1][1] = name
             Good(t) == /\ Has(Kept(t), name) => Adjacent(t)
                        /\ JustMoved(t) => Len(t) > 0 /\ t[Len(t)][1] = name
             T == {t \in Seq(AnyHeader) : Good(t)}
  <1>1. Kept(<<>>) = <<>> /\ ~JustMoved(<<>>) /\ ~Has(<<>>, name)
      BY RemovingStart, EmptyMessage DEF Has
  <1>2. ASSUME NEW t \in Seq(AnyHeader), NEW h \in AnyHeader
        PROVE  /\ Kept(t) \in Seq(AnyHeader)
               /\ Kept(Append(t, h)) =
                      IF h[1] = name /\ ~JustMoved(t) THEN Kept(t) ELSE Append(Kept(t), h)
               /\ JustMoved(Append(t, h)) <=> (h[1] = name /\ ~JustMoved(t))
      BY RemovingFields
  <1> HIDE DEF Kept, JustMoved
  <1>3. <<>> \in T
      BY <1>1
  <1>4. ASSUME NEW t \in T, NEW h \in AnyHeader
        PROVE  Append(t, h) \in T
    <2> DEFINE u == Append(t, h)
               n == Len(t)
    <2>1. t \in Seq(AnyHeader) /\ Good(t)
        OBVIOUS
    <2>2. /\ u \in Seq(AnyHeader) /\ n \in Nat /\ Len(u) = n + 1 /\ u[n + 1] = h
          /\ \A i \in 1..n : u[i] = t[i]
        BY <2>1, AppendProperties
    <2>3. /\ Kept(t) \in Seq(AnyHeader)
          /\ Kept(u) = IF h[1] = name /\ ~JustMoved(t) THEN Kept(t) ELSE Append(Kept(t), h)
          /\ JustMoved(u) <=> (h[1] = name /\ ~JustMoved(t))
        BY <1>2, <2>1
    <2> HIDE DEF u
    <2>4. Adjacent(t) => Adjacent(u)
      <3>1. ASSUME NEW i \in 2..n, t[i][1] = name, t[i - 1][1] = name
            PROVE  Adjacent(u)
        <4>1. i \in 1..n /\ i - 1 \in 1..n /\ i \in 2..(n + 1)
            BY <2>2
        <4>2. u[i][1] = name /\ u[i - 1][1] = name
            BY <2>2, <3>1, <4>1
        <4> QED  BY <2>2, <4>1, <4>2
      <3> QED  BY <3>1
    <2>5. h[1] = name /\ JustMoved(t) => Adjacent(u)
      <3>1. SUFFICES ASSUME h[1] = name, JustMoved(t)
                     PROVE  Adjacent(u)
          OBVIOUS
      <3>2. n > 0 /\ t[n][1] = name
          BY <2>1, <3>1
      <3>3. n + 1 \in 2..(n + 1) /\ n \in 1..n /\ (n + 1) - 1 = n
          BY <2>2, <3>2
      <3>4. u[n + 1][1] = name /\ u[(n + 1) - 1][1] = name
          BY <2>2, <3>1, <3>2, <3>3
      <3> QED  BY <2>2, <3>3, <3>4
    <2>6. Has(Append(Kept(t), h), name) => Has(Kept(t), name) \/ h[1] = name
      <3>1. Append(Kept(t), h) \in Seq(AnyHeader)
            /\ ToSet(Append(Kept(t), h)) = ToSet(Kept(t)) \cup {h}
          BY <2>3, MembersOf
      <3>2. /\ Has(Append(Kept(t), h), name) <=> \E g \in ToSet(Append(Kept(t), h)) : g[1] = name
            /\ Has(Kept(t), name) <=> \E g \in ToSet(Kept(t)) : g[1] = name
          BY <2>3, <3>1, FoundMembers
      <3> QED  BY <3>1, <3>2
    <2>7. Has(Kept(u), name) => Adjacent(u)
        BY <2>1, <2>3, <2>4, <2>5, <2>6
    <2>8. JustMoved(u) => Len(u) > 0 /\ u[Len(u)][1] = name
        BY <2>2, <2>3
    <2>9. Good(u)
        BY <2>7, <2>8
    <2> HIDE DEF Good
    <2> QED  BY <2>2, <2>9 DEF u
  <1> HIDE DEF T
  <1>5. T \in SUBSET Seq(AnyHeader)
      BY DEF T
  <1>6. T = Seq(AnyHeader)
      BY <1>3, <1>4, <1>5, SequenceInduction
  <1>7. RemoveName(s, name) = Kept(s)
      BY RemovingNext DEF Kept
  <1> QED  BY <1>6, <1>7 DEF T

\* A name that occurs at most once is removed.
LEMMA RemovedOnce ==
    ASSUME NEW s \in Seq(AnyHeader), NEW name, Len(FindAll(s, name)) <= 1
    PROVE  FindAll(RemoveName(s, name), name) = <<>>
  <1> DEFINE Kept(t) == Removing(t, name).kept
             JustMoved(t) == Removing(t, name).moved
             Found(t) == FindAll(t, name)
             Good(t) == /\ Found(t) = <<>> => ~JustMoved(t)
                        /\ Len(Found(t)) <= 1 => Found(Kept(t)) = <<>>
             T == {t \in Seq(AnyHeader) : Good(t)}
  <1>1. Kept(<<>>) = <<>> /\ ~JustMoved(<<>>) /\ Found(<<>>) = <<>>
      BY RemovingStart, EmptyMessage
  <1>2. ASSUME NEW t \in Seq(AnyHeader), NEW h \in AnyHeader
        PROVE  /\ Kept(t) \in Seq(AnyHeader)
               /\ Kept(Append(t, h)) =
                      IF h[1] = name /\ ~JustMoved(t) THEN Kept(t) ELSE Append(Kept(t), h)
               /\ JustMoved(Append(t, h)) <=> (h[1] = name /\ ~JustMoved(t))
      BY RemovingFields
  <1>3. ASSUME NEW t \in Seq(AnyHeader), NEW h \in AnyHeader
        PROVE  /\ Found(Append(t, h)) = IF h[1] = name THEN Append(Found(t), h) ELSE Found(t)
               /\ Found(t) \in Seq(AnyHeader)
      BY FoundNext, FindAllFilters
  <1> HIDE DEF Kept, JustMoved, Found
  <1>4. <<>> \in T
      BY <1>1
  <1>5. ASSUME NEW t \in T, NEW h \in AnyHeader
        PROVE  Append(t, h) \in T
    <2> DEFINE u == Append(t, h)
    <2>1. t \in Seq(AnyHeader) /\ Good(t) /\ u \in Seq(AnyHeader)
        OBVIOUS
    <2>2. /\ Kept(t) \in Seq(AnyHeader)
          /\ Kept(u) = IF h[1] = name /\ ~JustMoved(t) THEN Kept(t) ELSE Append(Kept(t), h)
          /\ JustMoved(u) <=> (h[1] = name /\ ~JustMoved(t))
        BY <1>2, <2>1
    <2>3. /\ Found(u) = IF h[1] = name THEN Append(Found(t), h) ELSE Found(t)
          /\ Found(t) \in Seq(AnyHeader)
        BY <1>3, <2>1
    <2>4. Found(Append(Kept(t), h)) =
              IF h[1] = name THEN Append(Found(Kept(t)), h) ELSE Found(Kept(t))
        BY <1>3, <2>2
    <2> HIDE DEF u
    <2>5. ASSUME h[1] # name
          PROVE  Good(u)
        BY <2>1, <2>2, <2>3, <2>4, <2>5
    <2>6. ASSUME h[1] = name
          PROVE  Good(u)
      <3>1. Len(Found(u)) = Len(Found(t)) + 1 /\ Len(Found(t)) \in Nat
          BY <2>3, <2>6, AppendProperties
      <3>2. Found(u) # <<>>
        <4>1. Len(<<>>) = 0
            OBVIOUS
        <4> QED  BY <3>1, <4>1
      <3>3. Len(Found(u)) <= 1 => Found(t) = <<>>
        <4>1. Len(Found(u)) <= 1 => Len(Found(t)) = 0
            BY <3>1
        <4> QED  BY <2>3, <4>1, EmptySeq
      <3>4. Len(Found(u)) <= 1 => Found(Kept(u)) = <<>>
        <4>1. SUFFICES ASSUME Len(Found(u)) <= 1
                       PROVE  Found(Kept(u)) = <<>>
            OBVIOUS
        <4>2. Found(t) = <<>> /\ Len(<<>>) = 0
            BY <3>3, <4>1
        <4>3. ~JustMoved(t) /\ Found(Kept(t)) = <<>>
            BY <2>1, <4>2
        <4> QED  BY <2>2, <2>6, <4>3
      <3> QED  BY <3>2, <3>4
    <2>7. Good(u)
        BY <2>5, <2>6
    <2> HIDE DEF Good
    <2> QED  BY <2>1, <2>7 DEF u
  <1> HIDE DEF T
  <1>6. T \in SUBSET Seq(AnyHeader)
      BY DEF T
  <1>7. T = Seq(AnyHeader)
      BY <1>4, <1>5, <1>6, SequenceInduction
  <1>8. RemoveName(s, name) = Kept(s)
      BY RemovingNext DEF Kept
  <1> QED  BY <1>7, <1>8 DEF T, Found

LEMMA NoMembers ==
    ASSUME NEW H, NEW s \in Seq(H), ToSet(s) = {}
    PROVE  s = <<>>
  <1>1. s # <<>> => 1 \in DOMAIN s
      OBVIOUS
  <1> QED  BY <1>1 DEF ToSet

LEMMA OneEntry ==
    ASSUME NEW e \in Entry
    PROVE  /\ <<e>> \in Seq(Entry) /\ <<e>> = Append(<<>>, e)
           /\ ToRaw(<<e>>) \in Seq(AnyHeader) /\ Len(ToRaw(<<e>>)) = Len(e[2])
           /\ ToSet(ToRaw(<<e>>)) = {<<Lower(e[1]), e[2][j]>> : j \in DOMAIN e[2]}
  <1> DEFINE o == <<>>
             r == <<>>
             t == [j \in DOMAIN e[2] |-> <<Lower(e[1]), e[2][j]>>]
  <1>1. /\ o \in Seq(Entry) /\ <<e>> \in Seq(Entry) /\ <<e>> = Append(o, e)
        /\ r \in Seq(AnyHeader) /\ ToSet(r) = {}
      BY MembersOf
  <1>2. /\ PushAll(r, e) \in Seq(AnyHeader)
        /\ ToSet(PushAll(r, e)) = {<<Lower(e[1]), e[2][j]>> : j \in DOMAIN e[2]}
      BY <1>1, PushAllMembers
  <1>3. Pushing(o) = r
      BY PushingNext, Zenon
  <1>4. Len(PushAll(r, e)) = Len(e[2])
    <2>1. Lower(e[1]) \in AnyName /\ e[2] \in Seq(AnyValue)
        BY LowerIs DEF Entry
    <2>2. DOMAIN e[2] = 1..Len(e[2]) /\ Len(e[2]) \in Nat
        BY <2>1
    <2>3. \A j \in 1..Len(e[2]) : <<Lower(e[1]), e[2][j]>> \in AnyHeader
        BY <2>1 DEF AnyHeader
    <2>4. t \in Seq(AnyHeader)
        BY <2>2, <2>3, IsASeq
    <2>5. Len(t) = Len(e[2])
        BY <2>2
    <2>6. PushAll(r, e) = r \o t
        BY DEF PushAll
    <2> HIDE DEF t
    <2>7. r \o t = t
        BY <2>4, ConcatEmptySeq
    <2> QED  BY <2>5, <2>6, <2>7
  <1> HIDE DEF o, r
  <1>5. Pushing(Append(o, e)) = PushAll(Pushing(o), e) /\ Append(o, e) \in Seq(Entry)
      BY <1>1, PushingNext
  <1>6. ToRaw(Append(o, e)) = Pushing(Append(o, e))
      BY <1>5, PushingNext
  <1>7. ToRaw(<<e>>) = PushAll(r, e)
      BY <1>1, <1>3, <1>5, <1>6
  <1>8. <<e>> = Append(<<>>, e)
      OBVIOUS
  <1> QED  BY <1>1, <1>2, <1>4, <1>7, <1>8

LEMMA UpdateOne ==
    ASSUME NEW raw \in Seq(AnyHeader), NEW e \in Entry
    PROVE  UpdateRaw(raw, <<e>>) = RemoveName(raw, Lower(e[1])) \o ToRaw(<<e>>)
  <1> DEFINE o == <<>>
             t == <<e>>
  <1>1. o \in Seq(Entry) /\ t \in Seq(Entry) /\ t = Append(o, e)
      OBVIOUS
  <1>2. Clearing(o, raw) = raw
      BY ClearingNext, Zenon
  <1> HIDE DEF o, t
  <1>3. Clearing(Append(o, e), raw) = RemoveName(Clearing(o, raw), Lower(e[1]))
      BY <1>1, ClearingNext
  <1>4. UpdateRaw(raw, t) = Clearing(t, raw) \o ToRaw(t)
      BY <1>1, ClearingNext
  <1> QED  BY <1>1, <1>2, <1>3, <1>4 DEF t

\* Objects of the sample have one entry.
LEMMA SampleObject ==
    ASSUME NEW object \in ObjectSample
    PROVE  /\ object[1] \in Entry /\ object = <<object[1]>>
           /\ Len(object[1][2]) = 1 => object[1][2] = <<object[1][2][1]>>
  <1>1. PICK name \in HeaderName \cup DOMAIN Cased,
             values \in {<<>>} \cup {<<v>> : v \in HeaderValue}
                            \cup {<<v, "2">> : v \in HeaderValue} :
                 object = <<<<name, values>>>>
      BY DEF ObjectSample
  <1>2. name \in GivenName /\ HeaderValue \subseteq AnyValue /\ "2" \in AnyValue
      BY DEF GivenName, AnyName, AnyValue
  <1>3. values \in Seq(AnyValue)
    <2>1. CASE values = <<>>
        BY <2>1
    <2>2. ASSUME NEW v \in HeaderValue, values = <<v>>
          PROVE  values \in Seq(AnyValue)
        BY <1>2, <2>2
    <2>3. ASSUME NEW v \in HeaderValue, values = <<v, "2">>
          PROVE  values \in Seq(AnyValue)
        BY <1>2, <2>3
    <2> QED  BY <2>1, <2>2, <2>3
  <1>4. Len(values) = 1 => values = <<values[1]>>
      BY <1>3
  <1> QED  BY <1>1, <1>2, <1>3, <1>4 DEF Entry

\* An update, in its parts.
LEMMA UpdateParts ==
    ASSUME NEW raw \in Seq(AnyHeader), NEW e \in Entry
    PROVE  LET u == UpdateRaw(raw, <<e>>)
               k == RemoveName(raw, Lower(e[1]))
               t == ToRaw(<<e>>)
           IN /\ u = k \o t /\ u \in Seq(AnyHeader) /\ k \in Seq(AnyHeader) /\ t \in Seq(AnyHeader)
              /\ Without(t, {Lower(e[1])}) = <<>>
              /\ \A name : name # Lower(e[1]) => FindAll(t, name) = <<>>
              /\ \A name : name # Lower(e[1]) => FindAll(u, name) = FindAll(raw, name)
              /\ Without(u, {Lower(e[1])}) = Without(raw, {Lower(e[1])})
  <1> DEFINE u == UpdateRaw(raw, <<e>>)
             k == RemoveName(raw, Lower(e[1]))
             t == ToRaw(<<e>>)
             own == {Lower(e[1])}
  <1>1. u = k \o t
      BY UpdateOne
  <1>2. k \in Seq(AnyHeader) /\ t \in Seq(AnyHeader)
      BY RemovedTyped, OneEntry
  <1>3. \A h \in ToSet(t) : h[1] = Lower(e[1]) /\ h[1] \in own
      BY OneEntry
  <1>4. /\ Without(k, own) = Without(raw, own)
        /\ \A name : name # Lower(e[1]) => FindAll(k, name) = FindAll(raw, name)
      BY RemovedLeaves
  <1> HIDE DEF u, k, t, own
  <1>5. u \in Seq(AnyHeader)
      BY <1>1, <1>2, ConcatProperties
  <1>6. Without(t, own) = <<>>
    <2>1. Without(t, own) \in Seq(AnyHeader)
        BY <1>2, WithoutFilters
    <2>2. ToSet(Without(t, own)) = {h \in ToSet(t) : h[1] \notin own}
        BY <1>2, LeftMembers
    <2>3. ToSet(Without(t, own)) = {}
        BY <1>3, <2>2
    <2> QED  BY <2>1, <2>3, NoMembers
  <1>7. ASSUME NEW name, name # Lower(e[1])
        PROVE  FindAll(t, name) = <<>>
    <2>1. ~Has(t, name)
        BY <1>2, <1>3, <1>7, FoundMembers
    <2> QED  BY <2>1 DEF Has
  <1>8. ASSUME NEW name, name # Lower(e[1])
        PROVE  FindAll(u, name) = FindAll(raw, name)
    <2>1. FindAll(u, name) = FindAll(k, name) \o FindAll(t, name)
        BY <1>1, <1>2, FoundConcat
    <2>2. FindAll(t, name) = <<>> /\ FindAll(k, name) = FindAll(raw, name)
        BY <1>4, <1>7, <1>8
    <2>3. FindAll(raw, name) \in Seq(AnyHeader)
        BY FindAllFilters
    <2>4. FindAll(raw, name) \o <<>> = FindAll(raw, name)
        BY <2>3, ConcatEmptySeq
    <2> QED  BY <2>1, <2>2, <2>4
  <1>9. Without(u, own) = Without(raw, own)
    <2>1. Without(u, own) = Without(k, own) \o Without(t, own)
        BY <1>1, <1>2, LeftConcat
    <2>2. Without(raw, own) \in Seq(AnyHeader)
        BY WithoutFilters
    <2>3. Without(raw, own) \o <<>> = Without(raw, own)
        BY <2>2, ConcatEmptySeq
    <2> QED  BY <1>4, <1>6, <2>1, <2>3
  <1> QED  BY <1>1, <1>2, <1>5, <1>6, <1>7, <1>8, <1>9 DEF u, k, t, own

\* The first law: updates.
LEMMA UpdateOverrides == UpdatesOverride
  <1> SUFFICES ASSUME NEW raw \in RawSample, NEW object \in ObjectSample
               PROVE  LET name == Lower(object[1][1])
                          updated == UpdateRaw(raw, object)
                          kept == SubSeq(updated, 1, Len(updated) - Len(object[1][2]))
                      IN /\ updated = kept \o ToRaw(object)
                         /\ Without(updated, {name}) = Without(raw, {name})
                         /\ Has(kept, name) =>
                                \E i \in 2..Len(raw) : raw[i][1] = name /\ raw[i - 1][1] = name
      BY Zenon DEF UpdatesOverride
  <1> DEFINE e == object[1]
             u == UpdateRaw(raw, object)
             k == RemoveName(raw, Lower(e[1]))
             t == ToRaw(object)
             kept == SubSeq(u, 1, Len(u) - Len(e[2]))
  <1>1. raw \in Seq(AnyHeader) /\ e \in Entry /\ object = <<e>>
      BY SamplesAreMessages, SampleObject
  <1>2. /\ u = k \o t /\ k \in Seq(AnyHeader) /\ t \in Seq(AnyHeader)
        /\ Without(u, {Lower(e[1])}) = Without(raw, {Lower(e[1])})
      BY <1>1, UpdateParts
  <1>3. Len(t) = Len(e[2])
      BY <1>1, OneEntry
  <1>4. Has(k, Lower(e[1])) => \E i \in 2..Len(raw) : raw[i][1] = Lower(e[1]) /\ raw[i - 1][1] = Lower(e[1])
      BY <1>1, RemovedAdjacent
  <1> HIDE DEF u, k, t, e
  <1>5. kept = k
    <2>1. Len(u) = Len(k) + Len(t) /\ Len(k) \in Nat /\ Len(t) \in Nat
        BY <1>2, ConcatProperties
    <2>2. Len(u) - Len(e[2]) = Len(k)
        BY <1>3, <2>1
    <2>3. SubSeq(k \o t, 1, Len(k)) = k
        BY <1>2, SubSeqOfConcat1, SubSeqFull
    <2> QED  BY <1>2, <2>2, <2>3
  <1> HIDE DEF kept
  <1>6. /\ u = kept \o t /\ Without(u, {Lower(e[1])}) = Without(raw, {Lower(e[1])})
        /\ Has(kept, Lower(e[1])) => \E i \in 2..Len(raw) : raw[i][1] = Lower(e[1]) /\ raw[i - 1][1] = Lower(e[1])
      BY <1>2, <1>4, <1>5
  <1> QED  BY <1>6, Zenon DEF u, t, kept, e

-----------------------------------------------------------------------------
(* Objects *)

\* What objects become is a matter of their entries.
LEMMA RawMembers ==
    ASSUME NEW o \in Seq(Entry)
    PROVE  /\ ToRaw(o) \in Seq(AnyHeader)
           /\ \A h : h \in ToSet(ToRaw(o)) <=>
                      \E e \in ToSet(o) : \E j \in DOMAIN e[2] : h = <<Lower(e[1]), e[2][j]>>
  <1> DEFINE Stems(h, e) == \E j \in DOMAIN e[2] : h = <<Lower(e[1]), e[2][j]>>
             T == {p \in Seq(Entry) :
                       \A h : h \in ToSet(Pushing(p)) <=> \E e \in ToSet(p) : Stems(h, e)}
  <1>1. /\ Pushing(<<>>) = <<>> /\ \A p \in Seq(Entry) : Pushing(p) \in Seq(AnyHeader)
        /\ \A p \in Seq(Entry), e \in Entry : Pushing(Append(p, e)) = PushAll(Pushing(p), e)
      BY PushingNext, Zenon
  <1>2. <<>> \in T
      BY <1>1, MembersOf
  <1>3. ASSUME NEW p \in T, NEW e \in Entry
        PROVE  Append(p, e) \in T
    <2>1. /\ p \in Seq(Entry) /\ Append(p, e) \in Seq(Entry)
          /\ \A h : h \in ToSet(Pushing(p)) <=> \E d \in ToSet(p) : Stems(h, d)
        OBVIOUS
    <2>2. ToSet(Append(p, e)) = ToSet(p) \cup {e}
        BY <2>1, MembersOf
    <2>3. Pushing(p) \in Seq(AnyHeader) /\ Pushing(Append(p, e)) = PushAll(Pushing(p), e)
        BY <1>1, <2>1
    <2>4. ToSet(PushAll(Pushing(p), e)) =
              ToSet(Pushing(p)) \cup {<<Lower(e[1]), e[2][j]>> : j \in DOMAIN e[2]}
        BY <2>3, PushAllMembers
    <2>5. \A h : h \in ToSet(PushAll(Pushing(p), e)) <=> h \in ToSet(Pushing(p)) \/ Stems(h, e)
        BY <2>4
    <2> HIDE DEF Stems
    <2>6. \A h : h \in ToSet(Pushing(Append(p, e))) <=> \E d \in ToSet(Append(p, e)) : Stems(h, d)
        BY <2>1, <2>2, <2>3, <2>5
    <2> QED  BY <2>1, <2>6
  <1> HIDE DEF T
  <1>4. T \in SUBSET Seq(Entry)
      BY DEF T
  <1>5. T = Seq(Entry)
      BY <1>2, <1>3, <1>4, SequenceInduction
  <1>6. ToRaw(o) = Pushing(o)
      BY PushingNext, Zenon
  <1> QED  BY <1>1, <1>5, <1>6 DEF T

\* Putting another entry where one name is.
LEMMA PutMembers ==
    ASSUME NEW o, NEW name, NEW p,
           p = [i \in DOMAIN o |-> p[i]],
           \A i \in DOMAIN o : IF o[i][1] = name THEN p[i][1] = name ELSE p[i] = o[i]
    PROVE  /\ \A e : e[1] # name => (e \in ToSet(p) <=> e \in ToSet(o))
           /\ (\E e \in ToSet(o) : e[1] = name) => \E e \in ToSet(p) : e[1] = name
  <1>1. DOMAIN p = DOMAIN o
      OBVIOUS
  <1>2. ASSUME NEW e, e[1] # name
        PROVE  e \in ToSet(p) <=> e \in ToSet(o)
      BY <1>1, <1>2 DEF ToSet
  <1>3. (\E e \in ToSet(o) : e[1] = name) => \E e \in ToSet(p) : e[1] = name
      BY <1>1 DEF ToSet
  <1> QED  BY <1>2, <1>3

LEMMA PutTyped ==
    ASSUME NEW E, NEW o \in Seq(E), NEW p,
           p = [i \in DOMAIN o |-> p[i]], \A i \in DOMAIN o : p[i] \in E
    PROVE  p \in Seq(E)
  <1>1. DOMAIN o = 1..Len(o) /\ Len(o) \in Nat
      OBVIOUS
  <1> QED  BY <1>1, IsASeq

LEMMA AddMembers ==
    ASSUME NEW o \in Seq(PlainEntry), NEW h \in AnyHeader
    PROVE  LET p == AddHeader(o, h)
           IN /\ p \in Seq(PlainEntry)
              /\ \A e : e[1] # h[1] => (e \in ToSet(p) <=> e \in ToSet(o))
              /\ \E e \in ToSet(p) : e[1] = h[1]
              /\ ~IsIn(o, h[1]) => \A e \in ToSet(p) : e[1] = h[1] => e[2] = <<h[2]>>
  <1> DEFINE p == AddHeader(o, h)
  <1>1. h[1] \in AnyName /\ h[2] \in AnyValue
      BY DEF AnyHeader
  <1>2. IsIn(o, h[1]) <=> \E e \in ToSet(o) : e[1] = h[1]
      BY DEF IsIn, ToSet
  <1>3. CASE IsIn(o, h[1])
    <2> DEFINE q == [i \in DOMAIN o |->
                        IF o[i][1] = h[1] THEN <<h[1], AddValue(o[i][2], h[2])>> ELSE o[i]]
    <2>1. p = q
        BY <1>3 DEF AddHeader
    <2>2. \A i \in DOMAIN o : <<h[1], AddValue(o[i][2], h[2])>> \in PlainEntry
      <3>1. \A i \in DOMAIN o : o[i][2] \in Seq(AnyValue)
          BY DEF PlainEntry
      <3>2. \A values \in Seq(AnyValue) : AddValue(values, h[2]) \in Seq(AnyValue)
          BY <1>1 DEF AddValue
      <3> QED  BY <1>1, <3>1, <3>2 DEF PlainEntry
    <2>3. /\ q = [i \in DOMAIN o |-> q[i]]
          /\ \A i \in DOMAIN o : IF o[i][1] = h[1] THEN q[i] \in PlainEntry /\ q[i][1] = h[1]
                                                   ELSE q[i] = o[i]
        BY <2>2
    <2> HIDE DEF p, q
    <2>4. /\ q \in Seq(PlainEntry)
          /\ \A e : e[1] # h[1] => (e \in ToSet(q) <=> e \in ToSet(o))
          /\ (\E e \in ToSet(o) : e[1] = h[1]) => \E e \in ToSet(q) : e[1] = h[1]
      <3>1. \A i \in DOMAIN o : o[i] \in PlainEntry
          OBVIOUS
      <3>2. q \in Seq(PlainEntry)
          BY <2>3, <3>1, PutTyped
      <3>3. \A i \in DOMAIN o : IF o[i][1] = h[1] THEN q[i][1] = h[1] ELSE q[i] = o[i]
          BY <2>3
      <3> QED  BY <2>3, <3>2, <3>3, PutMembers
    <2> QED  BY <1>2, <1>3, <2>1, <2>4 DEF p
  <1>4. CASE ~IsIn(o, h[1])
    <2> DEFINE d == <<h[1], <<h[2]>> >>
    <2>1. p = Append(o, d)
        BY <1>4 DEF AddHeader
    <2>2. d \in PlainEntry /\ d[1] = h[1] /\ d[2] = <<h[2]>>
        BY <1>1 DEF PlainEntry
    <2> HIDE DEF d, p
    <2>3. p \in Seq(PlainEntry) /\ ToSet(p) = ToSet(o) \cup {d}
        BY <2>1, <2>2, MembersOf
    <2> QED  BY <1>2, <1>4, <2>2, <2>3 DEF p
  <1> QED  BY <1>3, <1>4

\* The object that some headers have come to.
Collecting(s) ==
    After([x \in Seq(PlainEntry) \X AnyHeader |-> AddHeader(x[1], x[2])], <<>>, s)

\* The same of making objects of headers.
LEMMA CollectingNext ==
    /\ Collecting(<<>>) = <<>>
    /\ \A s \in Seq(AnyHeader), h \in AnyHeader :
           Collecting(Append(s, h)) = AddHeader(Collecting(s), h)
    /\ \A s \in Seq(AnyHeader) : Collecting(s) \in Seq(PlainEntry)
    /\ \A s \in Seq(AnyHeader) : ToObject(s) = Collecting(s)
  <1> DEFINE S == Seq(PlainEntry)
             start == <<>>
             D == [x \in S \X AnyHeader |-> AddHeader(x[1], x[2])]
  <1>1. start \in S /\ \A x \in S, h \in AnyHeader : AddHeader(x, h) \in S
      BY AddMembers
  <1>2. \A s : Collecting(s) = After(D, start, s)
      BY Zenon DEF Collecting
  <1> HIDE DEF S, start
  <1>3. /\ D \in [S \X AnyHeader -> S]
        /\ \A x \in S, h \in AnyHeader : D[<<x, h>>] = AddHeader(x, h)
      BY <1>1
  <1> HIDE DEF D
  <1>4. IsStep(D, start, S, AnyHeader)
      BY <1>1, <1>3 DEF IsStep
  <1>5. ASSUME NEW s \in Seq(AnyHeader)
        PROVE  ToObject(s) = After(D, start, s)
    <2> DEFINE N == Len(s)
               IsRun(g) ==
                   g = [n \in 0..N |-> IF n = 0 THEN <<>>
                                       ELSE AddHeader(g[n - 1], s[n])]
               run == CHOOSE g : IsRun(g)
               f == Loop(D, start, s)
    <2>1. N \in Nat /\ \A n \in 1..N : s[n] \in AnyHeader
        OBVIOUS
    <2>2. IsLoop(f, D, start, s) /\ f \in [0..N -> S]
        BY <1>1, <1>3, LoopExists
    <2> HIDE DEF f
    <2>3. /\ f = [n \in 0..N |-> f[n]] /\ f[0] = start
          /\ \A n \in 1..N : f[n] = D[<<f[n - 1], s[n]>>]
        BY <2>1, <2>2, LoopUnfolds
    <2>4. IsRun(f)
      <3>1. \A n \in 0..N : n = 0 \/ (n \in 1..N /\ n - 1 \in 0..N)
          BY <2>1
      <3>2. \A n \in 1..N : n - 1 \in 0..N /\ n \in 0..N /\ n # 0
          BY <2>1
      <3>3. \A n \in 1..N : f[n] = AddHeader(f[n - 1], s[n])
          BY <1>3, <2>1, <2>2, <2>3, <3>2
      <3> QED  BY <2>3, <3>1, <3>3 DEF start
    <2>5. IsRun(run)
        BY <2>4, Zenon
    <2>6. ToObject(s) = run[N]
        BY Zenon DEF ToObject
    <2> HIDE DEF run
    <2>7. /\ run = [n \in 0..N |-> run[n]] /\ run[0] = start
          /\ \A n \in 1..N : run[n] = AddHeader(run[n - 1], s[n])
        BY <2>1, <2>5 DEF start
    <2>8. \A n \in 1..N : run[n - 1] \in S => run[n] = D[<<run[n - 1], s[n]>>]
        BY <1>3, <2>1, <2>7
    <2>9. Continues(run, D, start, S, s)
        BY <2>7, <2>8, Zenon DEF Continues
    <2>10. run[N] = After(D, start, s)
        BY <1>4, <2>9, LoopIs
    <2> QED  BY <2>6, <2>10
  <1>6. /\ After(D, start, <<>>) = start
        /\ \A s \in Seq(AnyHeader), h \in AnyHeader :
               After(D, start, Append(s, h)) = D[<<After(D, start, s), h>>]
        /\ \A s \in Seq(AnyHeader) : After(D, start, s) \in S
      BY <1>1, <1>3, LoopNext
  <1>7. ASSUME NEW s \in Seq(AnyHeader), NEW h \in AnyHeader
        PROVE  Collecting(Append(s, h)) = AddHeader(Collecting(s), h)
    <2>1. After(D, start, s) \in S /\ After(D, start, Append(s, h)) = D[<<After(D, start, s), h>>]
        BY <1>6
    <2> QED  BY <1>2, <1>3, <2>1
  <1> QED  BY <1>2, <1>5, <1>6, <1>7, Zenon DEF S, start

\* A name that occurs at most once has its one value in the object.
LEMMA Collected ==
    ASSUME NEW s \in Seq(AnyHeader), NEW name, Len(FindAll(s, name)) <= 1
    PROVE  /\ ToObject(s) \in Seq(PlainEntry)
           /\ Has(s, name) => \E e \in ToSet(ToObject(s)) : e[1] = name
           /\ \A e \in ToSet(ToObject(s)) : e[1] = name =>
                  Has(s, name) /\ e[2] = <<Value(s, name)>>
  <1> DEFINE C(t) == Collecting(t)
             Found(t) == FindAll(t, name)
             Good(t) == /\ Found(t) # <<>> <=> \E e \in ToSet(C(t)) : e[1] = name
                        /\ Len(Found(t)) <= 1 =>
                               \A e \in ToSet(C(t)) : e[1] = name => e[2] = <<Found(t)[1][2]>>
             T == {t \in Seq(AnyHeader) : Good(t)}
  <1>1. /\ C(<<>>) = <<>> /\ \A t \in Seq(AnyHeader) : C(t) \in Seq(PlainEntry)
        /\ \A t \in Seq(AnyHeader), h \in AnyHeader : C(Append(t, h)) = AddHeader(C(t), h)
      BY CollectingNext, Zenon
  <1>2. ASSUME NEW t \in Seq(AnyHeader), NEW h \in AnyHeader
        PROVE  /\ Found(Append(t, h)) = IF h[1] = name THEN Append(Found(t), h) ELSE Found(t)
               /\ Found(t) \in Seq(AnyHeader)
      BY FoundNext, FindAllFilters
  <1>3. Found(<<>>) = <<>>
      BY EmptyMessage
  <1> HIDE DEF C, Found
  <1>4. <<>> \in T
      BY <1>1, <1>3, MembersOf
  <1>5. ASSUME NEW t \in T, NEW h \in AnyHeader
        PROVE  Append(t, h) \in T
    <2> DEFINE u == Append(t, h)
               o == C(t)
               p == C(u)
    <2>1. t \in Seq(AnyHeader) /\ u \in Seq(AnyHeader) /\ Good(t)
        OBVIOUS
    <2>2. o \in Seq(PlainEntry) /\ p = AddHeader(o, h)
        BY <1>1, <2>1
    <2>3. /\ Found(u) = IF h[1] = name THEN Append(Found(t), h) ELSE Found(t)
          /\ Found(t) \in Seq(AnyHeader)
        BY <1>2, <2>1
    <2>4. /\ Found(t) # <<>> <=> \E e \in ToSet(o) : e[1] = name
          /\ Len(Found(t)) <= 1 => \A e \in ToSet(o) : e[1] = name => e[2] = <<Found(t)[1][2]>>
        BY <2>1
    <2> HIDE DEF u, o, p
    <2>5. /\ \A e : e[1] # h[1] => (e \in ToSet(p) <=> e \in ToSet(o))
          /\ \E e \in ToSet(p) : e[1] = h[1]
          /\ ~IsIn(o, h[1]) => \A e \in ToSet(p) : e[1] = h[1] => e[2] = <<h[2]>>
        BY <2>2, AddMembers
    <2>6. /\ Found(u) # <<>> <=> \E e \in ToSet(p) : e[1] = name
          /\ Len(Found(u)) <= 1 => \A e \in ToSet(p) : e[1] = name => e[2] = <<Found(u)[1][2]>>
      <3>1. CASE h[1] # name
          BY <2>3, <2>4, <2>5, <3>1
      <3>2. CASE h[1] = name
        <4>1. Len(Found(u)) = Len(Found(t)) + 1 /\ Len(Found(t)) \in Nat /\ Len(<<>>) = 0
            BY <2>3, <3>2, AppendProperties
        <4>2. Found(u) # <<>>
            BY <4>1
        <4>3. ASSUME Len(Found(u)) <= 1, NEW e \in ToSet(p), e[1] = name
              PROVE  e[2] = <<Found(u)[1][2]>>
          <5>1. Len(Found(t)) = 0
              BY <4>1, <4>3
          <5>2. Found(t) = <<>>
              BY <2>3, <5>1, EmptySeq
          <5>3. Found(u) = <<h>>
              BY <2>3, <3>2, <5>2
          <5>4. IsIn(o, h[1]) <=> \E d \in ToSet(o) : d[1] = name
              BY <3>2 DEF IsIn, ToSet
          <5>5. e[2] = <<h[2]>>
              BY <2>4, <2>5, <3>2, <4>3, <5>2, <5>4
          <5> QED  BY <5>3, <5>5
        <4> QED  BY <2>5, <3>2, <4>2, <4>3
      <3> QED  BY <3>1, <3>2
    <2> QED  BY <2>1, <2>6 DEF u, p
  <1> HIDE DEF T
  <1>6. T \in SUBSET Seq(AnyHeader)
      BY DEF T
  <1>7. T = Seq(AnyHeader)
      BY <1>4, <1>5, <1>6, SequenceInduction
  <1>8. Good(s)
      BY <1>7 DEF T
  <1>9. ToObject(s) = C(s)
      BY CollectingNext, Zenon DEF C
  <1>10. Has(s, name) => Value(s, name) = Found(s)[1][2]
      BY DEF Value, Found
  <1>11. Has(s, name) <=> Found(s) # <<>>
      BY DEF Has, Found
  <1>12. Len(Found(s)) <= 1
      BY DEF Found
  <1> QED  BY <1>1, <1>8, <1>9, <1>10, <1>11, <1>12

\* One value that is assigned is the value, and nothing else changes.
LEMMA Assigned ==
    ASSUME NEW o \in Seq(Entry), NEW name \in AnyName, NEW v \in AnyValue
    PROVE  LET p == Assign(o, name, v)
           IN /\ p \in Seq(Entry)
              /\ \A e : e[1] # name => (e \in ToSet(p) <=> e \in ToSet(o))
              /\ \E e \in ToSet(p) : e[1] = name
              /\ \A e \in ToSet(p) : e[1] = name => e[2] = <<v>>
  <1> DEFINE p == Assign(o, name, v)
             d == <<name, <<v>> >>
  <1>1. d \in Entry /\ d[1] = name /\ d[2] = <<v>>
    <2>1. <<v>> \in Seq(AnyValue)
        OBVIOUS
    <2> QED  BY <2>1, LowerIs DEF Entry
  <1>2. p = IF IsIn(o, name) THEN [i \in DOMAIN o |-> IF o[i][1] = name THEN d ELSE o[i]]
                             ELSE Append(o, d)
      BY DEF Assign
  <1>3. IsIn(o, name) <=> \E e \in ToSet(o) : e[1] = name
      BY DEF IsIn, ToSet
  <1> HIDE DEF p, d
  <1>4. CASE IsIn(o, name)
    <2>1. /\ p = [i \in DOMAIN o |-> p[i]]
          /\ \A i \in DOMAIN o : p[i] = IF o[i][1] = name THEN d ELSE o[i]
        BY <1>2, <1>4
    <2>2. \A i \in DOMAIN o : IF o[i][1] = name THEN p[i] \in Entry /\ p[i][1] = name
                                                ELSE p[i] = o[i]
        BY <1>1, <2>1
    <2>3. /\ p \in Seq(Entry)
          /\ \A e : e[1] # name => (e \in ToSet(p) <=> e \in ToSet(o))
          /\ (\E e \in ToSet(o) : e[1] = name) => \E e \in ToSet(p) : e[1] = name
      <3>1. \A i \in DOMAIN o : o[i] \in Entry
          OBVIOUS
      <3>2. p \in Seq(Entry)
          BY <2>1, <2>2, <3>1, PutTyped
      <3>3. \A i \in DOMAIN o : IF o[i][1] = name THEN p[i][1] = name ELSE p[i] = o[i]
          BY <2>2
      <3> QED  BY <2>1, <3>2, <3>3, PutMembers
    <2>4. DOMAIN p = DOMAIN o
        BY <2>1
    <2>5. \A e \in ToSet(p) : e[1] = name => e[2] = <<v>>
      <3>1. ASSUME NEW i \in DOMAIN o, p[i][1] = name
            PROVE  p[i][2] = <<v>>
          BY <1>1, <2>1, <3>1
      <3> QED  BY <2>4, <3>1 DEF ToSet
    <2> QED  BY <1>3, <1>4, <2>3, <2>5 DEF p
  <1>5. CASE ~IsIn(o, name)
    <2>1. p = Append(o, d)
        BY <1>2, <1>5
    <2>2. p \in Seq(Entry) /\ ToSet(p) = ToSet(o) \cup {d}
        BY <1>1, <2>1, MembersOf
    <2> QED  BY <1>1, <1>3, <1>5, <2>2 DEF p
  <1> QED  BY <1>4, <1>5

\* The same of the headers made of the object.
LEMMA AssignedRaw ==
    ASSUME NEW o \in Seq(Entry), NEW name \in AnyName, NEW v \in AnyValue
    PROVE  LET p == Assign(o, name, v)
           IN /\ p \in Seq(Entry) /\ ToRaw(p) \in Seq(AnyHeader)
              /\ Has(ToRaw(p), name)
              /\ (\A e \in ToSet(o) : Lower(e[1]) = name => e[1] = name) =>
                     \A h \in ToSet(ToRaw(p)) : h[1] = name => h[2] = v
              /\ \A h : h[1] # name => (h \in ToSet(ToRaw(p)) <=> h \in ToSet(ToRaw(o)))
  <1> DEFINE p == Assign(o, name, v)
  <1>1. /\ p \in Seq(Entry)
        /\ \A e : e[1] # name => (e \in ToSet(p) <=> e \in ToSet(o))
        /\ \E e \in ToSet(p) : e[1] = name
        /\ \A e \in ToSet(p) : e[1] = name => e[2] = <<v>>
      BY Assigned
  <1> HIDE DEF p
  <1>2. /\ ToRaw(p) \in Seq(AnyHeader)
        /\ \A h : h \in ToSet(ToRaw(p)) <=>
                   \E e \in ToSet(p) : \E j \in DOMAIN e[2] : h = <<Lower(e[1]), e[2][j]>>
        /\ \A h : h \in ToSet(ToRaw(o)) <=>
                   \E e \in ToSet(o) : \E j \in DOMAIN e[2] : h = <<Lower(e[1]), e[2][j]>>
      BY <1>1, RawMembers
  <1>0. Lower(name) = name
      BY LowerIs
  <1>3. ASSUME \A e \in ToSet(o) : Lower(e[1]) = name => e[1] = name
        PROVE  \A h \in ToSet(ToRaw(p)) : h[1] = name => h[2] = v
    <2>0. \A e \in ToSet(p) : Lower(e[1]) = name => e[1] = name
        BY <1>1, <1>3
    <2>1. ASSUME NEW e \in ToSet(p), NEW j \in DOMAIN e[2], Lower(e[1]) = name
          PROVE  e[2][j] = v
      <3>1. e[2] = <<v>>
          BY <1>1, <2>0, <2>1
      <3> QED  BY <3>1
    <2> QED  BY <1>2, <2>1
  <1>4. <<name, v>> \in ToSet(ToRaw(p))
    <2>1. PICK e \in ToSet(p) : e[1] = name
        BY <1>1
    <2>2. e[2] = <<v>>
        BY <1>1, <2>1
    <2>3. 1 \in DOMAIN e[2] /\ e[2][1] = v
        BY <2>2
    <2>4. <<Lower(e[1]), e[2][1]>> \in ToSet(ToRaw(p))
        BY <1>2, <2>1, <2>3
    <2> QED  BY <1>0, <2>1, <2>3, <2>4
  <1>5. Has(ToRaw(p), name)
      BY <1>2, <1>4, FoundMembers
  <1>6. ASSUME NEW h, h[1] # name
        PROVE  h \in ToSet(ToRaw(p)) <=> h \in ToSet(ToRaw(o))
    <2>1. \A e, j : h = <<Lower(e[1]), e[2][j]>> => e[1] # name
        BY <1>0, <1>6
    <2> QED  BY <1>1, <1>2, <2>1
  <1> QED  BY <1>1, <1>2, <1>3, <1>5, <1>6 DEF p

-----------------------------------------------------------------------------
(* Framing *)

Lengths == {"1", "2"}

LEMMA Literals ==
    /\ {"host", "content-length", "transfer-encoding"} \subseteq AnyName
    /\ Lengths \cup {"target", "chunked"} \subseteq AnyValue
    /\ \A v \in AnyValue : v # Undefined
  BY UndefinedIsNoValue DEF AnyName, OwnName, AnyValue, Lengths

\* No other length is enough.
LEMMA FramedIfAll ==
    ASSUME NEW r \in Seq(AnyHeader), NEW length,
           \A h \in ToSet(r) : h[1] = "content-length" => h[2] = length
    PROVE  Framed(r, length)
  <1> DEFINE f == FindAll(r, "content-length")
  <1>1. ToSet(f) = {h \in ToSet(r) : h[1] = "content-length"}
      BY FoundMembers
  <1> HIDE DEF f
  <1>2. \A i \in DOMAIN f : f[i][2] = length
    <2>1. \A i \in DOMAIN f : f[i] \in ToSet(f)
        BY DEF ToSet
    <2> QED  BY <1>1, <2>1
  <1> QED  BY <1>2 DEF Framed, f

\* A name that occurs at most once has one value.
LEMMA OneValue ==
    ASSUME NEW r \in Seq(AnyHeader), NEW name, Len(FindAll(r, name)) <= 1
    PROVE  \A h \in ToSet(r) : h[1] = name => h[2] = Value(r, name)
  <1> DEFINE f == FindAll(r, name)
  <1>1. f \in Seq(AnyHeader) /\ ToSet(f) = {h \in ToSet(r) : h[1] = name}
      BY FindAllFilters, FoundMembers
  <1>2. Len(f) <= 1
      OBVIOUS
  <1>3. f # <<>> => Value(r, name) = f[1][2]
      BY DEF Value, Has
  <1> HIDE DEF f
  <1>4. SUFFICES ASSUME NEW h \in ToSet(f)
                 PROVE  h[2] = Value(r, name)
      BY <1>1
  <1>5. PICK i \in DOMAIN f : h = f[i]
      BY DEF ToSet
  <1>6. i = 1 /\ f # <<>>
    <2>1. DOMAIN f = 1..Len(f) /\ Len(f) \in Nat
        BY <1>1
    <2>2. f # <<>>
        BY <1>5
    <2> DEFINE n == Len(f)
    <2>3. n \in Nat /\ n <= 1 /\ i \in 1..n
        BY <1>2, <1>5, <2>1
    <2> HIDE DEF n
    <2> QED  BY <2>2, <2>3
  <1> QED  BY <1>3, <1>5, <1>6

LEMMA OneElement ==
    ASSUME NEW H, NEW s \in Seq(H), Len(s) = 1
    PROVE  s = <<s[1]>> /\ s[1] \in H /\ s[1] \in ToSet(s)
  <1>1. 1 \in DOMAIN s /\ s[1] \in H
      OBVIOUS
  <1>2. <<s[1]>> \in Seq(H) /\ Len(<<s[1]>>) = 1 /\ <<s[1]>>[1] = s[1]
      BY <1>1
  <1>3. s = <<s[1]>>
      BY <1>2, SeqEqual
  <1> QED  BY <1>1, <1>3 DEF ToSet

\* A length that is set is the length.
LEMMA SetLengthFrames ==
    ASSUME NEW r \in Seq(AnyHeader), Len(FindAll(r, "content-length")) <= 1, NEW length \in Lengths
    PROVE  Framed(SetLength(r, length), length) /\ Has(SetLength(r, length), "content-length")
  <1> DEFINE e == <<"content-length", <<length>> >>
             s == UpdateRaw(r, <<e>>)
             k == RemoveName(r, "content-length")
             t == ToRaw(<<e>>)
  <1>1. /\ e \in Entry /\ e[2] = <<length>>
        /\ e[1] = "content-length" /\ Lower(e[1]) = "content-length"
    <2>1. <<length>> \in Seq(AnyValue)
        BY Literals
    <2> QED  BY <2>1, Literals, LowerIs DEF Entry
  <1>2. SetLength(r, length) = s
      BY Literals DEF SetLength
  <1> HIDE DEF e
  <1>3. s = k \o t /\ s \in Seq(AnyHeader) /\ k \in Seq(AnyHeader) /\ t \in Seq(AnyHeader)
      BY <1>1, UpdateParts
  <1>4. FindAll(k, "content-length") = <<>>
      BY RemovedOnce
  <1>5. ToSet(t) = {<<Lower(e[1]), e[2][j]>> : j \in DOMAIN e[2]}
      BY <1>1, OneEntry
  <1> HIDE DEF s, k, t
  <1>6. ToSet(t) = {<<"content-length", length>>}
    <2>1. DOMAIN e[2] = {1} /\ e[2][1] = length
        BY <1>1
    <2> QED  BY <1>1, <1>5, <2>1
  <1>7. \A h \in ToSet(k) : h[1] # "content-length"
      BY <1>3, <1>4, FoundMembers DEF Has
  <1>8. ToSet(s) = ToSet(k) \cup ToSet(t)
      BY <1>3, MembersOf
  <1>9. \A h \in ToSet(s) : h[1] = "content-length" => h[2] = length
      BY <1>6, <1>7, <1>8
  <1>10. Has(s, "content-length")
    <2>1. <<"content-length", length>> \in ToSet(s)
        BY <1>6, <1>8
    <2>2. \E h \in ToSet(s) : h[1] = "content-length"
        BY <2>1
    <2> QED  BY <1>3, <2>2, FoundMembers
  <1> QED  BY <1>2, <1>3, <1>9, <1>10, FramedIfAll

\* The length that headers need frames them, if what was found of them is so.
LEMMA LengthFrames ==
    ASSUME NEW r \in Seq(AnyHeader), Len(FindAll(r, "content-length")) <= 1, NEW length \in Lengths,
           NEW coding, coding = "chunked" => Chunked(r),
           NEW present, present = length => Value(r, "content-length") = length
    PROVE  LET s == SetLength(r, RequestLength(length, coding, present))
           IN Framed(s, length) /\ (Chunked(s) \/ Has(s, "content-length"))
  <1> DEFINE s == SetLength(r, RequestLength(length, coding, present))
  <1>1. CASE coding = "chunked"
    <2>1. s = r
        BY <1>1 DEF SetLength, RequestLength
    <2> QED  BY <1>1, <2>1 DEF Framed
  <1>2. CASE coding # "chunked" /\ present = length
    <2>1. s = r
        BY <1>2 DEF SetLength, RequestLength
    <2>2. Has(r, "content-length")
        BY <1>2, Literals, ValueOf
    <2>3. Framed(r, length)
        BY <1>2, OneValue, FramedIfAll
    <2> QED  BY <2>1, <2>2, <2>3
  <1>3. CASE coding # "chunked" /\ present # length
    <2>1. RequestLength(length, coding, present) = length
        BY <1>3 DEF RequestLength
    <2> QED  BY <2>1, SetLengthFrames
  <1> QED  BY <1>1, <1>2, <1>3

LEMMA FramedOnceFacts ==
    ASSUME NEW raw \in SaneSample
    PROVE  /\ raw \in RawSample /\ raw \in Seq(AnyHeader)
           /\ Len(FindAll(raw, "content-length")) <= 1
           /\ Len(FindAll(raw, "transfer-encoding")) <= 1
           /\ ~(Has(raw, "content-length") /\ Has(raw, "transfer-encoding"))
  <1> DEFINE f == FindAll(raw, "content-length")
             g == FindAll(raw, "transfer-encoding")
             m == Len(f)
             n == Len(g)
  <1>1. raw \in RawSample /\ raw \in Seq(AnyHeader) /\ m + n <= 1
      BY SamplesAreMessages DEF SaneSample, FramedOnce
  <1>2. f \in Seq(AnyHeader) /\ g \in Seq(AnyHeader)
      BY <1>1, FindAllFilters
  <1> HIDE DEF f, g
  <1>3. m \in Nat /\ n \in Nat /\ (f # <<>> => m # 0) /\ (g # <<>> => n # 0)
      BY <1>2, EmptySeq
  <1> HIDE DEF m, n
  <1>4. m <= 1 /\ n <= 1 /\ (m = 0 \/ n = 0)
      BY <1>1, <1>3
  <1> QED  BY <1>1, <1>3, <1>4 DEF Has, f, g, m, n

\* What is found in an object is among its headers.
LEMMA GivenIsRaw ==
    ASSUME NEW o \in Seq(Entry), NEW name \in AnyName, GivenValue(o, name) # Undefined
    PROVE  GivenValue(o, name) \in AnyValue /\ <<name, GivenValue(o, name)>> \in ToSet(ToRaw(o))
  <1> DEFINE Is(i) == o[i][1] = name /\ o[i][2] # <<>>
             i == CHOOSE k \in DOMAIN o : Is(k)
             e == o[i]
  <1>1. (\E k \in DOMAIN o : Is(k)) /\ GivenValue(o, name) = e[2][1]
      BY Zenon DEF GivenValue
  <1>2. i \in DOMAIN o /\ e[1] = name /\ e[2] # <<>>
      BY <1>1, Zenon
  <1> HIDE DEF i
  <1>3. e \in Entry /\ e \in ToSet(o)
      BY <1>2 DEF ToSet
  <1> HIDE DEF e
  <1>4. e[2] \in Seq(AnyValue)
      BY <1>3 DEF Entry
  <1>5. 1 \in DOMAIN e[2] /\ e[2][1] \in AnyValue
      BY <1>2, <1>4
  <1>6. <<Lower(e[1]), e[2][1]>> \in ToSet(ToRaw(o))
      BY <1>3, <1>5, RawMembers
  <1>7. Lower(e[1]) = name
      BY <1>2, LowerIs
  <1> QED  BY <1>1, <1>5, <1>6, <1>7

\* What headers of a name have become, when a change neither reframes nor misses a length.
\* A name of framing is given one value, which is all that is left of it.
LEMMA GivenFraming ==
    ASSUME NEW object \in ObjectSample, NEW kind \in Changes, kind # "none", ~Reframes(kind, object),
           NEW name \in {"content-length", "transfer-encoding"}, Lower(object[1][1]) = name
    PROVE  LET t == ToRaw(object)
           IN /\ Len(FindAll(t, name)) = 1
              /\ Value(t, name) = object[1][2][1] /\ Value(t, name) # Undefined
              /\ object[1][1] = name => GivenValue(object, name) = Value(t, name)
  <1> DEFINE e == object[1]
             t == ToRaw(object)
  <1>1. e \in Entry /\ object = <<e>> /\ Len(e[2]) = 1 /\ e[2] = <<e[2][1]>>
      BY SampleObject DEF Reframes
  <1>2. Lower(e[1]) = name
      OBVIOUS
  <1>3. object[1][1] = name => GivenValue(object, name) = e[2][1]
    <2>1. DOMAIN object = {1} /\ e[2] # <<>>
        BY <1>1
    <2> QED  BY <2>1 DEF GivenValue
  <1>4. t \in Seq(AnyHeader) /\ Len(t) = 1 /\ ToSet(t) = {<<Lower(e[1]), e[2][j]>> : j \in DOMAIN e[2]}
    <2> HIDE DEF e
    <2>1. /\ ToRaw(<<e>>) \in Seq(AnyHeader) /\ Len(ToRaw(<<e>>)) = Len(e[2])
          /\ ToSet(ToRaw(<<e>>)) = {<<Lower(e[1]), e[2][j]>> : j \in DOMAIN e[2]}
        BY <1>1, OneEntry
    <2> QED  BY <1>1, <2>1
  <1> HIDE DEF t, e
  <1>5. t = <<t[1]>> /\ t[1] \in AnyHeader /\ t[1] \in ToSet(t)
      BY <1>4, OneElement
  <1>6. t[1][1] = name /\ t[1][2] = e[2][1]
    <2>1. DOMAIN e[2] = {1}
        BY <1>1
    <2> QED  BY <1>2, <1>4, <1>5, <2>1
  <1>7. FindAll(<<t[1]>>, name) = <<t[1]>>
      BY <1>5, <1>6, OneHeader
  <1>8. FindAll(t, name) = t
      BY <1>5, <1>7
  <1>9. Len(FindAll(t, name)) = 1
      BY <1>4, <1>8
  <1>10. Has(t, name)
      BY <1>4, <1>5, <1>6, FoundMembers
  <1>11. Value(t, name) = e[2][1] /\ Value(t, name) # Undefined
    <2>1. Value(t, name) = FindAll(t, name)[1][2]
        BY <1>10 DEF Value
    <2>2. Value(t, name) # Undefined
        BY <1>4, <1>10, ValueOf
    <2> QED  BY <1>6, <1>8, <2>1, <2>2
  <1> QED  BY <1>3, <1>9, <1>11 DEF t, e

\* What a change that does not reframe does to the framing headers.
LEMMA SaneChange ==
    ASSUME NEW raw \in SaneSample, NEW kind \in Changes, NEW object \in ObjectSample,
           ~Reframes(kind, object)
    PROVE  LET c == Change(raw, kind, object)
               t == ToRaw(object)
               name == Lower(object[1][1])
           IN /\ c \in Seq(AnyHeader)
              /\ \A framing \in {"content-length", "transfer-encoding"} :
                     /\ Len(FindAll(c, framing)) <= 1
                     /\ kind # "none" /\ name = framing => FindAll(c, framing) = FindAll(t, framing)
              /\ kind = "none" => c = raw
              /\ kind = "update" => \A other : other # name => FindAll(c, other) = FindAll(raw, other)
              /\ kind = "replace" => c = t /\ \A other : other # name => FindAll(c, other) = <<>>
              /\ kind # "none" /\ name = "transfer-encoding" => Chunked(c)
  <1> DEFINE e == object[1]
             name == Lower(e[1])
             t == ToRaw(object)
             u == UpdateRaw(raw, object)
             k == RemoveName(raw, name)
             c == Change(raw, kind, object)
             Framing == {"content-length", "transfer-encoding"}
  <1>1. /\ raw \in Seq(AnyHeader)
        /\ \A framing \in Framing : Len(FindAll(raw, framing)) <= 1
      BY FramedOnceFacts
  <1>2. e \in Entry /\ object = <<e>>
      BY SampleObject
  <1>3. kind # "none" => \A framing \in Framing :
            framing = name => Len(FindAll(t, framing)) = 1
      BY GivenFraming
  <1>4. kind # "none" /\ name = "transfer-encoding" => Chunked(t)
      BY DEF Reframes
  <1> HIDE DEF e
  <1>5. /\ u = k \o t /\ u \in Seq(AnyHeader) /\ k \in Seq(AnyHeader) /\ t \in Seq(AnyHeader)
        /\ \A other : other # name => FindAll(t, other) = <<>>
        /\ \A other : other # name => FindAll(u, other) = FindAll(raw, other)
      BY <1>1, <1>2, UpdateParts
  <1>6. c = IF kind = "none" THEN raw ELSE IF kind = "update" THEN u ELSE t
      BY DEF Change, Changes
  <1>7. ASSUME NEW framing \in Framing, framing = name
        PROVE  FindAll(u, framing) = FindAll(t, framing)
    <2>1. Len(FindAll(raw, framing)) <= 1
        BY <1>1
    <2>2. FindAll(k, framing) = <<>>
        BY <1>1, <1>7, <2>1, RemovedOnce
    <2>3. FindAll(u, framing) = FindAll(k, framing) \o FindAll(t, framing)
        BY <1>5, FoundConcat
    <2>4. FindAll(t, framing) \in Seq(AnyHeader)
        BY <1>5, FindAllFilters
    <2>5. <<>> \o FindAll(t, framing) = FindAll(t, framing)
        BY <2>4, ConcatEmptySeq
    <2> QED  BY <2>2, <2>3, <2>5
  <1>8. Len(<<>>) <= 1
      OBVIOUS
  <1> HIDE DEF c, t, u, k, name
  <1>9. ASSUME NEW framing \in Framing
        PROVE  /\ Len(FindAll(c, framing)) <= 1
               /\ kind # "none" /\ name = framing => FindAll(c, framing) = FindAll(t, framing)
    <2>1. CASE kind = "none"
        BY <1>1, <1>6, <2>1
    <2>2. CASE kind # "none" /\ framing = name
      <3>1. FindAll(c, framing) = FindAll(t, framing)
          BY <1>6, <1>7, <2>2
      <3> DEFINE n == Len(FindAll(t, framing))
      <3>2. n = 1
          BY <1>3, <2>2
      <3> HIDE DEF n
      <3>3. n <= 1
          BY <3>2
      <3> QED  BY <3>1, <3>3 DEF n
    <2>3. CASE kind # "none" /\ framing # name
      <3>1. FindAll(t, framing) = <<>> /\ FindAll(u, framing) = FindAll(raw, framing)
          BY <1>5, <2>3
      <3>2. FindAll(c, framing) = FindAll(raw, framing) \/ FindAll(c, framing) = <<>>
          BY <1>6, <2>3, <3>1
      <3> QED  BY <1>1, <1>8, <2>3, <3>2
    <2> QED  BY <2>1, <2>2, <2>3
  <1>10. kind # "none" /\ name = "transfer-encoding" => Chunked(c)
    <2>1. ASSUME kind # "none", name = "transfer-encoding"
          PROVE  FindAll(c, "transfer-encoding") = FindAll(t, "transfer-encoding")
        BY <1>9, <2>1
    <2> QED  BY <1>4, <2>1 DEF Chunked, Value, Has
  <1>11. /\ c \in Seq(AnyHeader)
         /\ kind = "none" => c = raw
         /\ kind = "update" => \A other : other # name => FindAll(c, other) = FindAll(raw, other)
         /\ kind = "replace" => c = t /\ \A other : other # name => FindAll(c, other) = <<>>
      BY <1>1, <1>5, <1>6
  <1> QED  BY <1>9, <1>10, <1>11 DEF c, t, name, e

\* What a length is derived from is so of the changed headers.
LEMMA FramingFound ==
    ASSUME NEW raw \in SaneSample, NEW kind \in Changes, NEW object \in ObjectSample,
           ~Reframes(kind, object), ~MissedLength(kind, object),
           NEW framing, "content-length" \in framing
    PROVE  LET c == Change(raw, kind, object)
               Found(name) == FramingValue(raw, kind, object, framing, name)
           IN /\ Found("content-length") = Value(c, "content-length")
              /\ Found("transfer-encoding") = "chunked" => Chunked(c)
  <1> DEFINE c == Change(raw, kind, object)
             t == ToRaw(object)
             name == Lower(object[1][1])
             Found(n) == FramingValue(raw, kind, object, framing, n)
             InObject(n) == GivenValue(object, n)
  <1>1. /\ c \in Seq(AnyHeader)
        /\ kind = "none" => c = raw
        /\ kind = "update" => \A other : other # name => FindAll(c, other) = FindAll(raw, other)
        /\ kind = "replace" => c = t /\ \A other : other # name => FindAll(c, other) = <<>>
        /\ kind # "none" /\ name = "transfer-encoding" => Chunked(c)
      BY SaneChange
  <1>2. ASSUME kind # "none", name = "content-length"
        PROVE  InObject("content-length") = Value(t, "content-length") /\ InObject("content-length") # Undefined
    <2>1. object[1][1] = "content-length"
        BY <1>2 DEF MissedLength
    <2> QED  BY <1>2, <2>1, GivenFraming
  <1>3. CASE kind = "none"
    <2>1. \A n : Found(n) = Value(c, n)
        BY <1>1, <1>3 DEF FramingValue
    <2> QED  BY <2>1 DEF Chunked
  <1>4. CASE kind = "update" /\ \E n \in framing : InObject(n) # Undefined
    <2>1. c = UpdateRaw(raw, object)
        BY <1>4 DEF Change
    <2>2. \A n : Found(n) = Value(c, n)
        BY <1>4, <2>1 DEF FramingValue
    <2> QED  BY <2>2 DEF Chunked
  <1>5. CASE kind = "update" /\ \A n \in framing : InObject(n) = Undefined
    <2>1. \A n : Found(n) = Value(raw, n)
        BY <1>5 DEF FramingValue
    <2>2. name # "content-length"
        BY <1>2, <1>5
    <2> HIDE DEF name, c, Found
    <2>3. FindAll(c, "content-length") = FindAll(raw, "content-length")
        BY <1>1, <1>5, <2>2
    <2>4. Found("content-length") = Value(c, "content-length")
        BY <2>1, <2>3 DEF Value, Has
    <2>5. CASE name = "transfer-encoding"
      <3>1. Chunked(c)
          BY <1>1, <1>5, <2>5
      <3> QED  BY <2>4, <3>1 DEF c, Found
    <2>6. CASE name # "transfer-encoding"
      <3>1. FindAll(c, "transfer-encoding") = FindAll(raw, "transfer-encoding")
          BY <1>1, <1>5, <2>6
      <3>2. Value(c, "transfer-encoding") = Value(raw, "transfer-encoding")
          BY <3>1 DEF Value, Has
      <3>3. Found("transfer-encoding") = "chunked" => Chunked(c)
          BY <2>1, <3>2 DEF Chunked
      <3> QED  BY <2>4, <3>3 DEF c, Found
    <2> QED  BY <2>5, <2>6 DEF c, Found
  <1>6. CASE kind = "replace"
    <2>1. \A n : Found(n) = InObject(n)
        BY <1>6 DEF FramingValue
    <2>2. object \in Seq(Entry)
      <3> DEFINE e == object[1]
      <3>1. e \in Entry /\ object = <<e>>
          BY SampleObject
      <3> HIDE DEF e
      <3> QED  BY <3>1
    <2>3. \A n \in AnyName : InObject(n) # Undefined => n = name
      <3>1. ASSUME NEW n \in AnyName, InObject(n) # Undefined
            PROVE  n = name
        <4>1. \E i \in DOMAIN object : object[i][1] = n
            BY <3>1 DEF GivenValue
        <4>2. object = <<object[1]>>
            BY SampleObject
        <4>3. DOMAIN object = {1}
            BY <4>2
        <4>4. object[1][1] = n
            BY <4>1, <4>3
        <4> QED  BY <4>4, LowerIs
      <3> QED  BY <3>1
    <2> HIDE DEF name, c, Found, InObject, t
    <2>4. Found("content-length") = Value(c, "content-length")
      <3>1. CASE name = "content-length"
          BY <1>1, <1>2, <1>6, <2>1, <3>1
      <3>2. CASE name # "content-length"
        <4>1. InObject("content-length") = Undefined
            BY <2>3, <3>2, Literals
        <4>2. FindAll(c, "content-length") = <<>>
            BY <1>1, <1>6, <3>2
        <4> QED  BY <2>1, <4>1, <4>2 DEF Value, Has
      <3> QED  BY <3>1, <3>2
    <2>5. Found("transfer-encoding") = "chunked" => Chunked(c)
      <3>1. ASSUME InObject("transfer-encoding") = "chunked"
            PROVE  name = "transfer-encoding"
          BY <2>3, <3>1, Literals DEF Undefined
      <3> QED  BY <1>1, <1>6, <2>1, <3>1
    <2> QED  BY <2>4, <2>5 DEF c, Found
  <1> QED  BY <1>3, <1>4, <1>5, <1>6 DEF Changes

\* The request that a transform sends is framed.
LEMMA TransformFrames ==
    ASSUME NEW raw \in SaneSample, NEW kind \in Changes, NEW object \in ObjectSample,
           ~Reframes(kind, object), ~MissedLength(kind, object), NEW length \in Lengths
    PROVE  LET s == TransformedRequest(raw, kind, object, length)
           IN Framed(s, length) /\ (Chunked(s) \/ Has(s, "content-length"))
  <1> DEFINE c == Change(raw, kind, object)
             framing == {"content-length"} \cup
                        (IF GivenValue(object, "transfer-encoding") = "chunked"
                           THEN {"transfer-encoding"} ELSE {})
             coding == FramingValue(raw, kind, object, framing, "transfer-encoding")
             present == FramingValue(raw, kind, object, framing, "content-length")
             s == TransformedRequest(raw, kind, object, length)
  <1>1. s = SetLength(c, RequestLength(length, coding, present))
      BY Zenon DEF TransformedRequest
  <1>2. "content-length" \in framing
      OBVIOUS
  <1> HIDE DEF framing
  <1>3. present = Value(c, "content-length") /\ (coding = "chunked" => Chunked(c))
      BY <1>2, FramingFound
  <1>4. c \in Seq(AnyHeader) /\ Len(FindAll(c, "content-length")) <= 1
      BY SaneChange
  <1> HIDE DEF c, coding, present, s
  <1> QED  BY <1>1, <1>3, <1>4, LengthFrames DEF s

\* No response has another length.
LEMMA ResponseFrames ==
    ASSUME NEW raw \in SaneSample, NEW kind \in Changes, NEW object \in ObjectSample,
           ~Reframes(kind, object), ~MissedLength(kind, object),
           NEW length \in Lengths, NEW method \in {"GET", "POST"}
    PROVE  Framed(TransformedResponse(raw, kind, object, length, method), length)
  <1> DEFINE c == Change(raw, kind, object)
             framing == {"content-length"}
             coding == FramingValue(raw, kind, object, framing, "transfer-encoding")
             present == FramingValue(raw, kind, object, framing, "content-length")
             s == TransformedResponse(raw, kind, object, length, method)
  <1>1. s = SetLength(c, ResponseLength(length, coding, present, method))
      BY Zenon DEF TransformedResponse
  <1>2. "content-length" \in framing
      OBVIOUS
  <1> HIDE DEF framing
  <1>3. present = Value(c, "content-length") /\ (coding = "chunked" => Chunked(c))
      BY <1>2, FramingFound
  <1>4. c \in Seq(AnyHeader) /\ Len(FindAll(c, "content-length")) <= 1
      BY SaneChange
  <1> HIDE DEF c, coding, present, s
  <1>5. CASE present = Undefined
    <2>1. s = c
        BY <1>1, <1>5 DEF ResponseLength, SetLength
    <2>2. ~Has(c, "content-length")
        BY <1>3, <1>4, <1>5, ValueOf
    <2>3. \A h \in ToSet(c) : h[1] # "content-length"
        BY <1>4, <2>2, FoundMembers
    <2> QED  BY <1>4, <2>1, <2>3, FramedIfAll DEF s
  <1>6. CASE present # Undefined
    <2>1. s = SetLength(c, RequestLength(length, coding, present))
        BY <1>1, <1>6 DEF ResponseLength
    <2> QED  BY <1>3, <1>4, <2>1, LengthFrames DEF s
  <1> QED  BY <1>5, <1>6

\* Headers of which the framing ones have one value each, and the length that they need.
LEMMA CallFrames ==
    ASSUME NEW o \in Seq(Entry), NEW length \in Lengths,
           \A e \in ToSet(o) : Lower(e[1]) = "content-length" => e[1] = "content-length",
           NEW coding, coding = "chunked" => Chunked(ToRaw(o)),
           NEW present,
           present = length =>
               /\ Has(ToRaw(o), "content-length")
               /\ \A h \in ToSet(ToRaw(o)) : h[1] = "content-length" => h[2] = length
    PROVE  LET needed == RequestLength(length, coding, present)
               s == ToRaw(IF needed = Undefined THEN o ELSE Assign(o, "content-length", needed))
           IN Framed(s, length) /\ (Chunked(s) \/ Has(s, "content-length"))
  <1> DEFINE needed == RequestLength(length, coding, present)
             p == IF needed = Undefined THEN o ELSE Assign(o, "content-length", needed)
             s == ToRaw(p)
  <1>1. length \in AnyValue /\ length # Undefined /\ "content-length" \in AnyName
      BY Literals
  <1>2. CASE coding = "chunked"
    <2>1. s = ToRaw(o)
        BY <1>2 DEF RequestLength
    <2> QED  BY <1>2, <2>1 DEF Framed
  <1>3. CASE coding # "chunked" /\ present = length
    <2>1. s = ToRaw(o)
        BY <1>3 DEF RequestLength
    <2>2. ToRaw(o) \in Seq(AnyHeader)
        BY RawMembers
    <2>3. Framed(ToRaw(o), length)
        BY <1>3, <2>2, FramedIfAll
    <2> QED  BY <1>3, <2>1, <2>3
  <1>4. CASE coding # "chunked" /\ present # length
    <2>1. needed = length
        BY <1>4 DEF RequestLength
    <2>2. p = Assign(o, "content-length", length)
        BY <1>1, <2>1
    <2> HIDE DEF needed, p
    <2>3. /\ s \in Seq(AnyHeader) /\ Has(s, "content-length")
          /\ \A h \in ToSet(s) : h[1] = "content-length" => h[2] = length
        BY <1>1, <2>2, AssignedRaw
    <2> HIDE DEF s
    <2>4. Framed(s, length) /\ Has(s, "content-length")
        BY <2>3, FramedIfAll
    <2> QED  BY <2>4 DEF s, p, needed
  <1> QED  BY <1>2, <1>3, <1>4

\* And so do the headers made of the object.
LEMMA CollectedRaw ==
    ASSUME NEW s \in Seq(AnyHeader), NEW name, Len(FindAll(s, name)) <= 1
    PROVE  LET r == ToRaw(ToObject(s))
           IN /\ ToObject(s) \in Seq(Entry)
              /\ \A e \in ToSet(ToObject(s)) : Lower(e[1]) = e[1]
              /\ Has(s, name) => \E h \in ToSet(r) : h[1] = name
              /\ \A h \in ToSet(r) : h[1] = name => h[2] = Value(s, name)
  <1> DEFINE o == ToObject(s)
             r == ToRaw(o)
             v == Value(s, name)
  <1>1. /\ o \in Seq(PlainEntry)
        /\ Has(s, name) => \E e \in ToSet(o) : e[1] = name
        /\ \A e \in ToSet(o) : e[1] = name => e[2] = <<v>>
      BY Collected
  <1> HIDE DEF o, v
  <1>0. o \in Seq(Entry) /\ \A e \in ToSet(o) : Lower(e[1]) = e[1]
    <2>1. \A e \in ToSet(o) : e \in PlainEntry
        BY <1>1 DEF ToSet
    <2> QED  BY <1>1, <2>1, PlainIsEntry, LowerIs DEF PlainEntry
  <1>2. \A h : h \in ToSet(r) <=> \E e \in ToSet(o) : \E j \in DOMAIN e[2] : h = <<Lower(e[1]), e[2][j]>>
      BY <1>0, RawMembers
  <1> HIDE DEF r
  <1>3. ASSUME Has(s, name)
        PROVE  \E h \in ToSet(r) : h[1] = name
    <2>1. PICK e \in ToSet(o) : e[1] = name
        BY <1>1, <1>3
    <2>2. e[2] = <<v>>
        BY <1>1, <2>1
    <2>3. 1 \in DOMAIN e[2]
        BY <2>2
    <2>4. <<Lower(e[1]), e[2][1]>> \in ToSet(r)
        BY <1>2, <2>3
    <2> QED  BY <1>0, <2>1, <2>4
  <1>4. ASSUME NEW h \in ToSet(r), h[1] = name
        PROVE  h[2] = v
    <2>0. PICK e \in ToSet(o) : \E j \in DOMAIN e[2] : h = <<Lower(e[1]), e[2][j]>>
        BY <1>2
    <2>1. PICK j \in DOMAIN e[2] : h = <<Lower(e[1]), e[2][j]>>
        BY <2>0
    <2>2. e[1] = name /\ h[2] = e[2][j]
        BY <1>0, <1>4, <2>1
    <2>3. e[2] = <<v>>
        BY <1>1, <2>2
    <2>4. e[2][j] = v
        BY <2>1, <2>3
    <2> QED  BY <2>2, <2>4
  <1> QED  BY <1>0, <1>3, <1>4 DEF r, o, v

\* What a callback returned is framed, and has a host.
LEMMA CallbackFrames ==
    ASSUME NEW raw \in SaneSample, NEW kind \in Changes, NEW object \in ObjectSample,
           ~Reframes(kind, object), ~MissedLength(kind, object),
           NEW length \in Lengths, NEW returned,
           returned = IF kind = "none" THEN <<>> ELSE object
    PROVE  LET s == CallbackRequest(raw, returned, "target", length)
           IN Framed(s, length) /\ (Chunked(s) \/ Has(s, "content-length")) /\ Has(s, "host")
  <1> DEFINE headers == IF returned = <<>> THEN ToObject(raw) ELSE returned
             host == UrlLinked(returned, "host", "target")
             linked == Assign(headers, "host", host)
             l == ToRaw(linked)
             Found(name) == IF returned = <<>> THEN Value(raw, name) ELSE GivenValue(linked, name)
             coding == Found("transfer-encoding")
             present == Found("content-length")
             needed == RequestLength(length, coding, present)
             s == ToRaw(IF needed = Undefined THEN linked
                        ELSE Assign(linked, "content-length", needed))
  <1>1. CallbackRequest(raw, returned, "target", length) = s
      BY Zenon DEF CallbackRequest
  <1>2. /\ raw \in Seq(AnyHeader) /\ Len(FindAll(raw, "content-length")) <= 1
        /\ Len(FindAll(raw, "transfer-encoding")) <= 1
      BY FramedOnceFacts
  <1>3. /\ "host" \in AnyName /\ "content-length" \in AnyName /\ "target" \in AnyValue
        /\ length \in AnyValue /\ length # Undefined
      BY Literals
  <1>4. object \in Seq(Entry) /\ object # <<>>
    <2>1. object[1] \in Entry /\ object = <<object[1]>>
        BY SampleObject
    <2> DEFINE e == object[1]
    <2>2. e \in Entry /\ object = <<e>>
        BY <2>1
    <2> HIDE DEF e
    <2> QED  BY <2>2
  <1>5. returned \in Seq(Entry)
    <2>1. <<>> \in Seq(Entry)
        OBVIOUS
    <2> QED  BY <1>4, <2>1
  <1>6. /\ headers \in Seq(Entry)
        /\ \A e \in ToSet(headers) : Lower(e[1]) = "content-length" => e[1] = "content-length"
    <2>1. CASE returned = <<>>
        BY <1>2, <2>1, CollectedRaw
    <2>2. CASE returned # <<>>
      <3>1. kind # "none" /\ headers = object
          BY <2>2
      <3>2. ToSet(object) = {object[1]}
        <4> DEFINE e == object[1]
        <4>1. object = <<e>>
            BY SampleObject
        <4> HIDE DEF e
        <4>2. ToSet(object) = {e}
            BY <4>1 DEF ToSet
        <4> QED  BY <4>2 DEF e
      <3> HIDE DEF headers
      <3> QED  BY <1>4, <3>1, <3>2 DEF MissedLength
    <2> QED  BY <2>1, <2>2
  <1>7. host \in AnyValue
    <2>1. GivenValue(returned, "host") # Undefined => GivenValue(returned, "host") \in AnyValue
        BY <1>3, <1>5, GivenIsRaw
    <2> QED  BY <1>3, <2>1 DEF UrlLinked
  <1> HIDE DEF host
  <1>8. /\ linked \in Seq(Entry) /\ l \in Seq(AnyHeader) /\ Has(l, "host")
        /\ \A h : h[1] # "host" => (h \in ToSet(l) <=> h \in ToSet(ToRaw(headers)))
      BY <1>3, <1>6, <1>7, AssignedRaw
  <1>12. \A e \in ToSet(linked) : Lower(e[1]) = "content-length" => e[1] = "content-length"
    <2>1. \A e : e[1] # "host" => (e \in ToSet(linked) <=> e \in ToSet(headers))
        BY <1>3, <1>6, <1>7, Assigned
    <2>2. Lower("host") # "content-length"
        BY <1>3, LowerIs
    <2> HIDE DEF linked, headers
    <2> QED  BY <1>6, <2>1, <2>2
  <1> HIDE DEF linked
  <1>9. /\ coding = "chunked" => Chunked(l)
        /\ present = length =>
               /\ Has(l, "content-length")
               /\ \A h \in ToSet(l) : h[1] = "content-length" => h[2] = length
    <2>1. CASE returned = <<>>
      <3>1. /\ coding = Value(raw, "transfer-encoding") /\ present = Value(raw, "content-length")
            /\ headers = ToObject(raw)
          BY <2>1
      <3> HIDE DEF coding, present, headers
      <3>2. /\ Has(raw, "content-length") => \E h \in ToSet(ToRaw(headers)) : h[1] = "content-length"
            /\ \A h \in ToSet(ToRaw(headers)) :
                   h[1] = "content-length" => h[2] = Value(raw, "content-length")
          BY <1>2, <3>1, CollectedRaw
      <3>3. /\ Has(raw, "transfer-encoding") =>
                   \E h \in ToSet(ToRaw(headers)) : h[1] = "transfer-encoding"
            /\ \A h \in ToSet(ToRaw(headers)) :
                   h[1] = "transfer-encoding" => h[2] = Value(raw, "transfer-encoding")
          BY <1>2, <3>1, CollectedRaw
      <3> HIDE DEF l
      <3>4. ASSUME coding = "chunked"
            PROVE  Chunked(l)
        <4>1. Value(raw, "transfer-encoding") = "chunked"
            BY <3>1, <3>4
        <4>2. Has(raw, "transfer-encoding")
            BY <1>2, <4>1, ValueOf DEF Undefined
        <4>3. \E h \in ToSet(l) : h[1] = "transfer-encoding"
            BY <1>8, <3>3, <4>2
        <4>4. Has(l, "transfer-encoding")
            BY <1>8, <4>3, FoundMembers
        <4>5. <<"transfer-encoding", Value(l, "transfer-encoding")>> \in ToSet(l)
            BY <1>8, <4>4, ValueOf
        <4> DEFINE h == <<"transfer-encoding", Value(l, "transfer-encoding")>>
        <4>6. h \in ToSet(l) /\ h[1] = "transfer-encoding" /\ h[2] = Value(l, "transfer-encoding")
            BY <4>5
        <4> HIDE DEF h
        <4>7. h[2] = "chunked"
            BY <1>8, <3>3, <4>1, <4>6
        <4> QED  BY <4>6, <4>7 DEF Chunked
      <3>5. ASSUME present = length
            PROVE  /\ Has(l, "content-length")
                   /\ \A h \in ToSet(l) : h[1] = "content-length" => h[2] = length
        <4>1. Value(raw, "content-length") = length
            BY <3>1, <3>5
        <4>2. Has(raw, "content-length")
            BY <1>2, <1>3, <4>1, ValueOf
        <4>3. \E h \in ToSet(l) : h[1] = "content-length"
            BY <1>8, <3>2, <4>2
        <4>4. Has(l, "content-length")
            BY <1>8, <4>3, FoundMembers
        <4>5. \A h \in ToSet(l) : h[1] = "content-length" => h[2] = length
            BY <1>8, <3>2, <4>1
        <4> QED  BY <4>4, <4>5
      <3> QED  BY <3>4, <3>5
    <2>2. CASE returned # <<>>
      <3>1. /\ coding = GivenValue(linked, "transfer-encoding")
            /\ present = GivenValue(linked, "content-length")
            /\ headers = object /\ kind # "none"
          BY <2>2
      <3> HIDE DEF coding, present, headers
      <3>2. ~Reframes("replace", object) /\ "replace" \in Changes
          BY <3>1 DEF Reframes, Changes
      <3> DEFINE t == ToRaw(object)
                 Framing == {"content-length", "transfer-encoding"}
      <3>3. t \in Seq(AnyHeader) /\ \A framing \in Framing : Len(FindAll(t, framing)) <= 1
        <4> DEFINE c == Change(raw, "replace", object)
        <4>1. c \in Seq(AnyHeader) /\ \A framing \in Framing : Len(FindAll(c, framing)) <= 1
            BY <3>2, SaneChange
        <4>2. c = t
            BY DEF Change
        <4> HIDE DEF c, t
        <4> QED  BY <4>1, <4>2
      <3> HIDE DEF l, t
      <3>4. ASSUME NEW framing \in Framing, GivenValue(linked, framing) # Undefined
            PROVE  /\ Has(l, framing)
                   /\ \A h \in ToSet(l) : h[1] = framing => h[2] = GivenValue(linked, framing)
        <4> DEFINE v == GivenValue(linked, framing)
                   g == <<framing, v>>
        <4>1. framing \in AnyName /\ framing # "host"
            BY Literals
        <4>2. g \in ToSet(l)
            BY <1>8, <3>4, <4>1, GivenIsRaw DEF l
        <4>3. g[1] = framing /\ g[2] = v
            OBVIOUS
        <4> HIDE DEF g, v
        <4>4. Has(l, framing)
            BY <1>8, <4>2, <4>3, FoundMembers
        <4>5. Len(FindAll(t, framing)) <= 1
            BY <3>3
        <4>6. \A h \in ToSet(t) : h[1] = framing => h[2] = Value(t, framing)
            BY <3>3, <4>5, OneValue
        <4>7. \A h \in ToSet(l) : h[1] = framing => h \in ToSet(t)
            BY <1>8, <3>1, <4>1 DEF t
        <4>8. Value(t, framing) = v
            BY <4>2, <4>3, <4>6, <4>7
        <4> QED  BY <4>4, <4>6, <4>7, <4>8 DEF v
      <3>5. ASSUME coding = "chunked"
            PROVE  Chunked(l)
        <4>1. GivenValue(linked, "transfer-encoding") = "chunked"
            BY <3>1, <3>5
        <4>2. /\ Has(l, "transfer-encoding")
              /\ \A h \in ToSet(l) : h[1] = "transfer-encoding" => h[2] = "chunked"
            BY <3>4, <4>1 DEF Undefined
        <4> DEFINE h == <<"transfer-encoding", Value(l, "transfer-encoding")>>
        <4>3. h \in ToSet(l)
            BY <1>8, <4>2, ValueOf
        <4>4. h[1] = "transfer-encoding" /\ h[2] = Value(l, "transfer-encoding")
            OBVIOUS
        <4> HIDE DEF h
        <4> QED  BY <4>2, <4>3, <4>4 DEF Chunked
      <3>6. ASSUME present = length
            PROVE  /\ Has(l, "content-length")
                   /\ \A h \in ToSet(l) : h[1] = "content-length" => h[2] = length
        <4>1. GivenValue(linked, "content-length") = length
            BY <3>1, <3>6
        <4> QED  BY <1>3, <3>4, <4>1
      <3> QED  BY <3>5, <3>6
    <2> QED  BY <2>1, <2>2
  <1> HIDE DEF coding, present
  <1>10. Framed(s, length) /\ (Chunked(s) \/ Has(s, "content-length"))
      BY <1>8, <1>9, <1>12, CallFrames
  <1>11. Has(s, "host")
    <2>1. CASE needed = Undefined
        BY <1>8, <2>1
    <2>2. CASE needed # Undefined
      <3> DEFINE r == ToRaw(Assign(linked, "content-length", length))
      <3>1. needed = length
          BY <2>2 DEF RequestLength
      <3>2. s = r
          BY <1>3, <3>1
      <3>3. /\ r \in Seq(AnyHeader)
            /\ \A h : h[1] # "content-length" => (h \in ToSet(r) <=> h \in ToSet(l))
          BY <1>3, <1>8, AssignedRaw
      <3> HIDE DEF l, r
      <3>4. PICK h \in ToSet(l) : h[1] = "host"
          BY <1>8, FoundMembers
      <3>5. h \in ToSet(r)
          BY <3>3, <3>4
      <3>6. Has(r, "host")
          BY <3>3, <3>4, <3>5, FoundMembers
      <3> HIDE DEF s
      <3> QED  BY <3>2, <3>6
    <2> QED  BY <2>1, <2>2
  <1> QED  BY <1>1, <1>10, <1>11

LEMMA FramingIsRight == FramingMatchesBody
  <1>1. ASSUME NEW raw \in SaneSample, NEW change \in SaneChanges, NEW length \in {"1", "2"}
        PROVE  LET returned == IF change[1] = "none" THEN <<>> ELSE change[2]
                   transformed == TransformedRequest(raw, change[1], change[2], length)
                   called == CallbackRequest(raw, returned, "target", length)
               IN /\ \A r \in {transformed, called} :
                         Framed(r, length) /\ (Chunked(r) \/ Has(r, "content-length"))
                  /\ Has(called, "host")
    <2> DEFINE kind == change[1]
               object == change[2]
               returned == IF kind = "none" THEN <<>> ELSE object
               transformed == TransformedRequest(raw, kind, object, length)
               called == CallbackRequest(raw, returned, "target", length)
    <2>1. /\ kind \in Changes /\ object \in ObjectSample /\ length \in Lengths
          /\ ~Reframes(kind, object) /\ ~MissedLength(kind, object)
        BY DEF SaneChanges, Lengths
    <2> HIDE DEF kind, object
    <2>2. Framed(transformed, length) /\ (Chunked(transformed) \/ Has(transformed, "content-length"))
        BY <2>1, TransformFrames
    <2>3. /\ Framed(called, length) /\ (Chunked(called) \/ Has(called, "content-length"))
          /\ Has(called, "host")
        BY <2>1, CallbackFrames
    <2> HIDE DEF transformed, called
    <2>4. /\ \A r \in {transformed, called} :
                 Framed(r, length) /\ (Chunked(r) \/ Has(r, "content-length"))
          /\ Has(called, "host")
        BY <2>2, <2>3
    <2> QED  BY <2>4, Zenon DEF transformed, called, kind, object
  <1>2. ASSUME NEW raw \in SaneSample, NEW change \in SaneChanges, NEW length \in {"1", "2"},
               NEW method \in {"GET", "POST"}
        PROVE  Framed(TransformedResponse(raw, change[1], change[2], length, method), length)
    <2>1. /\ change[1] \in Changes /\ change[2] \in ObjectSample /\ length \in Lengths
          /\ ~Reframes(change[1], change[2]) /\ ~MissedLength(change[1], change[2])
        BY DEF SaneChanges, Lengths
    <2> QED  BY <2>1, ResponseFrames
  <1>3. RequestsFramed
      BY <1>1, Zenon DEF RequestsFramed
  <1>4. ResponsesFramed
      BY <1>2, Zenon DEF ResponsesFramed
  <1> QED  BY <1>3, <1>4 DEF FramingMatchesBody

LEMMA HeadersAreRight == OthersUntouched /\ FramingMatchesBody
  BY UpdateOverrides, DowngradeKept, UpgradeKept, FramingIsRight DEF OthersUntouched

(***************************************************************************)
(* For any number of headers, with any names and values: updates override  *)
(* and leave other headers alone, translations between HTTP/1 and HTTP/2   *)
(* keep what is not theirs and have what the other version needs, and the  *)
(* framing that is sent matches the body that is sent.                     *)
(***************************************************************************)
THEOREM PassthroughHeadersSurvive == Spec => []HeadersSurvive
  <1>1. HeadersSurvive
    BY HeadersAreRight DEF HeadersSurvive
  <1>2. QED  BY <1>1, PTL

=============================================================================
