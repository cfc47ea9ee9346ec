--------------------------- MODULE UpstreamAgents ---------------------------
(***************************************************************************)
(* Which upstream agents belong to a downstream connection (getAgent).     *)
(*                                                                         *)
(* An agent pools connections to upstream servers.  Each downstream        *)
(* connection has its own, made when a request first needs them, shared by *)
(* its requests, and destroyed when the connection emits `close`.  getAgent*)
(* awaits the proxy settings, and for a new proxy agent the trusted CAs,   *)
(* and the connection may go away during either.                           *)
(*                                                                         *)
(* The actions here are parts of a request's steps: Passthrough composes   *)
(* them with the rest of the request.                                      *)
(***************************************************************************)
EXTENDS Integers, Sequences, FiniteSets

CONSTANTS
    Request,       \* requests that are passed through
    Connection,    \* downstream connections: sockets, tunnels or HTTP/2 sessions
    ConnectionOf   \* the connection that each request arrives on

ASSUME ConnectionOfAssumption == ConnectionOf \in [Request -> Connection]

VARIABLES
    protocol,   \* "h1" or "h2" on each connection
    conn,       \* a connection is open, then destroyed, then `close` is emitted
    agents,     \* connection[UpstreamConnectionAgents]: the agents not destroyed
    asking      \* where the getAgent call of each request is

agentVars == <<protocol, conn, agents, asking>>

\* One proxy is configured, if any: its agents differ from all others by their key.
Key == {"http:", "https:", "http2:", "proxy:"}

\* Agents are told apart by the request that they were built for.
Agent == [key : Key, builtFor : Request]

AgentsTypeOK ==
    /\ protocol \in [Connection -> {"h1", "h2"}]
    /\ conn \in [Connection -> {"open", "destroyed", "closed"}]
    /\ agents \in [Connection -> SUBSET Agent]
    /\ asking \in [Request -> {"no", "proxy", "certs", "answered", "refused"}]

AgentsInit ==
    /\ protocol \in [Connection -> {"h1", "h2"}]
    /\ conn = [c \in Connection |-> "open"]
    /\ agents = [c \in Connection |-> {}]
    /\ asking = [q \in Request |-> "no"]

-----------------------------------------------------------------------------

Moves(q, to) == asking' = [asking EXCEPT ![q] = to]

Alive(q) == conn[ConnectionOf[q]] = "open"

Http2(q) == protocol[ConnectionOf[q]] = "h2"

Pooled(q, k) == \E a \in agents[ConnectionOf[q]] : a.key = k

\* Mutant: always a new agent.
Create(q, keys) ==
    agents' = [agents EXCEPT ![ConnectionOf[q]] =
                   @ \cup [key : keys, builtFor : {q}]]

\* getOrCreateConnectionAgent, for one key or for both of an HTTP/2 request.
GetOrCreate(q, keys) ==
    agents' = [agents EXCEPT ![ConnectionOf[q]] =
                   @ \cup [key : {k \in keys : ~Pooled(q, k)}, builtFor : {q}]]

\* Calling getAgent: the proxy settings are awaited.
AskForAgent(q) ==
    /\ asking[q] = "no"
    /\ Moves(q, "proxy")
    /\ UNCHANGED <<protocol, conn, agents>>

\* The connection was destroyed in the meantime: abortForDeadConnection.
Refuse(q) ==
    /\ asking[q] \in {"proxy", "certs"}
    /\ ~Alive(q)
    /\ Moves(q, "refused")
    /\ UNCHANGED <<protocol, agents>>

\* The proxy settings (a callback of the user) or the CAs (files) are not to be had.
AgentFails(q) ==
    /\ asking[q] \in {"proxy", "certs"}
    /\ Moves(q, "refused")
    /\ UNCHANGED <<protocol, conn, agents>>

\* A proxy applies, and this connection has its agent.
ReuseProxyAgent(q) ==
    /\ asking[q] = "proxy"
    /\ Alive(q)
    /\ Pooled(q, "proxy:")
    /\ Moves(q, "answered")
    /\ UNCHANGED <<protocol, conn, agents>>

\* A proxy applies, and its agent needs the trusted CAs.
AwaitCerts(q) ==
    /\ asking[q] = "proxy"
    /\ Alive(q)
    /\ ~Pooled(q, "proxy:")
    /\ Moves(q, "certs")
    /\ UNCHANGED <<protocol, conn, agents>>

\* Mutant: the connection is not checked again after the CAs.
BuildForDeadConnection(q) ==
    /\ asking[q] = "certs"
    /\ GetOrCreate(q, {"proxy:"})
    /\ Moves(q, "answered")
    /\ UNCHANGED <<protocol, conn>>

\* Mutant: the pool is not looked at again after the CAs.
BuildAnotherProxyAgent(q) ==
    /\ asking[q] = "certs"
    /\ Alive(q)
    /\ Create(q, {"proxy:"})
    /\ Moves(q, "answered")
    /\ UNCHANGED <<protocol, conn>>

\* The CAs are there: another request may have built the agent during the await.
BuildProxyAgent(q) ==
    /\ asking[q] = "certs"
    /\ Alive(q)
    /\ GetOrCreate(q, {"proxy:"})
    /\ Moves(q, "answered")
    /\ UNCHANGED <<protocol, conn>>

\* Mutant: a request without a protocol is not taken for a plain one.
AnyDirectKeys(q) ==
    {{"undefined"}, {"http:"}, IF Http2(q) THEN {"https:", "http2:"} ELSE {"https:"}}

\* Only HTTP/2 requests try HTTP/2 upstream, and only over TLS.
DirectKeys(q) ==
    {{"http:"}, IF Http2(q) THEN {"https:", "http2:"} ELSE {"https:"}}

\* Mutant: the connection is not checked after the proxy settings.
UseAnyAgent(q, keys) ==
    /\ asking[q] = "proxy"
    /\ GetOrCreate(q, keys)
    /\ Moves(q, "answered")
    /\ UNCHANGED <<protocol, conn>>

\* No proxy applies.
UseDirectAgent(q, keys) ==
    /\ asking[q] = "proxy"
    /\ Alive(q)
    /\ GetOrCreate(q, keys)
    /\ Moves(q, "answered")
    /\ UNCHANGED <<protocol, conn>>

-----------------------------------------------------------------------------
(* The connection.  `close` is emitted in a turn after destroy(). *)

DestroyConnection(c) ==
    /\ conn[c] = "open"
    /\ conn' = [conn EXCEPT ![c] = "destroyed"]
    /\ UNCHANGED <<protocol, agents, asking>>

\* The `close` listener of getConnectionAgents destroys every agent.
CloseConnection(c) ==
    /\ conn[c] = "destroyed"
    /\ conn' = [conn EXCEPT ![c] = "closed"]
    /\ agents' = [agents EXCEPT ![c] = {}]
    /\ UNCHANGED <<protocol, asking>>

-----------------------------------------------------------------------------
(***************************************************************************)
(* A connection that is gone has no agents, so that upstream connections   *)
(* end with the downstream connection that they were made for: getAgent    *)
(* refuses a connection that was destroyed during its awaits, since nobody *)
(* would clean up after it.                                                *)
(***************************************************************************)
NoAgentOutlivesConnection ==
    \A c \in Connection : conn[c] = "closed" => agents[c] = {}

(***************************************************************************)
(* Requests of a connection share its agents: there are never two for the  *)
(* same upstream protocol or proxy (the second would take the first one's  *)
(* place in the map, and the first would never be destroyed), though two   *)
(* requests may be building one at the same time.                          *)
(***************************************************************************)
OneAgentPerKey ==
    \A c \in Connection : \A a, b \in agents[c] : a.key = b.key => a = b

=============================================================================
