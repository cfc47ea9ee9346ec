----------------------------- MODULE MockttpServer -----------------------------
(***************************************************************************)
(* Mock servers with their connections: clients connect to Self while it   *)
(* listens, and stop() destroys their connections.                         *)
(***************************************************************************)
EXTENDS ServerLifecycle, ComboServer

CONSTANT Self  \* the server that clients connect to

vars == <<lifecycleVars, comboVars>>

TypeOK == LifecycleTypeOK /\ ComboTypeOK

Init == LifecycleInit /\ ComboInit

\* Bounds: clients come to the only server of their process, after a start without
\* collisions, and then nobody takes or gives back a port.
Clients == \E c \in Connection : stage[c] # "new"

LifecycleStep ==
    \/ \E s \in Server :
           \/ \E p \in Port : Start(s, TRUE, {p})
           \/ Start(s, FALSE, PortRange)
           \/ Created(s) \/ ListenAtOnce(s) \/ Pick(s) \/ NothingToPick(s) \/ ListenOnPick(s)
    \/ \E p \in Port : ForeignTakes(p) \/ ForeignLeaves(p)

ConnectToSelf(c) ==
    /\ Listens(Self)
    /\ \A s \in Server \ {Self} : starting[s] = "no"
    /\ blamed[Self] = <<>>
    /\ foreign = {}
    /\ Connect(c)

\* The connections of a server that is being stopped are destroyed, and then it is closed.
AllDestroyed(s) == s = Self => \A c \in Connection : stage[c] = "new" \/ left[c]

Finishes(s) ==
    \/ AllDestroyed(s) /\ Closed(s)
    \/ Flushed(s)

Next ==
    \/ ~Clients /\ LifecycleStep /\ UNCHANGED comboVars
    \/ \E s \in Server : (Stop(s) \/ Finishes(s)) /\ UNCHANGED comboVars
    \/ \E c \in Connection :
           (ConnectToSelf(c) \/ ConnectionStep(c) \/ ClosingStep(c)) /\ UNCHANGED lifecycleVars

Spec == Init /\ [][Next]_vars

(***************************************************************************)
(* Clients send the next part of a handshake, or leave; the rest is Node's:*)
(* hellos are read, handshakes end, writes call back, immediates run, what *)
(* was destroyed is closed.                                                *)
(***************************************************************************)
Serve(c) ==
    /\ \/ Handshake(c) \/ ReadHello(c) \/ Secure(c) \/ TlsClientError(c) \/ H1Connected(c)
       \/ AnswerError(c) \/ ErrorAnswered(c)
       \/ upstream[c].state = "destroyed" /\ EndPassthrough(c)
       \/ stopping[Self] = "closing" /\ ClosingStep(c)
    /\ UNCHANGED lifecycleVars

FairSpec ==
    /\ Spec
    /\ \A c \in Connection : WF_vars(Serve(c))
    /\ \A s \in Server : WF_vars(Finishes(s) /\ UNCHANGED comboVars)

-----------------------------------------------------------------------------

InHandshake(c) == stage[c] \in SocksStage \cup {"hello", "handshake", "connect"}

(***************************************************************************)
(* No connection stays in a handshake for ever: its client is refused,     *)
(* handed on or gone, even if it leaves in the middle of a message; only   *)
(* an empty part is awaited for as long as the client stays.  A client     *)
(* error is announced and its socket closed, and so is a passthrough whose *)
(* upstream ended.  And stop() comes to its end whatever state the         *)
(* connections are in.                                                     *)
(***************************************************************************)
ConnectionsSettle ==
    /\ \A c \in Connection :
           /\ InHandshake(c) ~> ~InHandshake(c)
           /\ error[c] = "queued" ~> stage[c] = "gone"
           /\ upstream[c].state = "destroyed" ~> left[c]
    /\ \A s \in Server : stopping[s] = "closing" ~> stopping[s] = "resolved"

=============================================================================
