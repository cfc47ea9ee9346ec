--------------------------- MODULE ServerLifecycle ---------------------------
(***************************************************************************)
(* Starting and stopping mock servers: the port they listen on and their   *)
(* TLS key logs (MockttpServer.start and stop).                            *)
(*                                                                         *)
(* The servers are those of one process, which share a mutex.  Ports can   *)
(* also be taken and given back by anybody else, at any time.  A user      *)
(* awaits start() before stop(), and uses a server once.                   *)
(***************************************************************************)
EXTENDS Integers, Sequences, FiniteSets

CONSTANTS
    Server,     \* mock servers of one process
    Port,       \* ports of the machine
    PortRange,  \* a port range to start with
    NoPort,     \* what is no port
    NoServer,   \* what is no server
    MaxRetries  \* bound: collisions of one server

ASSUME PortsAssumption ==
    /\ PortRange \subseteq Port
    /\ MaxRetries \in Nat
    /\ NoPort \notin Port
    /\ NoServer \notin Server

VARIABLES
    starting,  \* where start() is
    fixed,     \* is portParam a number?
    asked,     \* the ports that start() was called with
    bound,     \* the port of this.server: picked, then listened on
    mutex,     \* who holds serverPortCheckMutex
    foreign,   \* ports in use outside of this process
    blamed,    \* who had the port, in each collision
    openLogs,  \* key log streams that were opened and not ended
    stopping   \* where stop() is

lifecycleVars ==
    <<starting, fixed, asked, bound, mutex, foreign, blamed, openLogs, stopping>>

LifecycleTypeOK ==
    /\ starting \in [Server -> {"no", "creating", "unmade", "waiting",
                               "picked", "resolved", "rejected"}]
    /\ fixed \in [Server -> BOOLEAN]
    /\ asked \in [Server -> SUBSET Port]
    /\ bound \in [Server -> Port \cup {NoPort}]
    /\ mutex \in Server \cup {NoServer}
    /\ foreign \subseteq Port
    /\ blamed \in [Server -> Seq({"foreign", "own"})]
    /\ openLogs \in [Server -> 0 .. MaxRetries + 1]
    /\ stopping \in [Server -> {"no", "closing", "flushing", "resolved", "rejected"}]

LifecycleInit ==
    /\ starting = [s \in Server |-> "no"]
    /\ fixed = [s \in Server |-> FALSE]
    /\ asked = [s \in Server |-> {}]
    /\ bound = [s \in Server |-> NoPort]
    /\ mutex = NoServer
    /\ foreign \in SUBSET Port
    /\ blamed = [s \in Server |-> <<>>]
    /\ openLogs = [s \in Server |-> 0]
    /\ stopping = [s \in Server |-> "no"]

-----------------------------------------------------------------------------

Listens(s) == starting[s] = "resolved" /\ stopping[s] = "no"

\* Ports that this process listens on, and all ports in use.
Own == {bound[s] : s \in {x \in Server : Listens(x)}}
InUse == foreign \cup Own

Goes(s, to) == starting' = [starting EXCEPT ![s] = to]

\* portParam: after a collision start() calls itself with the default range.
Allowed(s) == IF blamed[s] = <<>> THEN asked[s] ELSE Port

\* start(): the key log is opened, and the combined server is made, which
\* reads or generates certificates.
Start(s, number, ports) ==
    /\ starting[s] = "no"
    /\ stopping[s] = "no"
    /\ Goes(s, "creating")
    /\ fixed' = [fixed EXCEPT ![s] = number]
    /\ asked' = [asked EXCEPT ![s] = ports]
    /\ openLogs' = [openLogs EXCEPT ![s] = @ + 1]
    /\ UNCHANGED <<bound, mutex, foreign, blamed, stopping>>

\* createComboServer: rejects without a usable CA.
Created(s) ==
    /\ starting[s] = "creating"
    /\ \E to \in {"waiting", "unmade"} : Goes(s, to)
    /\ UNCHANGED <<fixed, asked, bound, mutex, foreign, blamed, openLogs, stopping>>

\* Mutant: a number is retried like a range.
CollideAndRetry(s) ==
    /\ Goes(s, "creating")
    /\ openLogs' = [openLogs EXCEPT ![s] = @ + 1]

\* A collision: start() again, or give up on a number.
\* The key log of the first try is forgotten, not ended.
Collide(s) ==
    IF fixed[s]
      THEN /\ Goes(s, "rejected")
           /\ UNCHANGED openLogs
      ELSE /\ Goes(s, "creating")
           /\ openLogs' = [openLogs EXCEPT ![s] = @ + 1]

\* listen(p) and the event that follows.
Listen(s, p) ==
    /\ \/ /\ p \notin InUse
          /\ bound' = [bound EXCEPT ![s] = p]
          /\ Goes(s, "resolved")
          /\ UNCHANGED <<blamed, openLogs>>
       \/ /\ p \in InUse
          /\ Len(blamed[s]) < MaxRetries
          /\ bound' = [bound EXCEPT ![s] = NoPort]
          /\ blamed' = [blamed EXCEPT ![s] =
                            Append(@, IF p \in foreign THEN "foreign" ELSE "own")]
          /\ Collide(s)
    /\ UNCHANGED <<fixed, asked, foreign, stopping>>

\* In the mutex, a number needs no await.
ListenAtOnce(s) ==
    /\ starting[s] = "waiting"
    /\ fixed[s]
    /\ mutex = NoServer
    /\ \E p \in Allowed(s) : Listen(s, p)
    /\ UNCHANGED mutex

\* Mutant: getPort without the mutex.
PickAnyTime(s) ==
    /\ starting[s] = "waiting"
    /\ ~fixed[s]
    /\ \E p \in Allowed(s) \ InUse : bound' = [bound EXCEPT ![s] = p]
    /\ Goes(s, "picked")
    /\ UNCHANGED <<fixed, asked, mutex, foreign, blamed, openLogs, stopping>>

\* Mutant: the range is not given to getPort.
PickAnyPort(s) ==
    /\ starting[s] = "waiting"
    /\ ~fixed[s]
    /\ mutex = NoServer
    /\ mutex' = s
    /\ \E p \in Port \ InUse : bound' = [bound EXCEPT ![s] = p]
    /\ Goes(s, "picked")
    /\ UNCHANGED <<fixed, asked, foreign, blamed, openLogs, stopping>>

\* In the mutex, getPort tries the ports of the range, then any.
Pick(s) ==
    /\ starting[s] = "waiting"
    /\ ~fixed[s]
    /\ mutex = NoServer
    /\ mutex' = s
    /\ LET free == Allowed(s) \ InUse
       IN  \E p \in IF free = {} THEN Port \ InUse ELSE free :
               bound' = [bound EXCEPT ![s] = p]
    /\ Goes(s, "picked")
    /\ UNCHANGED <<fixed, asked, foreign, blamed, openLogs, stopping>>

\* getPort rejects when there is no free port at all.
NothingToPick(s) ==
    /\ starting[s] = "waiting"
    /\ ~fixed[s]
    /\ mutex = NoServer
    /\ Port \subseteq InUse
    /\ Goes(s, "rejected")
    /\ UNCHANGED <<fixed, asked, bound, mutex, foreign, blamed, openLogs, stopping>>

\* The port is known, in another turn: anybody else may have it by now.
ListenOnPick(s) ==
    /\ starting[s] = "picked"
    /\ mutex' = NoServer
    /\ Listen(s, bound[s])

\* Others take a port, or give it back.
ForeignTakes(p) ==
    /\ p \notin InUse
    /\ foreign' = foreign \cup {p}
    /\ UNCHANGED <<starting, fixed, asked, bound, mutex, blamed, openLogs, stopping>>

ForeignLeaves(p) ==
    /\ p \in foreign
    /\ foreign' = foreign \ {p}
    /\ UNCHANGED <<starting, fixed, asked, bound, mutex, blamed, openLogs, stopping>>

-----------------------------------------------------------------------------

\* stop(): destroy() rejects for a server that does not listen, such as the one that
\* collided, if no other could be made.
Stop(s) ==
    /\ starting[s] \in {"unmade", "resolved", "rejected"}
    /\ stopping[s] = "no"
    /\ stopping' = [stopping EXCEPT ![s] =
                        CASE starting[s] = "resolved" -> "closing"
                          [] starting[s] = "rejected" -> "rejected"
                          [] starting[s] = "unmade"   ->
                                 IF blamed[s] = <<>> THEN "flushing" ELSE "rejected"]
    /\ UNCHANGED <<starting, fixed, asked, bound, mutex, foreign, blamed, openLogs>>

\* Every connection is gone.
Closed(s) ==
    /\ stopping[s] = "closing"
    /\ stopping' = [stopping EXCEPT ![s] = "flushing"]
    /\ bound' = [bound EXCEPT ![s] = NoPort]
    /\ UNCHANGED <<starting, fixed, asked, mutex, foreign, blamed, openLogs>>

\* The current key log has finished, or failed; then reset().
Flushed(s) ==
    /\ stopping[s] = "flushing"
    /\ stopping' = [stopping EXCEPT ![s] = "resolved"]
    /\ openLogs' = [openLogs EXCEPT ![s] = @ - 1]
    /\ UNCHANGED <<starting, fixed, asked, bound, mutex, foreign, blamed>>

-----------------------------------------------------------------------------
(***************************************************************************)
(* Servers of one process that start at the same time do not get in each   *)
(* other's way: a server that looks for a free port collides with others   *)
(* only, as picking a port and listening on it are under one mutex.        *)
(***************************************************************************)
SearchesDoNotClash ==
    \A s \in Server, i \in 1..MaxRetries :
        (~fixed[s] /\ i <= Len(blamed[s])) => blamed[s][i] = "foreign"

(***************************************************************************)
(* A server that listens does so on a port of its own, and on one that was *)
(* asked for if that was a number: it is never replaced by another port,   *)
(* however many collisions there were.                                     *)
(***************************************************************************)
ListensWhereAsked ==
    \A s \in Server : Listens(s) =>
        /\ bound[s] \notin foreign
        /\ \A t \in Server \ {s} : Listens(t) => bound[t] # bound[s]
        /\ fixed[s] => blamed[s] = <<>> /\ bound[s] \in asked[s]

\* s finds a port, and s listens on the port that it found.
Finds(s) == starting[s] = "waiting" /\ starting'[s] = "picked"
ListensOnFound(s) == starting[s] = "picked" /\ starting'[s] = "resolved"

(***************************************************************************)
(* A server that looks for a port does so in the range it was asked for,   *)
(* which it leaves only if none of that is free, or after a collision; and *)
(* the port that it found is the one that it listens on, if any.           *)
(***************************************************************************)
RangeLeftForCause ==
    \A s \in Server :
        /\ Finds(s) => \/ bound'[s] \in asked[s]
                       \/ asked[s] \subseteq InUse
                       \/ blamed[s] # <<>>
        /\ ListensOnFound(s) => bound'[s] = bound[s]

\* Ports are found without clashes, and are those that were asked for.
PortsAsAsked ==
    /\ [](SearchesDoNotClash /\ ListensWhereAsked)
    /\ [][RangeLeftForCause]_lifecycleVars

=============================================================================
