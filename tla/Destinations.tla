------------------------------ MODULE Destinations ------------------------------
(***************************************************************************)
(* Where a request goes: the URL and the destination that preprocessRequest*)
(* gives it, and the address, name, port and host header that a passthrough*)
(* uses for it.                                                            *)
(*                                                                         *)
(* A host is written as a name and a port, 0 if there is none.  A request  *)
(* is a record of what is known about it, where NoHost is what is missing. *)
(***************************************************************************)
EXTENDS Integers

CONSTANTS
    Domain,  \* names, among them localhost
    Ip,      \* IP addresses
    Ip6,     \* those that are written in brackets where they are a host
    Decimal, \* those of them whose last group is decimal, as a port is
    LastGroup, \* what parseInt reads in the last group of one
    Shortened, \* one without its last group, and its colon
    Opened,    \* the same of one in brackets, of which the first is left
    Local,   \* names and addresses of this machine, or that resolve to it
    Remote,  \* addresses that clients connect from
    Port,    \* what is given as a port, 0 if nothing is
    Replacement \* hosts that rules send requests to

ASSUME DestinationsAssumption ==
    /\ "localhost" \in Domain \cap Local
    /\ Ip6 \subseteq Ip /\ Decimal \subseteq Ip6
    /\ Domain \cap Ip = {}
    /\ 0 \in Port
    /\ \A a \in Ip6 : LastGroup[a] # 0 /\ Opened[a] \notin Domain \cup Ip

InvalidPort == -1
ServerPort == 8000

NoHost == [name |-> "none", port |-> 0]
Given(host) == host # NoHost
At(n, p) == [name |-> n, port |-> p]

\* The first of the hosts that is given: a ?? b ?? c ?? d.
FirstOf(a, b, c, d) ==
    IF Given(a) THEN a ELSE IF Given(b) THEN b ELSE IF Given(c) THEN c ELSE d

Encrypted(scheme) == scheme \in {"https", "wss"}
DefaultPort(scheme) == IF Encrypted(scheme) THEN 443 ELSE 80

\* An address that ends with a bracket, of which the last group is taken for the port.
Misread(host) == host.port = 0 /\ host.name \in Ip6

\* getDestination: the port is what follows the last colon.
Destination(scheme, host) ==
    CASE host.port # 0 -> host
      [] Misread(host) -> At(Opened[host.name], LastGroup[host.name])
      [] OTHER -> At(host.name, DefaultPort(scheme))

-----------------------------------------------------------------------------
(* preprocessRequest *)

Protocol(r) ==
    IF r.absolute THEN r.urlScheme
    ELSE IF r.scheme # "none" THEN r.scheme
    ELSE IF r.encrypted THEN "https" ELSE "http"

TunnelsToIp(r) == Destination(Protocol(r), r.tunnel).name \in Ip

\* Mutant: the tunnel is preferred even if it is to an IP address.
NamedByTunnel(r) ==
    IF Given(r.tunnel) THEN r.tunnel
    ELSE FirstOf(r.authority, r.host, r.sni, At("localhost", ServerPort))

\* The host of a relative URL: a tunnel to a domain comes first, one to an IP last.
UrlHost(r) ==
    IF Given(r.tunnel) /\ ~TunnelsToIp(r) THEN r.tunnel
    ELSE FirstOf(r.authority, r.host, r.sni,
                 IF Given(r.tunnel) THEN r.tunnel ELSE At("localhost", ServerPort))

\* The actual destination follows the tunnel; an absolute URL is a tunnel of its own.
RequestDestination(r) ==
    LET host == IF r.absolute THEN r.urlHost
                ELSE IF Given(r.tunnel) THEN r.tunnel ELSE UrlHost(r)
    IN Destination(Protocol(r), host)

NameInUrl(r) == IF r.absolute THEN r.urlHost.name ELSE UrlHost(r).name

\* Preprocessing fails for ports that are no numbers, and as no URL can be made of one bracket.
Preprocessed(r) ==
    /\ RequestDestination(r).port # InvalidPort
    /\ ~r.absolute => UrlHost(r).port # InvalidPort /\ ~Misread(UrlHost(r))

\* A request of a WebSocket has the protocol and URL of one.
WebSocketProtocol(r) == IF Protocol(r) = "https" THEN "wss" ELSE "ws"

-----------------------------------------------------------------------------
(* A passthrough *)

\* replace(/:\d+$/, ''), of an address that no port follows.
WithoutPort(name) == IF name \in Decimal THEN Shortened[name] ELSE name

\* getEffectiveHostname, and whether it keeps the brackets of a header or cuts off a group.
EffectiveHostname(name, r) ==
    IF name \notin Ip THEN name
    ELSE FirstOf(r.authority, r.host, r.sni, At(WithoutPort(name), 0)).name

KeepsBrackets(name, r) ==
    /\ name \in Ip
    /\ FirstOf(r.authority, r.host, NoHost, NoHost).name \in Ip6

CutsGroup(name, r) ==
    name \in Decimal /\ ~\E host \in {r.authority, r.host, r.sni} : Given(host)

\* getClientRelativeHostname: for clients elsewhere localhost is their machine, not this one.
ClientRelative(name, remote) ==
    IF remote \notin Local /\ name \in Local THEN remote ELSE name

(***************************************************************************)
(* applyDestinationTransforms.  `target` is the host that a replacement or *)
(* match-replace results in, and `header` what is done to the host header: *)
(* "target", also if nothing is said, "keep" or another host of its own.   *)
(***************************************************************************)
NewProtocol(t, scheme) == IF t.protocol = "none" THEN scheme ELSE t.protocol

\* Mutant: a port stays when the protocol changes.
KeepPort(t, scheme, port) == port

NewPort(t, scheme, port) ==
    IF t.protocol # "none" /\ port = DefaultPort(scheme) THEN DefaultPort(t.protocol) ELSE port

Target(t, scheme, name, port) ==
    IF Given(t.target) THEN t.target ELSE At(name, NewPort(t, scheme, port))

HostHeader(t, host, target) ==
    CASE t.header = "target" -> target
      [] t.header = "keep" -> host
      [] t.header = "custom" -> At("custom", 0)

\* getEffectivePort.
EffectivePort(scheme, port) == IF port = 0 THEN DefaultPort(scheme) ELSE port

\* What the upstream request of a passthrough is sent to.
SentTo(r, remote, t) ==
    LET destination == RequestDestination(r)
        scheme == Protocol(r)
        name == EffectiveHostname(destination.name, r)
        target == Target(t, scheme, name, destination.port)
        address == ClientRelative(destination.name, remote)
    IN [protocol |-> NewProtocol(t, scheme),
        address |-> IF target.name # name THEN target.name ELSE address,
        name |-> target.name,
        port |-> EffectivePort(NewProtocol(t, scheme), target.port),
        header |-> HostHeader(t, IF Given(r.authority) THEN r.authority ELSE r.host, target)]

-----------------------------------------------------------------------------

Hosts == {NoHost} \cup {At(n, p) : n \in Domain \cup Ip, p \in Port}

RelativeRequest ==
    [absolute : {FALSE}, urlScheme : {"none"}, urlHost : {NoHost},
     scheme : {"none", "https"}, encrypted : BOOLEAN,
     tunnel : Hosts, authority : {NoHost, At("localhost", 0)},
     host : Hosts,
     sni : {NoHost} \cup {At(n, 0) : n \in Domain}]

AbsoluteRequest ==
    [absolute : {TRUE}, urlScheme : {"http", "https"}, urlHost : Hosts \ {NoHost},
     scheme : {"none"}, encrypted : {FALSE}, tunnel : {NoHost},
     authority : {NoHost}, host : Hosts, sni : {NoHost}]

Transform ==
    [protocol : {"none", "http", "https"}, target : {NoHost} \cup Replacement,
     header : {"target", "keep", "custom"}]

Requests == {r \in RelativeRequest \cup AbsoluteRequest : Preprocessed(r)}

HostnamesAgree ==
    \A r \in Requests :
        LET destination == RequestDestination(r) IN
        \/ r.absolute /\ r.urlHost.name \in Ip
        \/ KeepsBrackets(destination.name, r)
        \/ CutsGroup(destination.name, r)
        \/ EffectiveHostname(destination.name, r) = NameInUrl(r)

ProtocolsAgree ==
    \A r \in Requests : (WebSocketProtocol(r) = "wss") <=> (Protocol(r) = "https")

(***************************************************************************)
(* Events, rules and passthroughs agree on a request: the name that a      *)
(* passthrough works with is the one in the URL, though each derives it    *)
(* anew from the headers, unless an IP is the host of an absolute URL, is  *)
(* in brackets, or is the only name that there is and ends as with a port; *)
(* and a WebSocket is encrypted if and only if HTTP is.                    *)
(***************************************************************************)
NamesAgree == HostnamesAgree /\ ProtocolsAgree

Moved(r, t) ==
    Given(t.target) /\ t.target.name # EffectiveHostname(RequestDestination(r).name, r)

AddressFollows ==
    \A r \in Requests, remote \in Remote, t \in Transform :
        LET sent == SentTo(r, remote, t) IN
        /\ Given(r.tunnel) /\ ~Given(t.target) /\ remote \in Local =>
               sent.address = r.tunnel.name
        /\ sent.address \in Local =>
               (Moved(r, t) \/ remote \in Local \/ RequestDestination(r).name \notin Local)
        /\ Moved(r, t) => sent.address = t.target.name
        /\ t.header = "target" => sent.header.name = sent.name

PortFollows ==
    \A r \in Requests, remote \in Remote, t \in {u \in Transform : ~Given(u.target)} :
        LET port == RequestDestination(r).port
            sent == SentTo(r, remote, t)
        IN IF t.protocol = "none" THEN sent.port = port
           ELSE (sent.port = DefaultPort(t.protocol)) <=>
                    (port \in {DefaultPort(Protocol(r)), DefaultPort(t.protocol)})

(***************************************************************************)
(* A request that no rule changes goes where its tunnel leads or its URL   *)
(* says, from another machine's localhost to that machine.  A rule that    *)
(* changes the host changes the address, whoever the client is.  A rule    *)
(* that changes the protocol takes a default port along, and no other.     *)
(***************************************************************************)
UpstreamIsDestination == AddressFollows /\ PortFollows

=============================================================================
