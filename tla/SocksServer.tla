----------------------------- MODULE SocksServer -----------------------------
(***************************************************************************)
(* SOCKS handshakes (socks-server.ts): versions 4, 4a and 5.               *)
(*                                                                         *)
(* A handshake reads one part of a message after the other (readBytes and  *)
(* readUntilNullByte): a part arrives, or the client is gone before it is  *)
(* complete.  `stage` is the part that is awaited.  What a part says is    *)
(* chosen when it is read.  Bytes after the handshake stay in the socket.  *)
(*                                                                         *)
(* These are steps of a connection: ComboServer composes them with what    *)
(* comes before and after.                                                 *)
(***************************************************************************)
EXTENDS Integers, Sequences, FiniteSets

CONSTANTS
    Connection,  \* sockets that clients open
    MaxTunnels   \* bound: tunnels inside of one connection

ASSUME MaxTunnelsAssumption == MaxTunnels \in Nat

AuthMethod == {"no-auth", "user-password-metadata", "custom-metadata"}

\* How a client authenticates: by which method, and what it says as metadata.
Credential ==
    [by   : AuthMethod \cup {"nothing", "wrong user"},
     said : {"nothing", "object", "other JSON", "no JSON"}]

By(method) == [by |-> method, said |-> "nothing"]

VARIABLES
    authMethods, \* the server's authMethods, most preferred first
    stage,       \* what each connection waits for
    tunnel,      \* socket[LastTunnelAddress]: the tunnel's number, and its port
    tagged,      \* does socket[SocketMetadata] hold what the client sent?
    used,        \* the Credential of the client's last SOCKS handshake
    hop          \* what client and server agreed on last: the tunnel, and how

socksVars == <<authMethods, stage, tunnel, tagged, used, hop>>

\* A client that is told to go away, that waits for an answer it never gets, or
\* that has gone.
Settled == {"refused", "gone"}

SocksStage ==
    {"version 4", "user id", "domain",
     "methods", "username", "password", "metadata",
     "version 5", "address"}

\* socket.read(0) returns null whatever arrives, so an empty part is awaited for ever.
Stuck == "empty part"

Moves(c, to) == stage' = [stage EXCEPT ![c] = to]

\* Any port, none at all, or text that is no number.
Tunnel == [number : 0..MaxTunnels, port : {"any", "missing", "garbled"}]
NoTunnel == [number |-> 0, port |-> "missing"]

NextTunnel(c, text) == [number |-> tunnel[c].number + 1, port |-> text]

Preferred(offered) ==
    LET fits == {i \in DOMAIN authMethods : authMethods[i] \in offered}
    IN  authMethods[CHOOSE i \in fits : \A j \in fits : i <= j]

\* The address is agreed on: the socket goes back to the server, which sniffs again.
SocksTcpConnect(c) ==
    /\ tunnel' = [tunnel EXCEPT ![c] = NextTunnel(c, "any")]
    /\ hop' = [hop EXCEPT ![c] = [tunnel |-> NextTunnel(c, "any"), by |-> "socks"]]
    /\ Moves(c, "sniff")

-----------------------------------------------------------------------------
(* Version 4: it has no authentication. *)

\* Mutant: version 4 is let in whatever the server asks of its clients.
ReadAnyVersion4(c) ==
    /\ stage[c] = "version 4"
    /\ \E to \in {"user id", "refused"} : Moves(c, to)
    /\ used' = [used EXCEPT ![c] = By("no-auth")]
    /\ UNCHANGED <<authMethods, tunnel, tagged, hop>>

\* The command must be CONNECT.
ReadVersion4(c) ==
    /\ stage[c] = "version 4"
    /\ \E command \in {"connect", "other"} :
           IF "no-auth" \in {authMethods[i] : i \in DOMAIN authMethods} /\ command = "connect"
             THEN /\ Moves(c, "user id")
                  /\ used' = [used EXCEPT ![c] = By("no-auth")]
             ELSE /\ Moves(c, "refused")
                  /\ UNCHANGED used
    /\ UNCHANGED <<authMethods, tunnel, tagged, hop>>

\* After the user id comes the name of version 4a, for an address that starts with 0.0.0.
ReadUserId(c) ==
    /\ stage[c] = "user id"
    /\ \/ Moves(c, "domain") /\ UNCHANGED <<tunnel, hop>>
       \/ SocksTcpConnect(c)
    /\ UNCHANGED <<authMethods, tagged, used>>

ReadDomain(c) ==
    /\ stage[c] = "domain"
    /\ SocksTcpConnect(c)
    /\ UNCHANGED <<authMethods, tagged, used>>

-----------------------------------------------------------------------------
(* Version 5. *)

\* Mutant: the client's preference, even for what the server does not take.
ReadAnyMethods(c) ==
    /\ stage[c] = "methods"
    /\ \E method \in AuthMethod :
           /\ Moves(c, CASE method = "no-auth" -> "version 5"
                         [] method = "user-password-metadata" -> "username"
                         [] method = "custom-metadata" -> "metadata")
           /\ used' = [used EXCEPT ![c] = By(method)]
    /\ UNCHANGED <<authMethods, tunnel, tagged, hop>>

\* The first of the server's methods that the client offers.
ReadMethods(c) ==
    /\ stage[c] = "methods"
    /\ \E offered \in SUBSET AuthMethod :
           LET method == Preferred(offered)
           IN  IF \A i \in DOMAIN authMethods : authMethods[i] \notin offered
                 THEN /\ Moves(c, "refused")
                      /\ UNCHANGED used
                 ELSE /\ Moves(c, CASE method = "no-auth" -> "version 5"
                                    [] method = "user-password-metadata" -> "username"
                                    [] method = "custom-metadata" -> "metadata")
                      /\ used' = [used EXCEPT ![c] = By(method)]
    /\ UNCHANGED <<authMethods, tunnel, tagged, hop>>

\* The name is looked at after the password was read.
ReadUsername(c) ==
    /\ stage[c] = "username"
    /\ \E name \in {"metadata", "other"} :
           /\ Moves(c, "password")
           /\ used' = IF name = "metadata" THEN used ELSE [used EXCEPT ![c].by = "wrong user"]
    /\ UNCHANGED <<authMethods, tunnel, tagged, hop>>

\* Metadata is merged into what the socket has; text that is no JSON is refused,
\* and JSON that is no object changes nothing.
GetSocketMetadata(c, text) ==
    tagged' = [tagged EXCEPT ![c] = IF text = "object" THEN TRUE ELSE @]

ReadPassword(c) ==
    /\ stage[c] = "password"
    /\ \E text \in {"object", "other JSON", "no JSON"} :
           /\ used' = [used EXCEPT ![c].said = text]
           /\ IF used[c].by = "wrong user" \/ text = "no JSON"
                THEN Moves(c, "refused") /\ UNCHANGED tagged
                ELSE Moves(c, "version 5") /\ GetSocketMetadata(c, text)
    /\ UNCHANGED <<authMethods, tunnel, hop>>

\* Mutant: text that is no JSON is not refused.
ReadAnyMetadata(c) ==
    /\ stage[c] = "metadata"
    /\ \E text \in {"object", "other JSON", "no JSON"} :
           /\ used' = [used EXCEPT ![c].said = text]
           /\ GetSocketMetadata(c, text)
    /\ Moves(c, "version 5")
    /\ UNCHANGED <<authMethods, tunnel, hop>>

ReadMetadata(c) ==
    /\ stage[c] = "metadata"
    /\ \E text \in {"object", "other JSON", "no JSON"} :
           /\ used' = [used EXCEPT ![c].said = text]
           /\ IF text = "no JSON"
                THEN Moves(c, "refused") /\ UNCHANGED tagged
                ELSE Moves(c, "version 5") /\ GetSocketMetadata(c, text)
    /\ UNCHANGED <<authMethods, tunnel, hop>>

\* The request: its version, its command and the type of its address.
ReadVersion5(c) ==
    /\ stage[c] = "version 5"
    /\ \E version \in {5, 0}, command \in {"connect", "other"},
          type \in {"ipv4", "hostname", "ipv6", "other"} :
           Moves(c, IF version = 5 /\ command = "connect" /\ type # "other"
                      THEN "address" ELSE "refused")
    /\ UNCHANGED <<authMethods, tunnel, tagged, used, hop>>

ReadAddress(c) ==
    /\ stage[c] = "address"
    /\ SocksTcpConnect(c)
    /\ UNCHANGED <<authMethods, tagged, used>>

\* The length of the next part is 0: no methods, no name, no password or no metadata.
ReadNothing(c) ==
    /\ stage[c] \in {"methods", "username", "password", "metadata"}
    /\ Moves(c, Stuck)
    /\ UNCHANGED <<authMethods, tunnel, tagged, used, hop>>

ReadPart(c) ==
    \/ ReadVersion4(c) \/ ReadUserId(c) \/ ReadDomain(c)
    \/ ReadMethods(c) \/ ReadUsername(c) \/ ReadPassword(c) \/ ReadMetadata(c)
    \/ ReadVersion5(c) \/ ReadAddress(c)

=============================================================================
