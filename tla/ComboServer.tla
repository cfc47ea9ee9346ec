----------------------------- MODULE ComboServer -----------------------------
(***************************************************************************)
(* One port for everything: what becomes of a connection before it speaks  *)
(* HTTP (http-combo-server.ts), and of one that never does                 *)
(* (MockttpServer.passthroughSocket).                                      *)
(*                                                                         *)
(* The first bytes of a connection are sniffed.  TLS, SOCKS and CONNECT    *)
(* unwrap a layer and put the socket within back into the server, to be    *)
(* sniffed again.  What is known of the client travels as symbols on the   *)
(* sockets; the variables are those of the innermost one.  All kinds of    *)
(* protocols are enabled.                                                  *)
(***************************************************************************)
EXTENDS SocksServer, SequencesExt

CONSTANTS
    Byte,     \* bytes, of which the packets of errors consist
    Chunk,    \* data that can come with an error
    MaxBytes  \* bound: bytes that come with errors on one connection

ASSUME ChunkAssumption == Chunk \subseteq Seq(Byte) \ {<<>>}

VARIABLES
    kind,       \* a TCP socket, a TLS socket, or the stream of an HTTP/2 CONNECT
    encrypted,  \* socket[LastHopEncrypted]
    trusted,    \* socket[TlsSetupCompleted]
    watched,    \* does ifTlsDropped still wait?
    left,       \* the client is gone, and `close` was emitted
    error,      \* where the handling of client errors is
    packet,     \* socket[ClientErrorInProgress].rawPacket
    arrived,    \* all the data that came with errors so far
    upstream,   \* the upstream socket of a passthrough
    heard       \* events about the connection, as they were announced

tlsVars == <<kind, encrypted, trusted, watched>>
errorVars == <<error, packet, arrived>>
comboVars == <<socksVars, tlsVars, left, errorVars, upstream, heard>>

ComboTypeOK ==
    /\ stage \in [Connection ->
           Settled \cup SocksStage \cup
           {Stuck, "new", "sniff", "hello", "handshake", "connect", "http1", "http2",
            "unknown", "through"}]
    /\ tunnel \in [Connection -> Tunnel]
    /\ tagged \in [Connection -> BOOLEAN]
    /\ used \in [Connection -> Credential]
    /\ hop \in [Connection -> [tunnel : Tunnel, by : {"tcp", "socks", "connect", "tls"}]]
    /\ kind \in [Connection -> {"tcp", "tls", "stream"}]
    /\ {encrypted, trusted, watched, left} \subseteq [Connection -> BOOLEAN]
    /\ error \in [Connection -> {"none", "queued", "answering", "announced"}]
    /\ packet \in [Connection -> Seq(Byte)]
    /\ arrived \in [Connection -> Seq(Byte)]
    /\ upstream \in [Connection ->
           [state : {"none", "connecting", "connected", "destroyed"}, tls : BOOLEAN]]
    /\ heard \in [Connection ->
           Seq({"tls-client-error", "client-error", "opened", "closed"})]

NoUpstream == [state |-> "none", tls |-> FALSE]

ComboInit ==
    /\ authMethods \in {<<"no-auth">>, <<"custom-metadata", "user-password-metadata">>,
                        <<"user-password-metadata", "no-auth">>}
    /\ stage = [c \in Connection |-> "new"]
    /\ tunnel = [c \in Connection |-> NoTunnel]
    /\ used = [c \in Connection |-> By("nothing")]
    /\ hop = [c \in Connection |-> [tunnel |-> NoTunnel, by |-> "tcp"]]
    /\ kind = [c \in Connection |-> "tcp"]
    /\ error = [c \in Connection |-> "none"]
    /\ packet = [c \in Connection |-> <<>>]
    /\ heard = [c \in Connection |-> <<>>]
    /\ arrived = [c \in Connection |-> <<>>]
    /\ upstream = [c \in Connection |-> NoUpstream]
    /\ tagged = [c \in Connection |-> FALSE]
    /\ encrypted = [c \in Connection |-> FALSE]
    /\ trusted = [c \in Connection |-> FALSE]
    /\ watched = [c \in Connection |-> FALSE]
    /\ left = [c \in Connection |-> FALSE]

-----------------------------------------------------------------------------

Tell(c, event) == heard' = [heard EXCEPT ![c] = Append(@, event)]

Told(c, event) == \E i \in DOMAIN heard[c] : heard[c][i] = event

-----------------------------------------------------------------------------
(* Client errors: handleInvalidHttp1Request and announceClientErrorAsync. *)

\* Mutant: every packet is appended.
AppendPacket(previous, new) == previous \o new

\* Errors of one socket come in quick succession: those after the first add their
\* packet, or replace the one before by it if that is how it begins.
Accumulate(previous, new) ==
    IF IsPrefix(previous, new) THEN new ELSE previous \o new

\* The client error of an empty packet (a connection that broke), of all the
\* data so far and more, or of the data after it.
RaiseError(c, content) ==
    /\ \/ content = "nothing" /\ UNCHANGED <<packet, arrived>>
       \/ /\ content # "nothing"
          /\ \E chunk \in Chunk :
                 LET all == arrived[c] \o chunk
                     new == IF content = "whole" THEN all ELSE chunk
                 IN  /\ Len(all) <= MaxBytes
                     /\ arrived' = [arrived EXCEPT ![c] = all]
                     /\ packet' = [packet EXCEPT ![c] = Accumulate(packet[c], new)]
    /\ error' = [error EXCEPT ![c] = IF @ = "none" THEN "queued" ELSE @]

\* Mutant: whether TLS was set up does not matter.
AnnounceAnyClientError(c) == Tell(c, "client-error")

\* Before TLS is set up it is not a client error.
AnnounceClientError(c) ==
    IF kind[c] = "tls" /\ ~trusted[c] THEN UNCHANGED heard ELSE Tell(c, "client-error")

\* The connection closes: ifTlsDropped reports a client that has sent nothing.
Dropped(c) == watched[c] /\ ~trusted[c]

\* Announce, and destroy the socket.
Finish(c) ==
    /\ error' = [error EXCEPT ![c] = "announced"]
    /\ AnnounceClientError(c)
    /\ left' = [left EXCEPT ![c] = TRUE]
    /\ Moves(c, "gone")
    /\ UNCHANGED <<authMethods, tunnel, tagged, used, hop, tlsVars, packet, arrived, upstream>>

\* The parser finds an error, or another one.
InvalidHttp1(c) ==
    /\ stage[c] = "http1"
    /\ ~left[c]
    /\ error[c] # "announced"
    /\ \E content \in {"nothing", "whole", "rest"} : RaiseError(c, content)
    /\ UNCHANGED <<socksVars, tlsVars, left, upstream, heard>>

\* setImmediate: a socket that can be written to gets a 400 or a 431 first.
AnswerError(c) ==
    /\ error[c] = "queued"
    /\ IF left[c]
         THEN Finish(c)
         ELSE /\ error' = [error EXCEPT ![c] = "answering"]
              /\ UNCHANGED <<socksVars, tlsVars, left, packet, arrived, upstream, heard>>

ErrorAnswered(c) ==
    /\ error[c] = "answering"
    /\ Finish(c)

\* sessionError: nothing to answer.  Errors of the protocol count as errors after
\* TLS; the session ends, and its socket is closed (Leave).
InvalidHttp2(c) ==
    /\ stage[c] = "http2"
    /\ ~left[c]
    /\ error[c] = "none"
    /\ error' = [error EXCEPT ![c] = "announced"]
    /\ \/ Tell(c, "client-error")
       \/ AnnounceClientError(c)
    /\ UNCHANGED <<socksVars, tlsVars, left, packet, arrived, upstream>>

-----------------------------------------------------------------------------
(* Passthrough of sockets. *)

\* Mutant: a socket that was closed during an await is passed through.
PassClosedSocket(c, type) ==
    /\ UNCHANGED left
    /\ Moves(c, "through")
    /\ upstream' = [upstream EXCEPT ![c] = [state |-> "connecting", tls |-> FALSE]]
    /\ Tell(c, "opened")

\* Mutant: net.connect, whatever the data came in.
PassUnencrypted(c, type) ==
    \/ /\ Moves(c, "gone")
       /\ left' = [left EXCEPT ![c] = TRUE]
       /\ UNCHANGED <<upstream, heard>>
    \/ /\ ~left[c]
       /\ UNCHANGED left
       /\ Moves(c, "through")
       /\ upstream' = [upstream EXCEPT ![c] = [state |-> "connecting", tls |-> FALSE]]
       /\ Tell(c, "opened")

\* passthroughSocket: a loop is reset, a closed socket is left alone, and TLS
\* that was unwrapped is made anew for the raw data within.
PassThrough(c, type) ==
    \/ /\ Moves(c, "gone")
       /\ left' = [left EXCEPT ![c] = TRUE]
       /\ UNCHANGED <<upstream, heard>>
    \/ /\ ~left[c]
       /\ UNCHANGED left
       /\ Moves(c, "through")
       /\ upstream' = [upstream EXCEPT ![c] =
              [state |-> "connecting", tls |-> type = "raw" /\ encrypted[c]]]
       /\ Tell(c, "opened")

UpstreamConnects(c) ==
    /\ upstream[c].state = "connecting"
    /\ upstream' = [upstream EXCEPT ![c].state = "connected"]
    /\ UNCHANGED <<socksVars, tlsVars, left, errorVars, heard>>

\* The upstream socket fails or closes, and the downstream one is destroyed.
UpstreamEnds(c) ==
    /\ upstream[c].state \in {"connecting", "connected"}
    /\ upstream' = [upstream EXCEPT ![c].state = "destroyed"]
    /\ UNCHANGED <<socksVars, tlsVars, left, errorVars, heard>>

\* Mutant: the upstream socket is left alone.
CloseDownstream(c) ==
    /\ Moves(c, "gone")
    /\ left' = [left EXCEPT ![c] = TRUE]
    /\ Tell(c, "closed")
    /\ UNCHANGED upstream

\* `close` of the downstream socket, whoever closed it.
CloseBoth(c) ==
    /\ Moves(c, "gone")
    /\ left' = [left EXCEPT ![c] = TRUE]
    /\ Tell(c, "closed")
    /\ upstream' = [upstream EXCEPT ![c].state = "destroyed"]

EndPassthrough(c) ==
    /\ stage[c] = "through"
    /\ CloseBoth(c)
    /\ UNCHANGED <<authMethods, tunnel, tagged, used, hop, tlsVars, errorVars>>

-----------------------------------------------------------------------------
(* Sniffing. *)

Connect(c) ==
    /\ stage[c] = "new"
    /\ Moves(c, "sniff")
    /\ UNCHANGED <<authMethods, tunnel, tagged, used, hop, tlsVars, left, errorVars, upstream, heard>>

\* Mutant: data is no sign of trust.
IgnoreData(c) == UNCHANGED <<kind, encrypted, trusted, watched>>

\* `data` on a TLS socket: the client trusts the connection.
SeeData(c) ==
    /\ trusted' = [trusted EXCEPT ![c] = @ \/ watched[c]]
    /\ watched' = [watched EXCEPT ![c] = FALSE]
    /\ UNCHANGED <<kind, encrypted>>

\* The first bytes say which server is to have the socket.  Bounds: no more than
\* MaxTunnels tunnels, and no TLS directly in TLS.
Sniff(c) ==
    /\ stage[c] = "sniff"
    /\ ~left[c]
    /\ SeeData(c)
    /\ \/ tunnel[c].number < MaxTunnels /\ \E v \in {"version 4", "methods"} : Moves(c, v)
       \/ hop[c].by # "tls" /\ Moves(c, "hello")
       \/ \E http \in {"http1", "http2"} : Moves(c, http)
    /\ UNCHANGED <<authMethods, tunnel, tagged, used, hop, left, errorVars, upstream, heard>>

\* Bytes that are of no protocol we know: they need a destination.
SniffUnknown(c) ==
    /\ stage[c] = "sniff"
    /\ ~left[c]
    /\ SeeData(c)
    /\ CASE tunnel[c].port = "any" ->
              PassThrough(c, "raw") /\ UNCHANGED errorVars
         [] tunnel[c].port = "garbled" ->
              /\ Moves(c, "gone")
              /\ left' = [left EXCEPT ![c] = TRUE]
              /\ UNCHANGED <<errorVars, upstream, heard>>
         [] tunnel[c].port = "missing" ->
              /\ Moves(c, "unknown")
              /\ \E content \in {"nothing", "whole"} : RaiseError(c, content)
              /\ UNCHANGED <<left, upstream, heard>>
    /\ UNCHANGED <<authMethods, tunnel, tagged, used, hop>>

-----------------------------------------------------------------------------
(* TLS. *)

\* The client hello is read.  The tunnel's destination, then the SNI name, may ask
\* for passthrough; a port that is no number is an error that is only logged.
ReadHello(c) ==
    /\ stage[c] = "hello"
    /\ \/ Moves(c, "handshake") /\ UNCHANGED <<left, upstream, heard>>
       \/ tunnel[c].port # "garbled" /\ PassThrough(c, "tls")
    /\ UNCHANGED <<authMethods, tunnel, tagged, used, hop, tlsVars, errorVars>>

\* Mutant: the new TLS socket starts without the symbols of its parent.
StartAfresh(c) == tunnel' = [tunnel EXCEPT ![c] = NoTunnel]

\* inheritSocketDetails: the TLS socket has the tunnel and metadata of its parent.
Inherit(c) == UNCHANGED tunnel

\* secureConnection: it is now seen whether the client trusts us.
Secure(c) ==
    /\ stage[c] = "handshake"
    /\ ~left[c]
    /\ kind' = [kind EXCEPT ![c] = "tls"]
    /\ encrypted' = [encrypted EXCEPT ![c] = TRUE]
    /\ trusted' = [trusted EXCEPT ![c] = FALSE]
    /\ watched' = [watched EXCEPT ![c] = TRUE]
    /\ hop' = [hop EXCEPT ![c].by = "tls"]
    /\ Inherit(c)
    /\ \E alpn \in {"sniff", "http2"} : Moves(c, alpn)
    /\ UNCHANGED <<authMethods, tagged, used, left, errorVars, upstream, heard>>

\* tlsClientError: alerts, no certificate, a handshake that was left or timed out.
TlsClientError(c) ==
    /\ stage[c] = "handshake"
    /\ Moves(c, "gone")
    /\ left' = [left EXCEPT ![c] = TRUE]
    /\ Tell(c, "tls-client-error")
    /\ UNCHANGED <<authMethods, tunnel, tagged, used, hop, tlsVars, errorVars, upstream>>

\* Ten times the handshake has passed, or 100 ms.
TrustInTime(c) ==
    /\ watched[c]
    /\ trusted' = [trusted EXCEPT ![c] = TRUE]
    /\ watched' = [watched EXCEPT ![c] = FALSE]
    /\ UNCHANGED <<socksVars, kind, encrypted, left, errorVars, upstream, heard>>

\* The first settings of an HTTP/2 session.
RemoteSettings(c) ==
    /\ stage[c] = "http2"
    /\ ~left[c]
    /\ error[c] = "none"
    /\ ~trusted[c]
    /\ trusted' = [trusted EXCEPT ![c] = TRUE]
    /\ UNCHANGED <<socksVars, kind, encrypted, watched, left, errorVars, upstream, heard>>

-----------------------------------------------------------------------------
(* CONNECT. *)

\* HTTP/1: without any address there is a 400; else a 200 is written first.
H1Connect(c) ==
    /\ stage[c] = "http1"
    /\ ~left[c]
    /\ error[c] = "none"
    /\ tunnel[c].number < MaxTunnels
    /\ \E to \in {"refused", "connect"} : Moves(c, to)
    /\ UNCHANGED <<authMethods, tunnel, tagged, used, hop, tlsVars, left, errorVars, upstream, heard>>

\* Mutant: whether the hop was encrypted is not reset.
TunnelFrom(c, port, metadata) ==
    /\ tunnel' = [tunnel EXCEPT ![c] = NextTunnel(c, port)]
    /\ hop' = [hop EXCEPT ![c] = [tunnel |-> NextTunnel(c, port), by |-> "connect"]]
    /\ tagged' = [tagged EXCEPT ![c] = @ \/ metadata]
    /\ UNCHANGED encrypted

\* The address of the CONNECT is where the client goes from here, without TLS so far.
Tunnelled(c, port, metadata) ==
    /\ tunnel' = [tunnel EXCEPT ![c] = NextTunnel(c, port)]
    /\ hop' = [hop EXCEPT ![c] = [tunnel |-> NextTunnel(c, port), by |-> "connect"]]
    /\ tagged' = [tagged EXCEPT ![c] = @ \/ metadata]
    /\ encrypted' = [encrypted EXCEPT ![c] = FALSE]

\* The 200 was written, or could not be: the callback does not look.
H1Connected(c) ==
    /\ stage[c] = "connect"
    /\ \E port \in {"any", "missing", "garbled"}, metadata \in BOOLEAN :
           Tunnelled(c, port, metadata)
    /\ Moves(c, IF left[c] THEN "gone" ELSE "sniff")
    /\ UNCHANGED <<authMethods, used, kind, trusted, watched, left, errorVars, upstream, heard>>

\* HTTP/2: the stream of the request becomes the socket.
H2Connect(c) ==
    /\ stage[c] = "http2"
    /\ ~left[c]
    /\ error[c] = "none"
    /\ trusted[c]
    /\ tunnel[c].number < MaxTunnels
    /\ \/ /\ Moves(c, "refused")
          /\ UNCHANGED <<tunnel, tagged, hop, kind, encrypted, trusted, watched>>
       \/ /\ \E port \in {"any", "missing", "garbled"}, metadata \in BOOLEAN :
                 Tunnelled(c, port, metadata)
          /\ kind' = [kind EXCEPT ![c] = "stream"]
          /\ trusted' = [trusted EXCEPT ![c] = FALSE]
          /\ watched' = [watched EXCEPT ![c] = FALSE]
          /\ Moves(c, "sniff")
    /\ UNCHANGED <<authMethods, used, left, errorVars, upstream, heard>>

-----------------------------------------------------------------------------
(* The client, or stop(), closes the connection. *)

\* What still goes on without the connection.
Outlives == {"hello", "handshake", "connect"}

\* Mutant: whoever waits for a part of a handshake does not hear of it.
LeaveUnheard(c) ==
    IF stage[c] \in Outlives \cup SocksStage THEN UNCHANGED stage ELSE Moves(c, "gone")

\* The awaits of readBytes reject, and the socket is destroyed.
LeaveStage(c) ==
    IF stage[c] \in Outlives THEN UNCHANGED stage ELSE Moves(c, "gone")

\* A connection that breaks is also a client error of an HTTP/1 server.
Leave(c) ==
    /\ stage[c] \notin {"new", "through"}
    /\ ~left[c]
    /\ left' = [left EXCEPT ![c] = TRUE]
    /\ LeaveStage(c)
    /\ IF Dropped(c) THEN Tell(c, "tls-client-error") ELSE UNCHANGED heard
    /\ watched' = [watched EXCEPT ![c] = FALSE]
    /\ \/ UNCHANGED errorVars
       \/ stage[c] \in {"sniff", "http1"} /\ RaiseError(c, "nothing")
    /\ UNCHANGED <<authMethods, tunnel, tagged, used, hop, kind, encrypted, trusted, upstream>>

Handshake(c) ==
    /\ ~left[c]
    /\ ReadPart(c) \/ ReadNothing(c)
    /\ UNCHANGED <<tlsVars, left, errorVars, upstream, heard>>

ConnectionStep(c) ==
    \/ Sniff(c) \/ SniffUnknown(c) \/ Handshake(c)
    \/ ReadHello(c) \/ Secure(c) \/ TlsClientError(c) \/ TrustInTime(c) \/ RemoteSettings(c)
    \/ H1Connect(c) \/ H1Connected(c) \/ H2Connect(c)
    \/ InvalidHttp1(c) \/ AnswerError(c) \/ ErrorAnswered(c) \/ InvalidHttp2(c)
    \/ UpstreamConnects(c) \/ UpstreamEnds(c)

ClosingStep(c) == Leave(c) \/ EndPassthrough(c)

-----------------------------------------------------------------------------
(***************************************************************************)
(* A client that breaks off TLS before it trusts us is reported once, as a *)
(* TLS failure, however the connection ends (an alert, a reset, a close,   *)
(* stop()), and no client error is reported after that, although Node has  *)
(* the HTTP server hear of the same broken socket.                         *)
(***************************************************************************)
FailuresToldOnce ==
    \A c \in Connection :
        /\ (left[c] /\ kind[c] = "tls" /\ ~trusted[c]) => Told(c, "tls-client-error")
        /\ \A i, j \in DOMAIN heard[c] :
               (i < j /\ heard[c][i] \in {"tls-client-error", "client-error"})
                   => heard[c][j] = "tls-client-error" /\ heard[c][i] = "client-error"

HandedOn == {"sniff", "http1", "http2", "unknown", "through"}

(***************************************************************************)
(* When a socket is handed on, its symbols are those of the client's last  *)
(* hop, whatever layers were unwrapped before it: the address of the       *)
(* innermost tunnel, and whether TLS came after that tunnel.  So what is   *)
(* passed through goes upstream in TLS of our own exactly if we took it    *)
(* out of TLS.  Where the last hop is SOCKS only the address is told: the  *)
(* flag of TLS is not reset there, and says what it said before.           *)
(***************************************************************************)
LastHopIsTold ==
    \A c \in Connection :
        stage[c] \in HandedOn =>
            /\ tunnel[c] = hop[c].tunnel
            /\ hop[c].by # "socks" => encrypted[c] = (hop[c].by = "tls")
            /\ stage[c] = "through" /\ hop[c].by # "socks" =>
                   upstream[c].tls = (hop[c].by = "tls")

(***************************************************************************)
(* Who arrives through a SOCKS tunnel has used a method that the server    *)
(* accepts, in every version of the protocol, and a metadata method only   *)
(* with metadata that could be read.                                       *)
(***************************************************************************)
SocksAuthenticated ==
    \A c \in Connection :
        (hop[c].by = "socks" /\ stage[c] \in HandedOn) =>
            /\ \E i \in DOMAIN authMethods : used[c].by = authMethods[i]
            /\ used[c].by # "no-auth" => used[c].said \in {"object", "other JSON"}

\* The first k bytes of the data come again right after themselves.
BeginsTwice(data) ==
    \E k \in 1 .. Len(data) :
        /\ 2 * k <= Len(data)
        /\ \A i \in 1..k : data[i] = data[k + i]

(***************************************************************************)
(* The packet of a client error is all the data that came with errors, in  *)
(* order and once, although some errors repeat what came before them: only *)
(* of data that begins with a repetition can something be lost, or be told *)
(* twice.                                                                  *)
(***************************************************************************)
PacketIsWhole ==
    \A c \in Connection : packet[c] = arrived[c] \/ BeginsTwice(arrived[c])

\* Whoever listens hears of failures once each, with all there is to tell.
FailuresWhole == FailuresToldOnce /\ PacketIsWhole

(***************************************************************************)
(* A passthrough that was reported as opened and whose client is gone was  *)
(* reported as closed, once and after that, and has no upstream socket     *)
(* left; nothing is opened for a client that left during an await.         *)
(***************************************************************************)
PassthroughPaired ==
    \A c \in Connection :
        /\ Told(c, "opened") /\ left[c] =>
               heard[c] = <<"opened", "closed">> /\ upstream[c].state = "destroyed"
        /\ upstream[c].state # "none" => Told(c, "opened")

=============================================================================
