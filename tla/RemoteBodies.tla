------------------------------ MODULE RemoteBodies ------------------------------
(***************************************************************************)
(* The bodies that a remote client reads and writes: bodies of messages,   *)
(* sent with a rule's callback or with an event, whose encoding the server *)
(* undoes, and the results of callbacks on their way back.                 *)
(*                                                                         *)
(* The bytes of a body are <<coding, content>>, "raw" ones its content.    *)
(***************************************************************************)
EXTENDS RemoteRules

CONSTANTS
    JsonWord,   \* the contents that are JSON
    Boundary    \* the boundary of multipart contents

Raw(c) == <<"raw", c>>
Fails == <<"fails", "">>
Plain == {"none", "identity"}
Coding == Plain \cup {"gzip", "unknown"}

\* decodeBodyBuffer and encodeBodyBuffer.
Decode(bytes, coding) ==
    IF coding \in Plain THEN bytes
    ELSE IF coding = bytes[1] THEN Raw(bytes[2]) ELSE Fails

Encode(content, coding) ==
    CASE coding \in Plain -> Raw(content)
      [] coding = "unknown" -> Fails
      [] OTHER -> <<coding, content>>

-----------------------------------------------------------------------------
(* The methods of a body, by buildBodyReader: d is what its decoder gives. *)

ContentType == [multipart : BOOLEAN, boundary : {"", Boundary}]

\* The parts of a multipart content: the sample ones have two of one name and one without.
PartsOf(content) == <<<<"x", content>>, <<"", content>>, <<"x", "second">> >>

\* getFormData: the parts with a name, those of one name in a list.
NamedParts(parts) ==
    [n \in {parts[i][1] : i \in DOMAIN parts} \ {""} |->
        LET named == SelectSeq(parts, LAMBDA p : p[1] = n) IN [i \in DOMAIN named |-> named[i][2]]]

Reading(d, type) ==
    LET multipart == d # Fails /\ type.multipart /\ type.boundary # ""
        urlEncoded == d \notin {Fails, Raw("")} /\ ~type.multipart
    IN [decoded |-> d,
        text |-> d,
        json |-> IF d # Fails /\ d[2] \in JsonWord THEN d ELSE Fails,
        urlEncoded |-> IF urlEncoded THEN d ELSE Fails,
        multipart |-> IF multipart THEN PartsOf(d[2]) ELSE <<>>,
        form |-> CASE multipart -> NamedParts(PartsOf(d[2]))
                   [] urlEncoded -> [x |-> <<d[2]>>]
                   [] OTHER -> <<>>]

LocalReading(bytes, coding, type) == Reading(Decode(bytes, coding), type)

-----------------------------------------------------------------------------
(* The same body, sent to the client. *)

\* decodeAndSerializeBody, where a body without a coding needs none.  Events and callbacks of rules
\* carry both forms, and the encoded one alone if the server is not to decode.
SentBody(bytes, coding, decoding) ==
    LET d == Decode(bytes, coding) IN
    [encoded |-> bytes,
     decoded |-> IF decoding = "none" \/ coding \in Plain \/ d = Fails THEN Undef ELSE Text(d[2])]

\* Mutant: what was not decoded is taken as it is.
DecodedOrEncoded(sent, coding) ==
    IF Truthy(sent.decoded) THEN Raw(Content(sent.decoded)) ELSE sent.encoded

\* deserializeBodyReader, for the bodies of callbacks and of events: an empty text is no decoded body.
DecodedByServer(sent, coding) ==
    IF Truthy(sent.decoded) THEN Raw(Content(sent.decoded))
    ELSE IF coding \in Plain THEN sent.encoded ELSE Fails

RemoteReading(bytes, coding, type, decoding) ==
    Reading(DecodedByServer(SentBody(bytes, coding, decoding), coding), type)

-----------------------------------------------------------------------------
(* The results of callbacks. *)

\* withSerializedCallbackBuffers and withDeserializedCallbackBuffers; json is sent as it is.
SerializeResult(result) ==
    [body |-> IfTruthy(result.body, Text(Content(result.body))),
     rawBody |-> IfTruthy(result.rawBody, Text(Content(result.rawBody))),
     json |-> Json(result.json)]

DeserializeResult(sent) ==
    [sent EXCEPT !.body = IF @ = Undef THEN Undef ELSE Bytes(Content(@)),
                 !.rawBody = IF @ = Undef THEN Undef ELSE Bytes(Content(@))]

\* JSON.stringify.
Written(json) == IF json = Null THEN "null" ELSE "{}"

\* buildOverriddenBody: a body that replaces the one passed through; a falsy json is none.
OverriddenBody(result, coding) ==
    CASE Truthy(result.rawBody) -> Raw(Content(result.rawBody))
      [] ~Truthy(result.rawBody) /\ Truthy(result.json) -> Encode(Written(result.json), coding)
      [] ~Truthy(result.rawBody) /\ ~Truthy(result.json) ->
             IF result.body = Undef THEN Undef ELSE Encode(Content(result.body), coding)

\* writeResponseFromCallback: any json replaces the body, and a raw body both.
RespondedBody(result, coding) ==
    LET body == IF result.json # Undef THEN Text(Written(result.json)) ELSE result.body IN
    CASE Truthy(result.rawBody) -> Raw(Content(result.rawBody))
      [] ~Truthy(result.rawBody) /\ Truthy(body) -> Encode(Content(body), coding)
      [] OTHER -> Raw("")

-----------------------------------------------------------------------------
(* The laws. *)

SomeBody ==
    ({Raw(w) : w \in SomeWord} \X Plain)
    \cup {<< <<"gzip", w>>, "gzip">> : w \in SomeWord}
    \cup {<< <<"garbage", "a">>, c>> : c \in {"gzip", "unknown"}}

\* A client reads of a body what the server does, whichever way it is sent, but for an encoded body
\* that is empty once it is decoded, which it cannot read; without decoding it reads only what has
\* no coding.
BodiesReadSame ==
    \A b \in SomeBody, type \in ContentType :
        LET bytes == b[1]  coding == b[2] IN
        /\ (RemoteReading(bytes, coding, type, "server-side") = LocalReading(bytes, coding, type))
               <=> ~(coding = "gzip" /\ Decode(bytes, coding) = Raw(""))
        /\ RemoteReading(bytes, coding, type, "none")
               = (IF coding \in Plain THEN LocalReading(bytes, coding, type) ELSE Reading(Fails, type))

\* Every part with a name is in the form data, in order.
PartsKept ==
    \A c \in SomeWord :
        LET form == Reading(Raw(c), [multipart |-> TRUE, boundary |-> Boundary]).form IN
        form = [x |-> <<c, "second">>]

\* What a callback gives is what is sent, from wherever it is called; only an empty body that
\* replaces another is lost on the way, and the other is passed on.
SomeResult ==
    [body : SomeData \cup {<<"CompletedBody", w>> : w \in SomeWord},
     rawBody : {Undef} \cup {Bytes(w) : w \in SomeWord} \cup {Array(w) : w \in Word},
     json : {Undef, Null, Object([a |-> Null])}]

ResultsArrive ==
    \A result \in SomeResult, coding \in Coding :
        LET arrived == DeserializeResult(SerializeResult(result)) IN
        /\ (OverriddenBody(arrived, coding) = OverriddenBody(result, coding))
               <=> ~(result.body = Text("") /\ ~Truthy(result.rawBody) /\ ~Truthy(result.json))
        /\ Kind(result.body) # "CompletedBody" => RespondedBody(arrived, coding) = RespondedBody(result, coding)

BodyLaws == BodiesReadSame /\ PartsKept /\ ResultsArrive

=============================================================================
