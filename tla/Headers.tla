-------------------------------- MODULE Headers --------------------------------
(***************************************************************************)
(* Headers as messages are forwarded: raw headers, header objects, changes *)
(* by a rule, the translation between HTTP/2 and HTTP/1, and the framing   *)
(* of a body that a rule replaced.                                         *)
(*                                                                         *)
(* Raw headers are a sequence of <<name, value>>; an object is a sequence  *)
(* of <<name, values>> with distinct names, in order of insertion, where no*)
(* values are an undefined value.  All that reads raw headers ignores the  *)
(* case of their names, so these are in lower case here.  A name in the    *)
(* object of a rule may be in any case, and is looked up as it is written. *)
(* Values are strings, and lengths are written as values are.  Loops over  *)
(* headers are recursive functions of the number of headers that were seen.*)
(***************************************************************************)
EXTENDS Integers, Sequences, SequencesExt

CONSTANTS
    HeaderName,   \* names of the headers of sample messages
    HeaderValue,  \* and their values
    Cased,        \* what other names, that are not in lower case, are in lower case
    MaxHeaders    \* bound: headers of a sample message

Undefined == "undefined"
Empty == ""

\* What is undefined is not the value of a header.
ASSUME HeadersAssumption == Undefined \notin HeaderValue /\ MaxHeaders \in Nat

OwnName == {"host", "cookie", "transfer-encoding", "content-length"}

ASSUME CaseAssumption ==
    \A name \in DOMAIN Cased : name \notin HeaderName \cup OwnName /\ Cased[name] \in HeaderName

\* toLowerCase.
Lower(name) == IF name \in DOMAIN Cased THEN Cased[name] ELSE name

Keep(kept, h, wanted) == IF h \in wanted THEN Append(kept, h) ELSE kept

\* filter: the headers that are wanted, in their order.
Filter(raw, wanted) ==
    LET kept[n \in 0..Len(raw)] == IF n = 0 THEN <<>> ELSE Keep(kept[n - 1], raw[n], wanted)
    IN kept[Len(raw)]

\* findRawHeaders and findRawHeader.
FindAll(raw, name) == Filter(raw, {h \in ToSet(raw) : h[1] = name})
Has(raw, name) == FindAll(raw, name) # <<>>
Without(raw, names) == Filter(raw, {h \in ToSet(raw) : h[1] \notin names})

\* getHeaderValue of raw headers: the first value.
Value(raw, name) == IF Has(raw, name) THEN FindAll(raw, name)[1][2] ELSE Undefined

\* A value in reduce of rawHeadersToObject: an empty value is not kept when another follows.
AddValue(values, v) == IF values \in {<<>>, <<Empty>>} THEN <<v>> ELSE Append(values, v)

IsIn(object, name) == \E i \in DOMAIN object : object[i][1] = name

AddHeader(object, h) ==
    IF IsIn(object, h[1])
      THEN [i \in DOMAIN object |->
               IF object[i][1] = h[1] THEN <<h[1], AddValue(object[i][2], h[2])>> ELSE object[i]]
      ELSE Append(object, <<h[1], <<h[2]>> >>)

\* rawHeadersToObject.
ToObject(raw) ==
    LET object[n \in 0..Len(raw)] == IF n = 0 THEN <<>> ELSE AddHeader(object[n - 1], raw[n])
    IN object[Len(raw)]

\* One header for each value of an entry: none if it is undefined.
PushAll(raw, entry) == raw \o [i \in DOMAIN entry[2] |-> <<Lower(entry[1]), entry[2][i]>>]

\* objectHeadersToRaw.
ToRaw(object) ==
    LET raw[n \in 0..Len(object)] == IF n = 0 THEN <<>> ELSE PushAll(raw[n - 1], object[n])
    IN raw[Len(object)]

\* getHeaderValue of an object: of the name as it is written.
GivenValue(object, name) ==
    IF \E i \in DOMAIN object : object[i][1] = name /\ object[i][2] # <<>>
      THEN object[CHOOSE i \in DOMAIN object : object[i][1] = name /\ object[i][2] # <<>>][2][1]
      ELSE Undefined

\* Mutant: only the first header of a name is removed.
RemoveOnlyFirst(loop, h, name) ==
    IF h[1] = name /\ ~loop.moved THEN [kept |-> loop.kept, moved |-> TRUE]
    ELSE [kept |-> Append(loop.kept, h), moved |-> loop.moved]

\* splice moves the next header into the index that was just looked at, so that one is kept
\* whatever its name is.
RemoveOrKeep(loop, h, name) ==
    IF h[1] = name /\ ~loop.moved THEN [kept |-> loop.kept, moved |-> TRUE]
    ELSE [kept |-> Append(loop.kept, h), moved |-> FALSE]

\* The removal of a name in updateRawHeaders.
RemoveName(raw, name) ==
    LET loop[n \in 0..Len(raw)] ==
            IF n = 0 THEN [kept |-> <<>>, moved |-> FALSE] ELSE RemoveOrKeep(loop[n - 1], raw[n], name)
    IN loop[Len(raw)].kept

\* updateRawHeaders: all removals, and then all additions.
UpdateRaw(raw, object) ==
    LET removed[n \in 0..Len(object)] ==
            IF n = 0 THEN raw ELSE RemoveName(removed[n - 1], Lower(object[n][1]))
    IN removed[Len(object)] \o ToRaw(object)

-----------------------------------------------------------------------------
(* HTTP/2 and HTTP/1 *)

Pseudo == {":authority", ":scheme", ":path", ":method", ":status"}
ModifiablePseudo == {":authority", ":scheme"}

\* Mutant: a host is added to one that is there.
HostAlways(raw, h2) == <<<<"host", Value(h2, ":authority")>>>> \o raw

HostFirst(raw, h2) ==
    IF ~Has(raw, "host") /\ Has(h2, ":authority")
      THEN <<<<"host", Value(h2, ":authority")>>>> \o raw ELSE raw

\* In HTTP/1 cookies are one header.
JoinCookies(raw) ==
    IF Len(FindAll(raw, "cookie")) > 1
      THEN Append(Without(raw, {"cookie"}), <<"cookie", "joined">>) ELSE raw

\* A request that may have a body gets framing.
FrameMaybe(raw, method) ==
    IF /\ method \notin {"GET", "HEAD"}
       /\ ~Has(raw, "content-length")
       /\ Value(raw, "transfer-encoding") # "chunked"
      THEN Append(raw, <<"transfer-encoding", "chunked">>) ELSE raw

H2ToH1(h2, method) ==
    FrameMaybe(JoinCookies(HostFirst(Without(h2, Pseudo), h2)), method)

IllegalInH2 ==
    {"connection", "upgrade", "host", "http2-settings", "keep-alive", "proxy-connection",
     "transfer-encoding"}

H1ToH2(raw) == Without(raw, IllegalInH2)

\* The headers of the upstream request.
ForUpstream(raw, method, h2Downstream, h2Upstream) ==
    CASE h2Downstream /\ h2Upstream -> Without(raw, Pseudo \ ModifiablePseudo)
      [] h2Downstream /\ ~h2Upstream -> H2ToH1(raw, method)
      [] OTHER -> raw

\* What is written to a client: never :status or headers that Node would refuse.
ForClient(raw, invalid, h2Downstream) ==
    LET headers == IF h2Downstream THEN H1ToH2(raw) ELSE raw
    IN Filter(headers, {h \in ToSet(headers) : h[1] # ":status" /\ h[2] \notin invalid})

-----------------------------------------------------------------------------
(* Framing of replaced bodies *)

Chunked(raw) == Value(raw, "transfer-encoding") = "chunked"

\* Mutant: a length that is already there is trusted.
TrustedLength(length, coding, present) ==
    IF coding = "chunked" \/ present # Undefined THEN Undefined ELSE length

\* getRequestContentLengthAfterModification for HTTP/1: the length to set, if any, given the
\* transfer-encoding and the content-length that were found.
RequestLength(length, coding, present) ==
    IF coding = "chunked" \/ present = length THEN Undefined ELSE length

\* getResponseContentLengthAfterModification: as it is for requests, but no length is added,
\* and answers to HEAD may say anything.
ResponseLength(length, coding, present, method) ==
    IF method = "HEAD" \/ present = Undefined
      THEN Undefined ELSE RequestLength(length, coding, present)

SetLength(raw, length) ==
    IF length = Undefined THEN raw ELSE UpdateRaw(raw, <<<<"content-length", <<length>> >>>>)

Changes == {"none", "update", "replace"}

\* updateHeaders or replaceHeaders of a transform.
Change(raw, kind, object) ==
    CASE kind = "none" -> raw
      [] kind = "update" -> UpdateRaw(raw, object)
      [] kind = "replace" -> ToRaw(object)

\* A header that the length is derived from: of those that resulted, if an update sets framing
\* by a name in lower case; of the object, if that replaces them; or of the original ones.
FramingValue(raw, kind, object, framing, name) ==
    CASE kind = "update" /\ \E n \in framing : GivenValue(object, n) # Undefined ->
             Value(UpdateRaw(raw, object), name)
      [] kind = "replace" -> GivenValue(object, name)
      [] OTHER -> Value(raw, name)

\* transformRequest with a body of the given length, for HTTP/1 clients.
TransformedRequest(raw, kind, object, length) ==
    LET framing == {"content-length"} \cup
                   (IF GivenValue(object, "transfer-encoding") = "chunked"
                      THEN {"transfer-encoding"} ELSE {})
        Found(name) == FramingValue(raw, kind, object, framing, name)
    IN SetLength(Change(raw, kind, object),
                 RequestLength(length, Found("transfer-encoding"), Found("content-length")))

\* transformResponse with such a body.
TransformedResponse(raw, kind, object, length, method) ==
    LET Found(name) == FramingValue(raw, kind, object, {"content-length"}, name)
    IN SetLength(Change(raw, kind, object),
                 ResponseLength(length, Found("transfer-encoding"), Found("content-length"), method))

\* deriveUrlLinkedHeader: a header that the callback returned stays, or else it follows the URL.
UrlLinked(replacement, name, expected) ==
    IF GivenValue(replacement, name) # Undefined THEN GivenValue(replacement, name) ELSE expected

\* Object.assign of one value.
Assign(object, name, value) ==
    IF IsIn(object, name)
      THEN [i \in DOMAIN object |-> IF object[i][1] = name THEN <<name, <<value>> >> ELSE object[i]]
      ELSE Append(object, <<name, <<value>> >>)

\* beforeRequest returned headers (or none), with a body of the given length and a URL
\* whose host is `host`.
CallbackRequest(raw, returned, host, length) ==
    LET original == ToObject(raw)
        headers == IF returned = <<>> THEN original ELSE returned
        linked == Assign(headers, "host", UrlLinked(returned, "host", host))
        Found(name) == IF returned = <<>> THEN Value(raw, name) ELSE GivenValue(linked, name)
        needed == RequestLength(length, Found("transfer-encoding"), Found("content-length"))
    IN ToRaw(IF needed = Undefined THEN linked ELSE Assign(linked, "content-length", needed))

-----------------------------------------------------------------------------

RawSample == UNION {[1..n -> HeaderName \X HeaderValue] : n \in 0..MaxHeaders}

\* Objects that change one header: removed, set, or set to two values.
ObjectSample == {<<<<name, values>>>> : name \in HeaderName \cup DOMAIN Cased,
                                        values \in {<<>>} \cup {<<v>> : v \in HeaderValue}
                                                     \cup {<<v, "2">> : v \in HeaderValue}}

Methods == {"GET", "HEAD", "POST"}

\* The new values are last, other headers stay as and where they were, and no old value of
\* the name is left, except after one of the same name.
UpdatesOverride ==
    \A raw \in RawSample, object \in ObjectSample :
        LET name == Lower(object[1][1])
            updated == UpdateRaw(raw, object)
            kept == SubSeq(updated, 1, Len(updated) - Len(object[1][2]))
        IN /\ updated = kept \o ToRaw(object)
           /\ Without(updated, {name}) = Without(raw, {name})
           /\ Has(kept, name) => \E i \in 2..Len(raw) : raw[i][1] = name /\ raw[i - 1][1] = name

\* A request that goes down to HTTP/1 keeps what is not pseudo, has one host if it named an
\* authority, its cookies once, and framing.
DowngradeKeeps ==
    \A raw \in RawSample, method \in Methods :
        LET h1 == ForUpstream(raw, method, TRUE, FALSE)
            own == Pseudo \cup {"host", "cookie", "transfer-encoding"}
        IN /\ Without(h1, own) = Without(raw, own)
           /\ \A name \in Pseudo : ~Has(h1, name)
           /\ Has(raw, ":authority") /\ ~Has(raw, "host") =>
                  FindAll(h1, "host") = <<<<"host", Value(raw, ":authority")>>>>
           /\ Has(raw, "host") => FindAll(h1, "host") = FindAll(raw, "host")
           /\ Has(raw, "cookie") => Len(FindAll(h1, "cookie")) = 1
           /\ method = "POST" => Has(h1, "content-length") \/ Has(h1, "transfer-encoding")

UpgradeKeeps ==
    \A raw \in RawSample : \A i \in DOMAIN raw :
        Contains(ForClient(raw, {}, TRUE), raw[i]) <=> raw[i][1] \notin IllegalInH2 \cup {":status"}

(***************************************************************************)
(* An update overrides, and leaves all other headers as they were.  Both   *)
(* translations between HTTP versions keep all headers that are not theirs,*)
(* and what the other version needs is there.                              *)
(***************************************************************************)
OthersUntouched == UpdatesOverride /\ DowngradeKeeps /\ UpgradeKeeps

\* Framing is what the sender says once: chunked, or one length.
FramedOnce(raw) == Len(FindAll(raw, "content-length")) + Len(FindAll(raw, "transfer-encoding")) <= 1

Framed(raw, length) ==
    \/ Chunked(raw)
    \/ \A i \in DOMAIN FindAll(raw, "content-length") :
           FindAll(raw, "content-length")[i][2] = length

\* A change that takes framing away, or makes it ambiguous, is sent as it is.
Reframes(kind, object) ==
    /\ kind # "none"
    /\ Lower(object[1][1]) \in {"transfer-encoding", "content-length"}
    /\ \/ Len(object[1][2]) # 1
       \/ Lower(object[1][1]) = "transfer-encoding" /\ ~Chunked(ToRaw(object))

\* A length under a name in another case, which the lookups in an object do not find.
MissedLength(kind, object) ==
    /\ kind # "none"
    /\ Lower(object[1][1]) = "content-length"
    /\ object[1][1] # "content-length"

SaneChanges ==
    {change \in Changes \X ObjectSample :
         ~Reframes(change[1], change[2]) /\ ~MissedLength(change[1], change[2])}
SaneSample == {raw \in RawSample : FramedOnce(raw)}

RequestsFramed ==
    \A raw \in SaneSample, change \in SaneChanges, length \in {"1", "2"} :
        LET returned == IF change[1] = "none" THEN <<>> ELSE change[2]
            transformed == TransformedRequest(raw, change[1], change[2], length)
            called == CallbackRequest(raw, returned, "target", length)
        IN /\ \A r \in {transformed, called} :
                  Framed(r, length) /\ (Chunked(r) \/ Has(r, "content-length"))
           /\ Has(called, "host")

ResponsesFramed ==
    \A raw \in SaneSample, change \in SaneChanges, length \in {"1", "2"}, method \in {"GET", "POST"} :
        Framed(TransformedResponse(raw, change[1], change[2], length, method), length)

(***************************************************************************)
(* Whatever headers a rule changes with the body of an HTTP/1 message, the *)
(* framing matches the new body: a request is chunked or has the length of *)
(* the body, and a response has no other length, unless it answers a HEAD. *)
(* A rule that removes the framing, or repeats it, is taken at its word,   *)
(* and so is one that gives a length under a name that is not in lower     *)
(* case, which is not found in the rule's object.                          *)
(***************************************************************************)
FramingMatchesBody == RequestsFramed /\ ResponsesFramed

=============================================================================
