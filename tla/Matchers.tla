-------------------------------- MODULE Matchers --------------------------------
(***************************************************************************)
(* What the matchers of a rule say of a request.                           *)
(*                                                                         *)
(* A URL is written as a scheme, a name, a port (0 if none is written), a  *)
(* path and a query.  The URL of a request was normalised when it arrived: *)
(* its name is in lower case, and its port is none if it is the default.   *)
(* URLs of path matchers are normalised by normalizeUrl, which knows HTTP  *)
(* only.  Bodies are written as what each way of reading them results in.  *)
(***************************************************************************)
EXTENDS Integers, Sequences, SequencesExt

Http == {"http", "https"}
WebSocket == {"ws", "wss"}
DefaultOf(scheme) == IF scheme \in {"https", "wss"} THEN 443 ELSE 80

-----------------------------------------------------------------------------
(* Names and paths as they can be written *)

Lower(name) == IF name = "A" THEN "a" ELSE name
Undotted(name) == IF name = "a." THEN "a" ELSE name
Canonical(path) == IF path = "/%e1" THEN "/%E1" ELSE path

\* normalizeUrl: the query is cut off, and a URL without http is parsed as if it were http.
\* So a ws URL is kept as it is, all but the encoding of its path.
NormalUrl(u) ==
    IF u.scheme \in WebSocket
      THEN [scheme |-> u.scheme, name |-> u.name, port |-> u.port, path |-> Canonical(u.path)]
      ELSE LET parsedAs == IF u.scheme = "none" THEN "http" ELSE u.scheme IN
           [scheme |-> u.scheme,
            name |-> Undotted(Lower(u.name)),
            port |-> IF u.port = DefaultOf(parsedAs) THEN 0 ELSE u.port,
            path |-> Canonical(IF u.path = "" THEN "/" ELSE u.path)]

\* getUrlWithoutProtocol of a normalised URL: no :// is left in those of WebSockets.
WithoutProtocol(u) == IF u.scheme \in WebSocket THEN u ELSE [u EXCEPT !.scheme = "none"]

-----------------------------------------------------------------------------
(* Matchers of the URL; r is the request *)

ProtocolMatches(scheme, r) == r.scheme = scheme

\* A matcher for port 80 or 443 can not be compared with a port that was erased.
ErasedHere(port, r) == r.scheme \in Http /\ port = DefaultOf(r.scheme)

HostnameMatches(name, r) == r.name = name

\* Mutant: the port is compared as it is written.
PortAsWritten(port, r) == r.port = port

PortMatches(port, r) == r.port = IF ErasedHere(port, r) THEN 0 ELSE port

HostMatches(name, port, r) ==
    r.name = name /\ r.port = IF ErasedHere(port, r) THEN 0 ELSE port

\* FlexiblePathMatcher.
RelativePathMatches(path, r) == NormalUrl(r).path = Canonical(path)

UrlMatches(u, r) ==
    IF u.scheme \in Http THEN NormalUrl(r) = NormalUrl(u)
    ELSE WithoutProtocol(NormalUrl(r)) = NormalUrl(u)

\* A regular expression is the URLs and paths that it accepts.
RegexUrlMatches(urls, r) == NormalUrl(r) \in urls
RegexPathMatches(urls, paths, r) == NormalUrl(r) \in urls \/ NormalUrl(r).path \in paths

-----------------------------------------------------------------------------
(* Partial comparison *)

Occurrences(values, v) == Len(SelectSeq(values, LAMBDA w : w = v))

\* _.isMatch of values: one is equal, of several those that are expected are among them.
ValuesMatch(values, expected) ==
    \/ values = expected
    \/ /\ Len(values) > 1 /\ Len(expected) # 1
       /\ \A v \in ToSet(expected) : Occurrences(expected, v) <= Occurrences(values, v)

IsMatch(object, expected) ==
    \A key \in DOMAIN expected :
        key \in DOMAIN object /\ ValuesMatch(object[key], expected[key])

\* Parameters of a query or form, in order, as an object.
AsObject(pairs) ==
    [key \in {pair[1] : pair \in ToSet(pairs)} |->
        LET of == SelectSeq(pairs, LAMBDA pair : pair[1] = key) IN
        [i \in DOMAIN of |-> of[i][2]]]

QueryMatches(expected, r) == IsMatch(AsObject(r.query), expected)

\* Mutant: parameters in any order.
UnorderedQuery(pairs, r) == AsObject(pairs) = AsObject(r.query) \/ r.query = <<>>

\* The text is compared, so the order counts.
ExactQueryMatches(pairs, r) == pairs = r.query

HeaderMatches(expected, headers) == IsMatch(headers, expected)

\* One cookie of the request is the one expected, which has to be one only.
CookieMatches(expected, cookies) == \E cookie \in cookies : expected = {cookie}

-----------------------------------------------------------------------------
(* Matchers of the body: true, false, or rejected if it can not be read.  A body has a    *)
(* type, and its text, JSON, parameters or parts; Unreadable is what can not be decoded.  *)

Unreadable == "unreadable"

Answer(condition) == IF condition THEN "true" ELSE "false"

\* Decoding is part of every reader, parsing of asJson only.
OfText(body, condition) == IF body.text = Unreadable THEN "rejected" ELSE Answer(condition)

RawBodyAnswer(text, body) == OfText(body, body.text = text)
RawBodyIncludesAnswer(texts, body) == OfText(body, body.text \in texts)

\* A body that is no JSON does not match, whatever the reason.
JsonAnswer(json, body) ==
    Answer(body.text # Unreadable /\ body.isJson /\ AsObject(body.pairs) = AsObject(json))
JsonFlexibleAnswer(json, body) ==
    Answer(body.text # Unreadable /\ body.isJson /\ IsMatch(AsObject(body.pairs), AsObject(json)))

FormDataAnswer(pairs, body) ==
    IF body.type # "form" THEN "false"
    ELSE OfText(body, IsMatch(AsObject(body.pairs), AsObject(pairs)))

\* Each condition holds of some part, and may say less than there is.
MultipartAnswer(conditions, body) ==
    IF body.type # "multipart" THEN "false"
    ELSE OfText(body, \A condition \in conditions : \E pair \in ToSet(body.pairs) :
                          /\ condition[1] \in {"any", pair[1]}
                          /\ condition[2] \in {"any", pair[2]})

\* getText of a completed request: decoded when it is asked for, and nothing if that fails.
NoText == "undefined"
TextRead(body) == IF body.text = Unreadable THEN NoText ELSE body.text

\* The callback is called with the completed request, whether or not its body can be decoded, and
\* its promise is the answer: callback is what it answers to each text.
CallbackAnswer(callback, body) == callback[TextRead(body)]

\* matchesAll: a matcher that answers "no" at once is the last to be asked; or else the first
\* mismatch or rejection of those that are awaited decides.
MatchesAll(answers) ==
    IF "no" \in ToSet(answers) THEN {"false"}
    ELSE IF ToSet(answers) \cap {"false", "rejected"} # {}
           THEN ToSet(answers) \cap {"false", "rejected"}
    ELSE {"true"}

-----------------------------------------------------------------------------

Names == {"a", "a.", "b"}
PortNumbers == {80, 443, 8000}
Paths == {"/", "/%e1", "/%E1"}
Pairs == BoundedSeq({"k", "l"} \X {"1", "2"}, 2)

RequestUrl ==
    {u \in [scheme : Http \cup WebSocket, name : Names, port : {0} \cup PortNumbers,
            path : Paths, query : Pairs] : u.port # DefaultOf(u.scheme)}

WrittenUrl ==
    [scheme : Http \cup {"none"}, name : Names \cup {"A"}, port : {0} \cup PortNumbers,
     path : {""} \cup Paths]

EffectivePortOf(u) == IF u.port = 0 THEN DefaultOf(u.scheme) ELSE u.port

\* For HTTP a port matcher says what the effective port is, and a host matcher that the name
\* and the port match; for WebSockets neither is true of the default port.
HostMatchersAgree ==
    \A r \in RequestUrl, name \in Names, port \in PortNumbers :
        /\ PortMatches(port, r) <=>
               (EffectivePortOf(r) = port /\ (r.scheme \in Http \/ port # DefaultOf(r.scheme)))
        /\ HostMatches(name, port, r) <=> (HostnameMatches(name, r) /\ PortMatches(port, r))
        /\ HostMatches(name, 0, r) <=>
               (HostnameMatches(name, r) /\ EffectivePortOf(r) = DefaultOf(r.scheme))

NameMatches(u, r) ==
    \E name \in Names : Undotted(name) = Undotted(Lower(u.name)) /\ HostnameMatches(name, r)

PathMatches(u, r) == RelativePathMatches(IF u.path = "" THEN "/" ELSE u.path, r)

MatchesWithEither(u, r) == \E scheme \in Http : UrlMatches([u EXCEPT !.scheme = scheme], r)

\* A URL is its protocol, its port, its path and its name, all but a last dot of the name.
UrlIsItsParts(u, r) ==
    /\ UrlMatches(u, r) <=> RegexUrlMatches({NormalUrl(u)}, r)
    /\ UrlMatches(u, r) <=> (NameMatches(u, r) /\ PathMatches(u, r) /\ ProtocolMatches(u.scheme, r)
                                  /\ PortMatches(EffectivePortOf(u), r))

\* A URL without a protocol is the one with either.
UrlIsOfEither(u, r) ==
    /\ PathMatches(u, r) <=> RegexPathMatches({}, {NormalUrl(u).path}, r)
    /\ u.port \in {0, 8000} => (UrlMatches(u, r) <=> MatchesWithEither(u, r))

UrlMatchersAgree ==
    \A r \in {u \in RequestUrl : u.scheme \in Http /\ u.query = <<>>}, u \in WrittenUrl :
        IF u.scheme # "none" THEN UrlIsItsParts(u, r) ELSE UrlIsOfEither(u, r)

BodySample ==
    [type : {"form", "multipart", "other"}, text : {"text", Unreadable}, pairs : Pairs,
     isJson : BOOLEAN]

\* A callback that compares the text, and one that does not look at it.
ComparesText == [text \in {"text", NoText} |-> Answer(text = "text")]
IgnoresText == [text \in {"text", NoText} |-> "true"]

\* Exact matchers are stricter than flexible ones, and none of them matches what can not be read,
\* nor does a callback that compares the text; but callbacks are asked even then.
ExactIsStricter ==
    /\ \A r \in {u \in RequestUrl : u.port = 0 /\ u.path = "/"}, pairs \in Pairs :
           ExactQueryMatches(pairs, r) =>
               QueryMatches(AsObject(pairs), r) /\ HeaderMatches(AsObject(pairs), AsObject(r.query))
    /\ \A body \in BodySample, json \in Pairs :
           /\ JsonAnswer(json, body) = "true" => JsonFlexibleAnswer(json, body) = "true"
           /\ JsonFlexibleAnswer(json, body) = "true" /\ body.type = "form" =>
                  FormDataAnswer(json, body) = "true"
           /\ MultipartAnswer(ToSet(json), body) = "true" =>
                  /\ MultipartAnswer({<<pair[1], "any">> : pair \in ToSet(json)}, body) = "true"
                  /\ \A pair \in ToSet(json) : CookieMatches({pair}, ToSet(body.pairs))
           /\ RawBodyAnswer("text", body) = RawBodyIncludesAnswer({"text", "other"}, body)
           /\ body.text = Unreadable =>
                  "true" \notin {JsonAnswer(json, body), FormDataAnswer(json, body),
                                 RawBodyAnswer("text", body)}
           /\ CallbackAnswer(ComparesText, body) = "true" <=> RawBodyAnswer("text", body) = "true"
           /\ CallbackAnswer(IgnoresText, body) = "true"

\* However many wait, a rule matches only if all of its matchers do, and whenever they do.
AllMeansAll ==
    \A answers \in BoundedSeq({"true", "false", "rejected", "no"}, 3) :
        /\ "true" \in MatchesAll(answers) <=> (ToSet(answers) \subseteq {"true"})
        /\ "rejected" \in MatchesAll(answers) => "rejected" \in ToSet(answers)

(***************************************************************************)
(* Matchers that say the same in different ways agree, though they compare *)
(* different texts, normalised by different parsers: host and port, URL    *)
(* and its parts, exact and flexible; and a rule matches if all of them do.*)
(***************************************************************************)
MatcherLaws == HostMatchersAgree /\ UrlMatchersAgree /\ ExactIsStricter /\ AllMeansAll

=============================================================================
