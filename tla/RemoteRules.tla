------------------------------ MODULE RemoteRules ------------------------------
(***************************************************************************)
(* The rules of a remote client: what becomes of a rule that is serialized,*)
(* sent to the admin server as JSON and deserialized there.                *)
(*                                                                         *)
(* A value is <<kind, content>>: contents stand for bytes and their text   *)
(* alike.  An object holds a function of its keys and a list a sequence.   *)
(***************************************************************************)
EXTENDS Naturals, Sequences, FiniteSets, TLC

CONSTANTS
    Word,       \* contents of the sample values
    Callback,   \* functions of the user
    RuleParam   \* names of the rule parameters that the admin server has

Undef == <<"undefined", "">>
Null == <<"null", "">>
Text(t) == <<"string", t>>
Bytes(t) == <<"Buffer", t>>
Array(t) == <<"Uint8Array", t>>
Regex(source, flags) == <<"RegExp", <<source, flags>> >>
Func(f) == <<"function", f>>
Ref(p) == <<"reference", p>>
Object(o) == <<"object", o>>
List(s) == <<"list", s>>
Thrown == <<"throws", "">>

Kind(v) == v[1]
Content(v) == v[2]
Truthy(v) == v \notin {Undef, Null, Text("")}
IfTruthy(v, then) == IF Truthy(v) THEN then ELSE Undef
Field(v, k) == IF Kind(v) = "object" /\ k \in DOMAIN Content(v) THEN Content(v)[k] ELSE Undef
MapList(Op(_), v) == List([i \in DOMAIN Content(v) |-> Op(Content(v)[i])])
MapValues(Op(_), v) == Object([k \in DOMAIN Content(v) |-> Op(Content(v)[k])])
MapFields(Op(_, _), v) == Object([k \in DOMAIN Content(v) |-> Op(k, Content(v)[k])])

\* asBuffer of util/buffer-utils.
AsBuffer(v) == Bytes(Content(v))

\* What JSON.stringify and JSON.parse leave: undefined, functions and symbols are dropped, or
\* null in a list; Buffers and typed arrays become plain objects.
RECURSIVE Json(_)
Json(v) ==
    CASE Kind(v) \in {"undefined", "function"} -> Undef
      [] Kind(v) = "Buffer" -> <<"bufferObject", Content(v)>>
      [] Kind(v) = "Uint8Array" -> <<"indexedObject", Content(v)>>
      [] Kind(v) \in {"RegExp", "reference"} -> <<"emptyObject", "">>
      [] Kind(v) = "object" ->
             Object([k \in {k \in DOMAIN Content(v) : Json(Content(v)[k]) # Undef} |-> Json(Content(v)[k])])
      [] Kind(v) = "list" -> MapList(LAMBDA e : IF Json(e) = Undef THEN Null ELSE Json(e), v)
      [] OTHER -> v

-----------------------------------------------------------------------------
(* Match and replace pairs, as lists of <<match, replacement>>. *)

SerializeRegex(m) ==
    IF Kind(m) = "RegExp"
    THEN Object([regexSource |-> Text(Content(m)[1]), flags |-> Text(Content(m)[2])])
    ELSE m

DeserializeRegex(m) ==
    IF Field(m, "regexSource") # Undef
    THEN Regex(Content(Field(m, "regexSource")), Content(Field(m, "flags")))
    ELSE m

MapMatches(Op(_), pairs) ==
    MapList(LAMBDA p : List(<<Op(Content(p)[1]), Content(p)[2]>>), pairs)

-----------------------------------------------------------------------------
(* Proxy configuration. *)

\* Certificates are sent as text, whatever they were given as.
CaText(ca) == IF Kind(ca) = "Buffer" THEN Text(Content(ca)) ELSE ca

\* serializeProxyConfig: a callback stays with the client, under an id of its own.
RECURSIVE SerializeProxy(_)
SerializeProxy(config) ==
    CASE Kind(config) = "function" -> Text(Content(config))
      [] Kind(config) = "list" -> MapList(SerializeProxy, config)
      [] Kind(config) = "reference" -> Object([paramReference |-> Text(Content(config))])
      [] Kind(config) = "object" ->
             MapFields(LAMBDA k, v : IF k = "trustedCAs" THEN MapList(CaText, v) ELSE v, config)
      [] OTHER -> Undef

\* deserializeProxyConfig, where ensureParamsDeferenced throws for an unknown parameter.
ParamValue(p) == IF p \in RuleParam THEN Object([proxyUrl |-> Text(p)]) ELSE Thrown

RECURSIVE DeserializeProxy(_)
DeserializeProxy(data) ==
    CASE Kind(data) = "string" -> Func(Content(data))
      [] Kind(data) = "list" ->
             LET configs == MapList(DeserializeProxy, data) IN
             IF \E i \in DOMAIN Content(configs) : Content(configs)[i] = Thrown THEN Thrown ELSE configs
      [] Field(data, "paramReference") # Undef -> ParamValue(Content(Field(data, "paramReference")))
      [] OTHER -> data

\* getProxySetting, on what is configured: the first of a list that has an answer.  A callback
\* answers with a setting, or not at all.
Answer(f) == IF f = CHOOSE g \in Callback : TRUE THEN Undef ELSE Object([proxyUrl |-> Text(f)])

RECURSIVE ProxySetting(_)
ProxySetting(config) ==
    CASE Kind(config) = "function" -> Answer(Content(config))
      [] Kind(config) = "list" ->
             LET settings == [i \in DOMAIN Content(config) |-> ProxySetting(Content(config)[i])]
                 found == {i \in DOMAIN settings : Truthy(settings[i])}
             IN IF found = {} THEN Undef ELSE settings[CHOOSE i \in found : \A j \in found : i <= j]
      [] Kind(config) = "object" ->
             MapFields(LAMBDA k, v : IF k = "trustedCAs" THEN MapList(CaText, v) ELSE v, config)
      [] config = Thrown -> Thrown
      [] OTHER -> Undef

-----------------------------------------------------------------------------
(* Transforms of passed-through messages. *)

UpdateFields == {"updateHeaders", "updateJsonBody"}
PairFields == {"matchReplacePath", "matchReplaceQuery", "matchReplaceBody"}
Omitted == Text("__mockttp__transform__omit__")

\* Mutant: undefined is left to JSON.
KeepUndefined(v) == v

\* The replacer of JSON.stringify is called at every level ...
RECURSIVE MarkUndefined(_)
MarkUndefined(v) ==
    IF v = Undef THEN Omitted ELSE IF Kind(v) = "object" THEN MapValues(MarkUndefined, v) ELSE v

\* ... and mapOmitToUndefined looks at the first one only.
MapOmitToUndefined(v) == MapValues(LAMBDA e : IF e = Omitted THEN Undef ELSE e, v)

SerializeUpdate(v) == <<"json", Json(MarkUndefined(v))>>

SerializeChange(k, v) ==
    CASE k = "replaceBody" -> IfTruthy(v, Text(Content(AsBuffer(v))))
      [] k \in UpdateFields -> IfTruthy(v, SerializeUpdate(v))
      [] k = "matchReplaceHost" ->
             IfTruthy(v, MapFields(LAMBDA f, e : IF f = "replacements" THEN MapMatches(SerializeRegex, e) ELSE e, v))
      [] k \in PairFields -> IfTruthy(v, MapMatches(SerializeRegex, v))
      [] OTHER -> v

DeserializeChange(k, v) ==
    CASE v = Undef -> Undef
      [] k = "replaceBody" -> Bytes(Content(v))
      [] k \in UpdateFields -> MapOmitToUndefined(Content(v))
      [] k = "matchReplaceHost" ->
             MapFields(LAMBDA f, e : IF f = "replacements" THEN MapMatches(DeserializeRegex, e) ELSE e, v)
      [] k \in PairFields -> MapMatches(DeserializeRegex, v)
      [] OTHER -> v

SerializeTransform(t) == IfTruthy(t, MapFields(SerializeChange, t))
DeserializeTransform(t) == IfTruthy(t, MapFields(DeserializeChange, t))

-----------------------------------------------------------------------------
(* Steps. *)

With(v, k, e) == Object((k :> e) @@ (IF Kind(v) = "object" THEN Content(v) ELSE <<>>))
Type(s) == Content(Field(s, "type"))
True == <<"boolean", "true">>
PassThroughTypes == {"passthrough", "ws-passthrough"}

\* The chunks of a stream that StreamStep.serialize sends, and what StreamStepImpl.deserialize
\* pushes of them: an empty text is not pushed, a failure of the stream is not sent.
SerializeChunk(chunk) ==
    Object([type |-> Text(Kind(chunk)), value |-> Text(Content(chunk))])

DeserializeChunk(message) ==
    LET value == Field(message, "value") IN
    IF Field(message, "type") = Text("string") THEN value ELSE AsBuffer(value)

DeserializeStream(messages) ==
    List(SelectSeq(Content(MapList(DeserializeChunk, messages)), Truthy))

\* PassThroughStep.serialize, and the one for WebSockets.
SerializePassThrough(s) ==
    Object([type |-> Field(s, "type"),
            forwarding |-> Field(Field(s, "transformRequest"), "replaceHost"),
            proxyConfig |-> SerializeProxy(Field(s, "proxyConfig")),
            extraCACertificates |-> MapList(CaText, Field(s, "extraCACertificates")),
            clientCertificateHostMap |->
                MapValues(LAMBDA pfx : Text(Content(pfx)), Field(s, "clientCertificateHostMap")),
            ignoreHostCertificateErrors |-> Field(s, "ignoreHostHttpsErrors"),
            transformRequest |-> SerializeTransform(Field(s, "transformRequest")),
            transformResponse |-> SerializeTransform(Field(s, "transformResponse")),
            hasBeforeRequestCallback |-> IfTruthy(Field(s, "beforeRequest"), True),
            hasBeforeResponseCallback |-> IfTruthy(Field(s, "beforeResponse"), True)])

\* By default a step is sent as it is; callbacks and streams stay with the client, where the
\* channel of the step finds them.
SerializeStep(s) ==
    CASE Type(s) \in PassThroughTypes -> SerializePassThrough(s)
      [] Type(s) = "callback" -> Object([type |-> Field(s, "type")])
      [] Type(s) = "stream" ->
             Object([type |-> Field(s, "type"), messages |-> MapList(SerializeChunk, Field(s, "stream"))])
      [] OTHER -> s

\* Mutant: the target of a newer client is overridden too.
UpgradeAlways(data) ==
    LET forwarding == Field(data, "forwarding")
        transform == Field(data, "transformRequest")
    IN IF Truthy(forwarding)
       THEN With(data, "transformRequest", With(With(transform, "replaceHost", forwarding), "setProtocol", Undef))
       ELSE data

\* Older clients name the target as forwarding, with its protocol.
UpgradeForwarding(data) ==
    LET forwarding == Field(data, "forwarding")
        transform == Field(data, "transformRequest")
        target == Content(Field(forwarding, "targetHost"))
        update == Field(forwarding, "updateHostHeader")
        protocol == IF Kind(Field(forwarding, "targetHost")) = "url" THEN Text(target[1]) ELSE Undef
        host == IF Kind(Field(forwarding, "targetHost")) = "url" THEN target[2] ELSE target
        replaceHost == Object([targetHost |-> Text(host),
                               updateHostHeader |-> IF update \in {Undef, Null} THEN True ELSE update])
    IN IF Truthy(forwarding) /\ ~Truthy(Field(transform, "replaceHost"))
       THEN With(data, "transformRequest", With(With(transform, "replaceHost", replaceHost), "setProtocol", protocol))
       ELSE data

\* The deserialize methods, where s stands for what the channel reaches of the client's step.
DeserializePassThrough(sent, s) ==
    LET data == UpgradeForwarding(sent)
        proxy == DeserializeProxy(Field(data, "proxyConfig"))
    IN IF proxy = Thrown THEN Thrown
       ELSE Object([type |-> Field(data, "type"),
                    proxyConfig |-> proxy,
                    extraCACertificates |-> Field(data, "extraCACertificates"),
                    clientCertificateHostMap |-> MapValues(AsBuffer, Field(data, "clientCertificateHostMap")),
                    ignoreHostHttpsErrors |-> Field(data, "ignoreHostCertificateErrors"),
                    transformRequest |-> DeserializeTransform(Field(data, "transformRequest")),
                    transformResponse |-> DeserializeTransform(Field(data, "transformResponse")),
                    beforeRequest |-> IfTruthy(Field(data, "hasBeforeRequestCallback"), Field(s, "beforeRequest")),
                    beforeResponse |-> IfTruthy(Field(data, "hasBeforeResponseCallback"), Field(s, "beforeResponse"))])

DeserializeStep(data, s) ==
    CASE Type(data) \in PassThroughTypes -> DeserializePassThrough(data, s)
      [] Type(data) = "callback" -> Object([type |-> Field(data, "type"), callback |-> Field(s, "callback")])
      [] Type(data) = "stream" ->
             Object([type |-> Field(data, "type"), stream |-> DeserializeStream(Field(data, "messages")),
                     fails |-> Undef])
      [] OTHER -> data

-----------------------------------------------------------------------------
(* Rules. *)

\* serializeRuleData with validateMockRuleData; older servers know rules with one handler.
SerializeRule(rule, supportsSteps) ==
    LET steps == [i \in DOMAIN rule.steps |-> Json(SerializeStep(rule.steps[i]))] IN
    IF rule.matchers = <<>> \/ rule.steps = <<>> \/ (~supportsSteps /\ Len(rule.steps) # 1) THEN Thrown
    ELSE Object([priority |-> rule.priority,
                 matchers |-> Json(List(rule.matchers)),
                 steps |-> IF supportsSteps THEN List(steps) ELSE Undef,
                 handler |-> IF supportsSteps THEN Undef ELSE steps[1],
                 completionChecker |-> Json(rule.completionChecker)])

\* deserializeRuleData and deserializeWebSocketRuleData, which leaves the priority out.
DeserializeRule(data, rule) ==
    LET sent == IF Field(data, "steps") # Undef THEN Content(Field(data, "steps"))
                ELSE IF Field(data, "handler") # Undef THEN <<Field(data, "handler")>> ELSE <<>>
        steps == [i \in DOMAIN sent |-> DeserializeStep(sent[i], rule.steps[i])]
    IN IF \E i \in DOMAIN steps : steps[i] = Thrown THEN Thrown
       ELSE Object([priority |-> IF rule.kind = "ws" THEN Undef ELSE Field(data, "priority"),
                    matchers |-> Field(data, "matchers"),
                    steps |-> List(steps),
                    completionChecker |-> Field(data, "completionChecker")])

-----------------------------------------------------------------------------
(* The changes a passthrough may make: options tell whether there is a     *)
(* callback, and which changes of a message are given and truthy.          *)

Chains == <<<<"replaceHost", "matchReplaceHost">>,
            <<"updateHeaders", "replaceHeaders">>,
            <<"replaceBody", "replaceBodyFromFile", "updateJsonBody", "patchJsonBody", "matchReplaceBody">> >>
Chained(chain) == {chain[i] : i \in DOMAIN chain}
Change == UNION {Chained(Chains[c]) : c \in DOMAIN Chains} \cup {"setProtocol"}

\* Mutant: only given changes of a host and of headers exclude each other.
AcceptsAnyBody(options) ==
    /\ ~(options.callback /\ options.given # {})
    /\ \A c \in {1, 2} : Cardinality(Chained(Chains[c]) \cap options.truthy) <= 1

\* The constructors of PassThroughStep and PassThroughWebSocketStep.
Accepts(options) ==
    /\ ~(options.callback /\ options.given # {})
    /\ \A c \in DOMAIN Chains : Cardinality(Chained(Chains[c]) \cap options.truthy) <= 1

\* What handle does: the first truthy change of each chain, if there are no others in its way.
Applied(options) ==
    {k \in options.truthy :
        \A c \in DOMAIN Chains : \A i \in DOMAIN Chains[c] :
            Chains[c][i] = k => \A j \in 1..(i - 1) : Chains[c][j] \notin options.truthy}

-----------------------------------------------------------------------------
(* What the handlers read of a step. *)

\* The values that a JSON body or header is left without.
RECURSIVE Merged(_)
Merged(v) ==
    IF v = Undef THEN <<"removed", "">> ELSE IF Kind(v) = "object" THEN MapValues(Merged, v) ELSE v

Effect(k, v) ==
    CASE k = "replaceBody" -> IfTruthy(v, AsBuffer(v))
      [] k \in UpdateFields -> IfTruthy(v, Merged(v))
      [] OTHER -> v

Present(v) == Object([k \in {k \in DOMAIN Content(v) : Content(v)[k] # Undef} |-> Content(v)[k]])
TransformEffect(t) == IfTruthy(t, Present(MapFields(Effect, t)))

\* FixedResponseStepImpl revives a Buffer, RejectWebSocketStepImpl does not.
DataEffect(s) ==
    LET data == Field(s, "data") IN
    CASE data = Undef -> Bytes("")
      [] Kind(data) \in {"string", "Buffer", "Uint8Array"} -> AsBuffer(data)
      [] Kind(data) = "bufferObject" /\ Type(s) = "simple" -> Bytes(Content(data))
      [] OTHER -> Thrown

StreamEffect(s) ==
    [chunks |-> SelectSeq(Content(MapList(AsBuffer, Field(s, "stream"))), LAMBDA b : b # Bytes("")),
     ends |-> IF Field(s, "fails") = True THEN "aborted" ELSE "ended"]

Meaning(s) ==
    CASE s = Thrown -> Thrown
      [] Type(s) \in PassThroughTypes ->
             [proxy |-> ProxySetting(Field(s, "proxyConfig")),
              cas |-> MapList(CaText, Field(s, "extraCACertificates")),
              certificates |-> Field(s, "clientCertificateHostMap"),
              https |-> Field(s, "ignoreHostHttpsErrors"),
              request |-> TransformEffect(Field(s, "transformRequest")),
              response |-> TransformEffect(Field(s, "transformResponse")),
              before |-> <<Field(s, "beforeRequest"), Field(s, "beforeResponse")>>]
      [] Type(s) = "callback" -> Field(s, "callback")
      [] Type(s) = "stream" -> StreamEffect(s)
      [] OTHER -> DataEffect(s)

-----------------------------------------------------------------------------
(* Samples. *)

SomeWord == Word \cup {""}
SomeData == {Undef} \cup UNION {{Text(w), Bytes(w), Array(w)} : w \in SomeWord}
SomeLeaf == {Undef, Null} \cup {Text(w) : w \in Word}
SomeUpdate == {Object([x |-> v]) : v \in SomeLeaf \cup {Object([y |-> n]) : n \in SomeLeaf}}
SomePairs == {List(<<List(<<m, Text(w)>>)>>) :
                 m \in {Text(v) : v \in Word} \cup {Regex(v, f) : v \in Word, f \in {"", "g"}}, w \in SomeWord}
SomeHost == {Object([targetHost |-> Text(w)]) : w \in Word}
SomeSetting == {Object([proxyUrl |-> Text(w), trustedCAs |-> List(<<ca>>)]) :
                   w \in Word, ca \in {Text(v) : v \in Word} \cup {Bytes(v) : v \in Word}}
SomeSource == {Undef} \cup {Func(f) : f \in Callback} \cup SomeSetting
SomeProxy == SomeSource \cup {List(<<a, b>>) : a, b \in SomeSource}

SomeTransform ==
    {Undef}
    \cup {Object("replaceBody" :> v) : v \in SomeData}
    \cup {Object(k :> v) : k \in UpdateFields, v \in SomeUpdate}
    \cup {Object(k :> v) : k \in PairFields, v \in SomePairs}
    \cup {Object([matchReplaceHost |-> Object([replacements |-> v])]) : v \in SomePairs}
    \cup {Object([replaceHost |-> h, setProtocol |-> p]) : h \in SomeHost, p \in {Undef, Text("https")}}

BasicStep == Object([type |-> Text("passthrough"), extraCACertificates |-> List(<<>>),
                     clientCertificateHostMap |-> Object(<<>>)])

PassThroughSteps ==
    {With(BasicStep, "proxyConfig", p) : p \in SomeProxy}
    \cup {With(BasicStep, k, t) : k \in {"transformRequest", "transformResponse"}, t \in SomeTransform}
    \cup {With(BasicStep, k, Func(f)) : k \in {"beforeRequest", "beforeResponse"}, f \in Callback}
    \cup {With(BasicStep, "extraCACertificates", List(<<ca>>)) :
             ca \in {Text(w) : w \in Word} \cup {Bytes(w) : w \in Word}}
    \cup {With(BasicStep, "clientCertificateHostMap", Object([host |-> Bytes(w)])) : w \in Word}
    \cup {With(BasicStep, "ignoreHostHttpsErrors", True)}

OtherSteps ==
    {Object([type |-> Text("callback"), callback |-> Func(f)]) : f \in Callback}
    \cup {Object([type |-> Text("stream"), stream |-> List(<<a, b>>), fails |-> f]) :
             a, b \in SomeData \ {Undef}, f \in {Undef, True}}
    \cup {Object([type |-> Text("simple"), data |-> d]) : d \in SomeData}
    \cup {Object([type |-> Text("ws-reject"), data |-> d]) : d \in SomeData}

\* What is known not to arrive: an undefined value below the first level of a JSON update, typed
\* arrays as data, Buffers to reject a WebSocket with, and the failure of a stream.
Portable(s) ==
    CASE Type(s) = "simple" -> Kind(Field(s, "data")) # "Uint8Array"
      [] Type(s) = "ws-reject" -> Kind(Field(s, "data")) \notin {"Buffer", "Uint8Array"}
      [] Type(s) = "stream" -> Field(s, "fails") # True
      [] Type(s) = "passthrough" ->
             \A k \in {"transformRequest", "transformResponse"}, u \in UpdateFields :
                 Field(Field(Field(Field(s, k), u), "x"), "y") # Undef
                 \/ Kind(Field(Field(Field(s, k), u), "x")) # "object"
      [] OTHER -> TRUE

-----------------------------------------------------------------------------
(* The laws. *)

\* A step does on the server what it does where it was made, but for what Portable names.
StepsArrive ==
    \A s \in PassThroughSteps \cup OtherSteps :
        (Meaning(DeserializeStep(Json(SerializeStep(s)), s)) = Meaning(s)) <=> Portable(s)

\* A reference to a parameter is that parameter, alone or in a list; the step is refused when the
\* server has no such parameter.
ReferencesResolve ==
    \A p \in RuleParam \cup {"unknown"}, first \in SomeSource :
        LET Arrived(config) == Meaning(DeserializeStep(Json(SerializeStep(With(BasicStep, "proxyConfig", config))), BasicStep))
            Local(config) == Meaning(With(BasicStep, "proxyConfig", config))
        IN IF p \in RuleParam
           THEN /\ Arrived(Ref(p)) = Local(ParamValue(p))
                /\ Arrived(List(<<first, Ref(p)>>)) = Local(List(<<first, ParamValue(p)>>))
           ELSE Arrived(Ref(p)) = Thrown /\ Arrived(List(<<first, Ref(p)>>)) = Thrown

\* The target of an older client, with or without a protocol, is one of a newer client.
ForwardingUnderstood ==
    \A h \in Word, protocol \in {"", "https"} :
        LET old == With(BasicStep, "forwarding",
                        Object([targetHost |-> IF protocol = "" THEN Text(h) ELSE <<"url", <<protocol, h>> >>]))
            new == Object([replaceHost |-> Object([targetHost |-> Text(h), updateHostHeader |-> True]),
                           setProtocol |-> IF protocol = "" THEN Undef ELSE Text(protocol)])
        IN Meaning(DeserializeStep(old, old)) = Meaning(With(BasicStep, "transformRequest", new))

\* A rule arrives with its parts, in order, or is refused: only a WebSocket rule loses its priority,
\* and only a rule of several steps is refused by older servers.
SomeRule ==
    [kind : {"http", "ws"}, priority : {Undef, <<"number", "5">>}, matchers : {<<>>, <<Text("wildcard")>>},
     steps : UNION {[1..n -> {With(BasicStep, "ignoreHostHttpsErrors", True),
                              Object([type |-> Text("simple"), data |-> Bytes("a")])}] : n \in 0..2},
     completionChecker : {Undef, Text("always")}]

RulesArrive ==
    \A rule \in SomeRule, supportsSteps \in BOOLEAN :
        LET sent == SerializeRule(rule, supportsSteps)
            got == DeserializeRule(Json(sent), rule)
        IN IF rule.matchers = <<>> \/ rule.steps = <<>> \/ (~supportsSteps /\ Len(rule.steps) > 1) THEN sent = Thrown
           ELSE /\ Field(got, "priority") = (IF rule.kind = "ws" THEN Undef ELSE rule.priority)
                /\ Field(got, "matchers") = List(rule.matchers)
                /\ Field(got, "completionChecker") = rule.completionChecker
                /\ [i \in DOMAIN Content(Field(got, "steps")) |-> Meaning(Content(Field(got, "steps"))[i])]
                       = [i \in DOMAIN rule.steps |-> Meaning(rule.steps[i])]

\* No truthy change of an accepted step is passed over.
ChangesApply ==
    \A given \in SUBSET Change : \A truthy \in SUBSET given : \A callback \in BOOLEAN :
        LET options == [callback |-> callback, given |-> given, truthy |-> truthy] IN
        Accepts(options) => Applied(options) = truthy

RemoteLaws == StepsArrive /\ ReferencesResolve /\ ForwardingUnderstood /\ RulesArrive

=============================================================================
