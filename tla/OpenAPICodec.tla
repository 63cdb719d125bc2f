------------------------------ MODULE OpenAPICodec ------------------------------
(***************************************************************************)
(* A call over OpenAPI and back (openapi/src/adapters/standard/                *)
(* openapi-link-codec.ts, openapi-handler-codec.ts): its input goes into the    *)
(* path, the query and the body of a request by the styles and the structure of *)
(* the procedure, and is put together again from them; its outcome goes into a    *)
(* response.                                                                 *)
(*                                                                         *)
(* A value is a text, a number, null, undefined, a list or an object of those.  *)
(* A text is a sequence of symbols, of which a delimiter is one.  URLs, which   *)
(* escape what a text holds and give it back, and bodies are external; headers   *)
(* and files are left out.  Parameters and keys of the query have different      *)
(* names, and an input has the shape that its structure and styles ask for.      *)
(***************************************************************************)
EXTENDS Integers, Sequences, SequencesExt

CONSTANTS
  Exchanges \* calls: [get, detailed, paramStyles, queryStyles, params, data, body, outcome]

VARIABLES
  exchange, \* one of them: paramStyles and params are functions from the parameters of the
            \* path, data is an object, of which the styles in queryStyles are for some keys,
            \* and body goes into a body of its own when the structure is detailed
  at,       \* "called", "refused", "requested", "served", "answered" or "returned"
  encoded,  \* the request made of its input: [params, query, body]
  decoded,  \* the input made of that: [params, data, body]
  response, \* what was made of the outcome: [status, body]
  result    \* and of that: [kind, status, value]

codecVars == <<exchange, at, encoded, decoded, response, result>>

Text(symbols) == [is |-> "text", text |-> symbols]
Num == [is |-> "number", text |-> <<"1">>]
Null == [is |-> "null"]
Missing == [is |-> "undefined"]
List(items) == [is |-> "list", items |-> items]
Fields(fields) == [is |-> "object", fields |-> fields]

CodecInit(exchanges) ==
  /\ exchange \in exchanges
  /\ at = "called" /\ encoded = <<>> /\ decoded = <<>> /\ response = <<>> /\ result = <<>>

FieldsOf(v) == IF v.is = "object" THEN v.fields ELSE <<>>
IsNothing(v) == v.is \in {"null", "undefined"}
Without(of, keys) == [k \in DOMAIN of \ keys |-> of[k]]
Given(of) == Without(of, { k \in DOMAIN of : IsNothing(of[k]) })

\* OpenAPIJsonSerializer, of the fields and of what they hold: fields that are undefined go,
\* items become null.
Item(v) == IF v.is = "undefined" THEN Null ELSE v
Defined(of) == Without(of, { k \in DOMAIN of : of[k].is = "undefined" })
Inner(v) ==
  CASE v.is = "list" -> List([i \in DOMAIN v.items |-> Item(v.items[i])])
    [] v.is = "object" -> Fields(Defined(v.fields))
    [] OTHER -> v
AsJson(v) ==
  IF v.is = "object" THEN Fields([k \in DOMAIN Defined(v.fields) |-> Inner(v.fields[k])]) ELSE Inner(v)

\* String(value).
Shown(v) == IF v.is \in {"text", "number"} THEN v.text ELSE <<v.is>>

\* Mutant of GivenItems: what is null or undefined is written as such.
AllItems(items) == items
GivenItems(items) == SelectSeq(items, LAMBDA v : ~IsNothing(v))

Joined(texts, delimiter) ==
  FoldLeft(LAMBDA s, t : s \o <<delimiter>> \o t, texts[1], Tail(texts))
Parts(text, delimiter) ==
  FoldLeft(LAMBDA parts, c : IF c = delimiter THEN Append(parts, <<>>)
                             ELSE Front(parts) \o <<Append(Last(parts), c)>>, <<<<>>>>, text)
\* Keys and values take turns; a key is one symbol.  The last of a key counts.
Alternating(of) ==
  LET keys == SetToSeq(DOMAIN of) IN FlattenSeq([i \in DOMAIN keys |-> <<<<keys[i]>>, Shown(of[keys[i]])>>])
KeyOf(part) == IF part = <<>> THEN "" ELSE part[1]
Paired(parts) ==
  LET places == { i \in DOMAIN parts : i % 2 = 1 } IN
  [k \in { KeyOf(parts[i]) : i \in places } |->
     LET i == CHOOSE j \in places : KeyOf(parts[j]) = k /\ \A l \in places : KeyOf(parts[l]) = k => l <= j IN
     IF i = Len(parts) THEN Missing ELSE Text(parts[i + 1])]

ListStyles == [commaList |-> ",", spaceList |-> " ", pipeList |-> "|"]
ObjectStyles == [commaObject |-> ",", spaceObject |-> " ", pipeObject |-> "|"]

\* encodePathParam: the text of a parameter, empty if there is nothing.
EncodePathParam(style, v) ==
  IF style = "commaList" /\ v.is = "list"
    THEN LET given == GivenItems(v.items) IN
         IF given = <<>> THEN <<>> ELSE Joined([i \in DOMAIN given |-> Shown(given[i])], ",")
  ELSE IF style = "commaObject" /\ v.is = "object"
    THEN IF DOMAIN Given(v.fields) = {} THEN <<>> ELSE Joined(Alternating(Given(v.fields)), ",")
  ELSE IF IsNothing(v) THEN <<>> ELSE Shown(v)

\* serializeQueryString, of one key that has a style: the texts that the key is given.
\* An object with a delimiter keeps what is null or undefined.
EncodeQueryParam(style, v) ==
  IF style = "array" /\ v.is = "list"
    THEN LET given == GivenItems(v.items) IN [i \in DOMAIN given |-> Shown(given[i])]
  ELSE IF style = "json" THEN IF v.is = "undefined" THEN <<>> ELSE <<<<AsJson(v)>>>>
  ELSE IF style \in DOMAIN ListStyles /\ v.is = "list"
    THEN LET given == GivenItems(v.items) IN
         IF given = <<>> THEN <<>> ELSE <<Joined([i \in DOMAIN given |-> Shown(given[i])], ListStyles[style])>>
  ELSE IF style \in DOMAIN ObjectStyles /\ v.is = "object"
    THEN IF DOMAIN v.fields = {} THEN <<>> ELSE <<Joined(Alternating(v.fields), ObjectStyles[style])>>
  ELSE IF IsNothing(v) THEN <<>> ELSE <<Shown(v)>>

\* What bracket notation leaves of a field without a style: texts, at their places.
AsText(v) == IF IsNothing(v) THEN Missing ELSE Text(Shown(v))
Bracketed(v) ==
  CASE v.is = "list" ->
         LET given == { i \in DOMAIN v.items : ~IsNothing(v.items[i]) }
             last == CHOOSE i \in given \cup {0} : \A j \in given : j <= i IN
         IF given = {} THEN Missing ELSE List([i \in 1..last |-> AsText(v.items[i])])
    [] v.is = "object" -> IF DOMAIN Given(v.fields) = {} THEN Missing
                          ELSE Fields([k \in DOMAIN Given(v.fields) |-> AsText(v.fields[k])])
    [] OTHER -> AsText(v)

\* The texts of each key with a style, and the fields without one.
EncodeQuery(v) ==
  LET of == FieldsOf(v)
      styled == DOMAIN exchange.queryStyles
      plain == [k \in DOMAIN of \ styled |-> Bracketed(of[k])] IN
  [ plain |-> Given(plain),
    styled |-> [k \in styled |-> IF k \in DOMAIN of THEN EncodeQueryParam(exchange.queryStyles[k], of[k])
                                 ELSE EncodeQueryParam(exchange.queryStyles[k], Missing)] ]

\* encodeInput.  A path without one of its parameters is refused.
EncodeInput ==
  LET params == [p \in DOMAIN exchange.params |-> EncodePathParam(exchange.paramStyles[p], exchange.params[p])]
      isEmpty == exchange.data.is = "object" /\ DOMAIN exchange.data.fields = {}
      data == IF ~exchange.detailed /\ DOMAIN params # {} /\ isEmpty THEN Missing ELSE exchange.data IN
  /\ at = "called"
  /\ IF \E p \in DOMAIN params : params[p] = <<>> THEN at' = "refused" /\ UNCHANGED encoded
     ELSE /\ at' = "requested"
          /\ encoded' = [ params |-> params,
                          query |-> EncodeQuery(IF exchange.get \/ exchange.detailed THEN data ELSE Missing),
                          body |-> IF exchange.get THEN Missing ELSE AsJson(IF exchange.detailed THEN exchange.body ELSE data) ]
  /\ UNCHANGED <<exchange, decoded, response, result>>

\* deserializeParams.
DecodePathParam(style, text) ==
  CASE style = "commaList" -> LET parts == Parts(text, ",") IN List([i \in DOMAIN parts |-> Text(parts[i])])
    [] style = "commaObject" -> Fields(Paired(Parts(text, ",")))
    [] OTHER -> Text(text)

\* deserializeQuery, of one key that has a style: the last of its texts counts.
DecodeQueryParam(style, texts) ==
  IF style = "array" THEN List([i \in DOMAIN texts |-> Text(texts[i])])
  ELSE IF texts = <<>> THEN Missing
  ELSE IF style = "json" THEN Last(texts)[1]
  ELSE IF style \in DOMAIN ListStyles
    THEN LET parts == Parts(Last(texts), ListStyles[style]) IN List([i \in DOMAIN parts |-> Text(parts[i])])
  ELSE IF style \in DOMAIN ObjectStyles THEN Fields(Paired(Parts(Last(texts), ObjectStyles[style])))
  ELSE Text(Last(texts))

Merged(under, over) == [k \in DOMAIN under \cup DOMAIN over |-> IF k \in DOMAIN over THEN over[k] ELSE under[k]]

\* decodeInput: when the structure is compact, parameters under what else there is.
DecodeInput ==
  LET params == [p \in DOMAIN encoded.params |-> DecodePathParam(exchange.paramStyles[p], encoded.params[p])]
      styled == encoded.query.styled
      query == Merged(encoded.query.plain, [k \in DOMAIN styled |-> DecodeQueryParam(exchange.queryStyles[k], styled[k])])
      data == IF exchange.get THEN Fields(query) ELSE encoded.body IN
  /\ at = "requested" /\ at' = "served"
  /\ decoded' = IF exchange.detailed THEN [params |-> Fields(params), data |-> Fields(query), body |-> encoded.body]
              ELSE [ params |-> Missing, body |-> Missing,
                     data |-> IF data.is = "undefined" THEN IF DOMAIN params = {} THEN Missing ELSE Fields(params)
                              ELSE IF DOMAIN params # {} /\ data.is = "object" THEN Fields(Merged(params, data.fields))
                              ELSE data ]
  /\ UNCHANGED <<exchange, encoded, response, result>>

\* A detailed output with the status of an error makes encodeOutput throw, and the handler
\* makes an internal error of what was thrown.
InternalError == [kind |-> "error", status |-> 500, value |-> Text(<<"INTERNAL_SERVER_ERROR">>)]
IsInvalid(outcome) == outcome.kind = "output" /\ exchange.detailed /\ outcome.status > 399
Outcome == IF IsInvalid(exchange.outcome) THEN InternalError ELSE exchange.outcome

\* encodeOutput, encodeError: a detailed output may ask for a status, 0 is none; the status
\* of an error is that of its code.  An encoder of the application writes custom errors.
SuccessStatus == 200
EncodeOutput ==
  LET asked == Outcome.status # 0 /\ (exchange.detailed \/ Outcome.kind # "output")
      body == AsJson(Outcome.value) IN
  /\ at = "served" /\ at' = "answered"
  /\ response' = [ status |-> IF asked THEN Outcome.status ELSE SuccessStatus,
                   body |-> IF Outcome.kind = "error" THEN [is |-> "error", error |-> body] ELSE body ]
  /\ UNCHANGED <<exchange, encoded, decoded, result>>

\* decodeResponse: an error that is not one of ours is a malformed response.
DecodeResponse ==
  /\ at = "answered" /\ at' = "returned"
  /\ result' =
       IF response.status < 400
         THEN [kind |-> "output", status |-> IF exchange.detailed THEN response.status ELSE 0, value |-> response.body]
       ELSE IF response.body.is = "error" THEN [kind |-> "error", status |-> 0, value |-> response.body.error]
       ELSE [kind |-> "malformed", status |-> response.status, value |-> response.body]
  /\ UNCHANGED <<exchange, encoded, decoded, response>>

CodecNext == EncodeInput \/ DecodeInput \/ EncodeOutput \/ DecodeResponse

-----------------------------------------------------------------------------
(* What the codecs promise each other *)

\* What a value says as text, at which places: nothing for what is null or undefined.
\* A number says what is written, and items that are null move the others up.
Said(v) ==
  CASE v.is = "list" -> LET given == GivenItems(v.items) IN { <<ToString(i), Shown(given[i])>> : i \in DOMAIN given }
    [] v.is = "object" -> { <<k, Shown(v.fields[k])>> : k \in DOMAIN Given(v.fields) }
    [] OTHER -> IF IsNothing(v) THEN {} ELSE {<<"", Shown(v)>>}

\* What a value is as JSON: all of it, except fields that are undefined.
Inside(v) ==
  {<<"", v.is, IF v.is \in {"list", "object"} THEN <<>> ELSE Shown(v)>>} \cup
  CASE v.is = "list" -> { <<ToString(i), Item(v.items[i]).is, Shown(Item(v.items[i]))>> : i \in DOMAIN v.items }
    [] v.is = "object" -> { <<k, v.fields[k].is, Shown(v.fields[k])>> : k \in DOMAIN Defined(v.fields) }
    [] OTHER -> {}
Meant(v) ==
  { <<"">> \o inside : inside \in Inside(v) } \cup
  IF v.is # "object" THEN {}
  ELSE UNION { { <<k>> \o inside : inside \in Inside(v.fields[k]) } : k \in DOMAIN Defined(v.fields) }

\* A delimiter within a text is taken for one between two, and a query writes out the
\* fields of a delimited object that are null or undefined.
IsAmbiguous(delimiter, v) ==
  \/ \E said \in Said(v) : delimiter \in Range(said[2])
  \/ v.is = "object" /\ \E k \in DOMAIN v.fields : IsNothing(v.fields[k])
DelimiterOf(style) == Merged(ListStyles, ObjectStyles)[style]

FieldArrives(sent, arrived, k) ==
  k \in DOMAIN arrived /\ Said(arrived[k]) = Said(sent[k])
ParamsArrive(arrived) ==
  \A p \in DOMAIN exchange.params :
    \/ exchange.paramStyles[p] # "primitive" /\ \E said \in Said(exchange.params[p]) : "," \in Range(said[2])
    \/ FieldArrives(exchange.params, arrived, p)
QueryArrives(arrived) ==
  LET sent == FieldsOf(exchange.data) IN
  \A k \in DOMAIN sent :
    \/ Said(sent[k]) = {} /\ k \notin DOMAIN arrived
    \/ IF k \notin DOMAIN exchange.queryStyles THEN FieldArrives(sent, arrived, k)
       ELSE LET style == exchange.queryStyles[k] IN
            \/ style \in DOMAIN ListStyles \cup DOMAIN ObjectStyles /\ IsAmbiguous(DelimiterOf(style), sent[k])
            \/ style = "json" /\ k \in DOMAIN arrived /\ Meant(arrived[k]) = Meant(sent[k])
            \/ style # "json" /\ FieldArrives(sent, arrived, k)

\* An input comes out of the path, the query and the body as it went in, in the styles and
\* the structure of the procedure: of a query and of a path its texts, of a body and of JSON
\* all; it is refused only if there is nothing to write for a parameter of the path.  The
\* outcome comes back as what it is, with its status: an error never as an output, and an
\* output with the status of an error never as anything but an internal error.  (A text
\* that holds its own delimiter is excepted, and what is null in a delimited object.)
CallComesThrough ==
  /\ at = "refused" =>
       \E p \in DOMAIN exchange.params : \A said \in Said(exchange.params[p]) : said[2] = <<>>
  /\ at = "served" /\ exchange.detailed =>
       /\ ParamsArrive(decoded.params.fields)
       /\ QueryArrives(decoded.data.fields)
       /\ ~exchange.get => Meant(decoded.body) = Meant(exchange.body)
  /\ at = "served" /\ ~exchange.detailed =>
       /\ ParamsArrive(FieldsOf(decoded.data))
       /\ IF exchange.get THEN QueryArrives(FieldsOf(decoded.data))
          ELSE LET all == IF exchange.data.is \in {"object", "undefined"} /\ DOMAIN exchange.params # {}
                            THEN Fields(Merged(FieldsOf(decoded.data), FieldsOf(exchange.data))) ELSE exchange.data IN
               Meant(decoded.data) = Meant(all)
  /\ at = "returned" /\ IsInvalid(exchange.outcome) =>
       result.kind = "error" /\ Meant(result.value) = Meant(InternalError.value)
  /\ at = "returned" /\ ~IsInvalid(exchange.outcome) =>
       /\ result.kind = IF exchange.outcome.kind = "custom" THEN "malformed" ELSE exchange.outcome.kind
       /\ Meant(result.value) = Meant(exchange.outcome.value)
       /\ exchange.detailed /\ result.kind = "output" => exchange.outcome.status \in {0, result.status}
=============================================================================
