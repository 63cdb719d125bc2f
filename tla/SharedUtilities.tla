---------------------------- MODULE SharedUtilities ----------------------------
(***************************************************************************)
(* The data structures, algorithms and conversions that the packages use:   *)
(* the queue of packages/shared and the iterator that is replicated with it, *)
(* the binary search of the memory publisher, the two notations of values,   *)
(* the names of components, the coercion of values, the codecs of OpenAPI, the parser of forms, the   *)
(* spooling of uploads and the serving of files.  A behaviour of this module uses one of them: the     *)
(* queue by itself, whatever its user does, through the replicas, or one of    *)
(* the others.                                                             *)
(***************************************************************************)
EXTENDS ReplicateIterator, BinarySearch, Multipart, Uploads, RpcSerialization, BracketNotation, ComponentNames, Coercer, OpenAPICodec, StaticFile

CONSTANTS i1, i2, x1, x2

VARIABLE use  \* which of them

MCIds == {i1, i2}
MCItems == {x1, x2, Done, Error}
MCCalls == 1..5

\* Bounds of the queue by itself: three calls, made in the order of their names,
\* and two items on each id.
QueueBound ==
  /\ \A c \in Calls : status[c] # "fresh" => c \in 1..3 /\ \A d \in 1..c : status[d] # "fresh"
  /\ \A i \in Ids : Len(sent[i]) <= 2 /\ Range(sent[i]) \subseteq {x1, x2}

\* Bodies of parts: short ones, and those that look like the beginning or the end
\* of a delimiter; then forms with one such body, or with lines and headers of all
\* kinds.
MCBodies == BoundedSeq({"cr", "lf", "-", "x"}, 2) \cup
  { Crlf \o <<"-", "-">>, Crlf \o <<"-", "-", "x">>, <<"cr">> \o Crlf \o <<"-", "-">>,
    <<"lf", "-", "-", "B">>, <<"-", "-", "B", "-", "-">>, Crlf \o Crlf, Crlf \o <<"-">> \o Crlf \o <<"-", "-">> }
MCPart(line, header, content) == [line |-> line, header |-> header, body |-> content]
MCForms ==
  { [ preamble |-> <<>>, epilogue |-> <<>>,
      parts |-> <<MCPart("bare", "file", b), MCPart("padded", "field", <<"cr">>)>> ] : b \in MCBodies } \cup
  { [ preamble |-> before, epilogue |-> <<"x">>,
      parts |-> <<MCPart("bare", "field", <<"x">>), MCPart(line, header, <<"lf">>)>> ] :
    before \in {<<>>, <<"-", "-", "x">> \o Crlf},
    line \in {"bare", "padded", "broken"}, header \in {"file", "long", "missing", "malformed"} }
MCBodyLimits == [memory |-> 1, file |-> 2, stream |-> 1]

\* Two definitions that refer to themselves or to each other, in both directions, and
\* one that is registered without, which may refer to a component.
MCSchemas(labels, refs) == [label : labels, refs : {<<>>} \cup { <<r>> : r \in refs }]
MCDocument(order, schema, direction) ==
  [order |-> order, schema |-> schema, preferred |-> [d \in DOMAIN schema |-> d], direction |-> direction]
MCDocuments ==
  { MCDocument(<<<<"A">>, <<"B">>>>, <<"A">> :> a @@ <<"B">> :> b, direction) :
      a \in MCSchemas({1, 2}, {ToDef(<<"A">>), ToDef(<<"B">>)}), b \in MCSchemas({1}, {ToDef(<<"A">>)}),
      direction \in {"input", "output"} } \cup
  { MCDocument(<<<<"C">>>>, <<"C">> :> c, "none") :
      c \in MCSchemas({1, 2}, {ToComponent(<<"A">>), ToDef(<<"C">>)}) }

\* What strings may stand for, in every union of two and in a few compositions, with
\* references that lead back through an array or at once; and values that are written as
\* strings, in part or not at all, to the depth of two arrays.
MCType(t) == [AnySchema EXCEPT !.type = <<t>>]
MCNative(t, native) == [MCType(t) EXCEPT !.native = native]
MCEnum(values) == [AnySchema EXCEPT !.enum = values]
MCRef(name) == [AnySchema EXCEPT !.ref = name]
MCUnion(a, b) == [AnySchema EXCEPT !.anyOf = <<a, b>>]
MCArray(a) == [MCType("array") EXCEPT !.items = <<a>>]
MCObject(a) == [MCType("object") EXCEPT !.properties = [k |-> a], !.required = {"k"}]
MCOne == Scalar("number", "1")
MCDefinitions ==
  [tree |-> MCUnion(MCType("integer"), MCArray(MCRef("tree"))), loop |-> MCUnion(MCRef("loop"), MCType("boolean"))]
MCBranches ==
  { MCType(t) : t \in {"string", "number", "integer"} } \cup
  { MCNative("string", "date"), MCNative("string", "bigint"), MCRef("tree"), MCRef("loop"),
    MCEnum({MCOne}), MCEnum({Scalar("string", "1"), Scalar("boolean", "true")}),
    MCArray(MCType("integer")),
    [MCArray(MCType("integer")) EXCEPT !.native = "set"], [MCArray(MCArray(MCType("integer"))) EXCEPT !.native = "map"],
    MCObject(MCType("integer")), [MCType("array") EXCEPT !.prefix = <<MCType("integer")>>] }
MCCoercions ==
  MCBranches \cup { MCUnion(a, b) : a, b \in MCBranches } \cup
  { MCType("null"), [AnySchema EXCEPT !.type = <<"number", "boolean">>],
    [MCObject(MCNative("string", "date")) EXCEPT !.required = {}],
    [AnySchema EXCEPT !.allOf = <<MCType("integer"), MCRef("tree")>>], [MCType("integer") EXCEPT !.not = <<MCEnum({MCOne})>>],
    MCUnion([MCType("number") EXCEPT !.not = <<MCType("integer")>>], MCType("string")) }
MCItemsOf(items) == [t |-> "array", items |-> items]
MCFields(fields) == [t |-> "object", fields |-> fields]
MCSome == { Scalar("string", of) : of \in {"1", "true", "x"} } \cup {MCOne}
MCGiven ==
  { Scalar("string", of) : of \in {"1", "1.5", "true", "day", "x"} } \cup
  { MCOne, Scalar("number", "1.5"), Scalar("boolean", "true"), Scalar("null", ""), Scalar("date", "day"), Scalar("bigint", "1"),
    MCFields([l |-> MCOne]), MCFields([k |-> Undefined]) } \cup
  { MCItemsOf(s) : s \in BoundedSeq(MCSome, 1) \cup { <<Scalar("string", "1"), a>> : a \in MCSome } } \cup
  { MCItemsOf(<<MCItemsOf(<<a, a>>)>>) : a \in MCSome } \cup
  { MCFields([k |-> a]) : a \in MCSome }

\* Calls with one query field in each style beside one without, with one parameter in
\* each style beside a field or none, with a body, and with outcomes of all kinds; the
\* same with the detailed structure.  Texts hold delimiters or nothing.
MCText == { Text(t) : t \in {<<>>, <<"x">>, <<"x", ",", "y">>, <<"|">>} }
MCScalars == MCText \cup {Num, Null, Missing}
MCListed == { Text(t) : t \in {<<>>, <<"x">>, <<",", "y">>} } \cup {Num, Null, Missing}
MCLists == { List(items) : items \in BoundedSeq(MCListed, 2) }
MCRecords == { Fields(of) : of \in UNION { [keys -> MCListed] : keys \in SUBSET {"a", "b"} } }
MCFitting(s) ==
  {Missing} \cup
  CASE s \in {"array"} \cup DOMAIN ListStyles -> MCLists
    [] s \in DOMAIN ObjectStyles -> MCRecords
    [] s = "primitive" -> MCScalars
    [] OTHER -> MCScalars \cup MCLists \cup MCRecords
MCOutcome(kind, code, v) == [kind |-> kind, status |-> code, value |-> v]
MCExchange ==
  [ get |-> FALSE, detailed |-> FALSE, paramStyles |-> <<>>, queryStyles |-> <<>>, params |-> <<>>,
    data |-> Missing, body |-> Missing, outcome |-> MCOutcome("output", 0, Missing) ]
MCQueries ==
  UNION { { [MCExchange EXCEPT !.get = TRUE, !.queryStyles = IF s = "none" THEN <<>> ELSE [q |-> s],
                               !.data = Fields([q |-> v, r |-> Num])] : v \in MCFitting(s) } :
          s \in {"none", "primitive", "array", "json"} \cup DOMAIN ListStyles \cup DOMAIN ObjectStyles }
MCInPaths ==
  UNION { { [MCExchange EXCEPT !.paramStyles = [p |-> s], !.params = [p |-> v], !.data = Fields(of)] :
            v \in MCFitting(s), of \in {<<>>, [r |-> List(<<Num, Missing>>)]} } :
          s \in {"primitive", "commaList", "commaObject"} }
MCInBodies == { [MCExchange EXCEPT !.data = v] : v \in MCFitting("json") }
MCOutcomes ==
  { [MCExchange EXCEPT !.outcome = MCOutcome("output", code, v)] : code \in {0, 204, 500}, v \in MCFitting("json") } \cup
  { [MCExchange EXCEPT !.outcome = MCOutcome(kind, 500, v)] : kind \in {"error", "custom"}, v \in MCScalars }
MCExchanges ==
  LET compact == MCQueries \cup MCInPaths \cup MCInBodies \cup MCOutcomes IN
  compact \cup
  { [e EXCEPT !.get = TRUE] : e \in MCInPaths } \cup
  { [e EXCEPT !.detailed = TRUE] : e \in MCQueries } \cup
  { [e EXCEPT !.detailed = TRUE, !.get = FALSE, !.body = List(<<Num>>)] : e \in MCQueries } \cup
  { [e EXCEPT !.detailed = TRUE, !.body = e.data, !.data = Missing] : e \in compact \ MCQueries }

\* Roots: a page with a fallback, one with a sidecar, and a directory with its index.
MCVersion(size, mtime) == [size |-> size, mtime |-> mtime]
MCPaths == {<<"page", "">>, <<"page", "br">>, <<"fallback", "">>, <<"index", "">>}
MCRoot(entries) == [path \in MCPaths |-> IF path \in DOMAIN entries THEN entries[path] ELSE Absent]
MCDirectories ==
  { MCRoot(<<"page", "">> :> MCVersion(2, 1) @@ <<"fallback", "">> :> MCVersion(1, 0)),
    MCRoot(<<"page", "">> :> MCVersion(2, 1) @@ <<"page", "br">> :> MCVersion(1, 1)),
    MCRoot(<<"page", "">> :> Folder @@ <<"index", "">> :> MCVersion(2, 0)) }
MCEncodings == <<"br">>

vars == <<use, replicatingVars, searchVars, multipartVars, uploadVars, rpcVars, bracketVars, componentVars, coercerVars, codecVars, staticVars>>

\* One that is not used stays in one initial state.
Init ==
  /\ use \in {"queue", "replicas", "search", "form", "uploads", "rpc", "brackets", "names", "coercer", "codec", "files"}
  /\ ReplicateInit /\ SearchInit
  /\ use # "search" => sorted = <<>> /\ limit = 0
  /\ MultipartInit /\ (use # "form" => form = CHOOSE f \in Forms : TRUE)
  /\ UploadInit /\ (use # "uploads" => hint = "none")
  /\ IF use = "rpc" THEN RpcInit ELSE RpcIdle
  /\ IF use = "brackets" THEN BracketInit ELSE BracketIdle
  /\ NamesInit /\ CoercerInit
  /\ CodecInit(IF use = "codec" THEN Exchanges ELSE {MCExchange})
  /\ StaticInit /\ (use # "files" => disk = CHOOSE d \in Directories : TRUE)

DataOnly == UNCHANGED <<use, replicatingVars, searchVars>>
QueueOnly == use = "queue" /\ UNCHANGED <<use, loopVars, replicaVars, searchVars, multipartVars, uploadVars, rpcVars, bracketVars, staticVars, componentVars, coercerVars, codecVars>>
ReplicasOnly == use = "replicas" /\ UNCHANGED <<use, searchVars, multipartVars, uploadVars, rpcVars, bracketVars, staticVars, componentVars, coercerVars, codecVars>>
SearchOnly == use = "search" /\ UNCHANGED <<use, replicatingVars, multipartVars, uploadVars, rpcVars, bracketVars, staticVars, componentVars, coercerVars, codecVars>>
FormOnly == use = "form" /\ DataOnly /\ UNCHANGED <<uploadVars, rpcVars, bracketVars, staticVars, componentVars, coercerVars, codecVars>>
UploadsOnly == use = "uploads" /\ DataOnly /\ UNCHANGED <<multipartVars, rpcVars, bracketVars, staticVars, componentVars, coercerVars, codecVars>>
RpcOnly == use = "rpc" /\ DataOnly /\ UNCHANGED <<multipartVars, uploadVars, bracketVars, staticVars, componentVars, coercerVars, codecVars>>
BracketsOnly == use = "brackets" /\ DataOnly /\ UNCHANGED <<multipartVars, uploadVars, rpcVars, staticVars, componentVars, coercerVars, codecVars>>
NamesOnly == use = "names" /\ DataOnly /\ UNCHANGED <<multipartVars, uploadVars, rpcVars, bracketVars, staticVars, coercerVars, codecVars>>
CoercerOnly == use = "coercer" /\ DataOnly /\ UNCHANGED <<multipartVars, uploadVars, rpcVars, bracketVars, componentVars, staticVars, codecVars>>
CodecOnly == use = "codec" /\ DataOnly /\ UNCHANGED <<multipartVars, uploadVars, rpcVars, bracketVars, componentVars, coercerVars, staticVars>>
FilesOnly == use = "files" /\ DataOnly /\ UNCHANGED <<multipartVars, uploadVars, rpcVars, bracketVars, componentVars, coercerVars, codecVars>>

Next ==
  \/ QueueOnly /\ QueueNext /\ QueueBound'
  \/ ReplicasOnly /\ ReplicateNext
  \/ SearchOnly /\ SearchNext
  \/ FormOnly /\ MultipartNext
  \/ UploadsOnly /\ UploadNext
  \/ RpcOnly /\ RpcNext
  \/ BracketsOnly /\ TakePair
  \/ NamesOnly /\ NamesNext
  \/ CoercerOnly /\ CoercerNext
  \/ CodecOnly /\ CodecNext
  \/ FilesOnly /\ StaticNext

Fairness ==
  /\ WF_vars(ReplicasOnly /\ returned /\ \E x \in Items : SourceResult(x))
  /\ \A r \in Ids : WF_vars(ReplicasOnly /\ Settle(r)) /\ WF_vars(ReplicasOnly /\ SettleRejected(r))

Spec == Init /\ [][Next]_vars /\ Fairness
=============================================================================
