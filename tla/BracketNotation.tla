----------------------------- MODULE BracketNotation -----------------------------
(***************************************************************************)
(* BracketNotationSerializer (openapi/src/bracket-notation.ts): an object as *)
(* the flat list of its leaves and their paths, for a query or a form, and   *)
(* the object that is made of such a list, pair by pair, without knowing     *)
(* what an array was: a container begins as an array and turns into an       *)
(* object when a key does not fit.                                          *)
(*                                                                         *)
(* A path is the sequence of its keys, which have no brackets (stringifyPath *)
(* and parsePath undo each other then).  An array that has holes, and an     *)
(* object, are functions from keys; `pushed` are the arrays made by "[]"     *)
(* (arrayPushStyles).                                                       *)
(***************************************************************************)
EXTENDS Integers, Sequences, SequencesExt, TLC

CONSTANTS
  MaxIndex  \* maxExplicitDeserializingArrayIndex

VARIABLES
  original, \* what was serialized: "array"s and "object"s of leaves
  style,    \* how arrays of leaves are written: "indexed", "repeated" or "pushed"
  pairs,    \* the pairs that are left: [path, value]
  made      \* deserialize: the value so far

bracketVars == <<original, style, pairs, made>>

\* A value: a leaf has its path for its value.
BracketLeaf(v) == [is |-> "leaf", value |-> v, pushed |-> FALSE, of |-> <<>>]
Container(kind, children) == [is |-> kind, value |-> <<>>, pushed |-> FALSE, of |-> children]
NoChildren == [k \in {} |-> <<>>]
With(children, k, v) == [j \in DOMAIN children \cup {k} |-> IF j = k THEN v ELSE children[j]]

\* Keys: those of an array, in order, and others.
Indexes == <<"0", "1", "2">>
IsIndex(k) == \E i \in 1..Len(Indexes) : Indexes[i] = k
IndexOfKey(k) == (CHOOSE i \in 1..Len(Indexes) : Indexes[i] = k) - 1
\* internalIsValidArrayIndex
IsValidIndex(k) == IsIndex(k) /\ IndexOfKey(k) <= MaxIndex

\* What is serialized: trees whose objects list their keys as JavaScript does, the
\* integers first; a leaf is <<>>.
KeyOrders == {<<"a">>, <<"">>, <<"0">>, <<"0", "1">>, <<"0", "a">>, <<"1", "a">>, <<"a", "">>, <<"", "a">>,
              <<"0", "">>, <<"2">>, <<"0", "2">>}
Objects(values) ==
  UNION {{[kind |-> "object", keys |-> keys, of |-> vs] : vs \in [1..Len(keys) -> values]} : keys \in KeyOrders}
Arrays(values, n) ==
  {[kind |-> "array", keys |-> SubSeq(Indexes, 1, Len(vs)), of |-> vs] : vs \in BoundedSeq(values, n) \ {<<>>}}
ALeaf == [kind |-> "leaf", keys |-> <<>>, of |-> <<>>]
InnerValues == {ALeaf} \cup Objects({ALeaf}) \cup Arrays({ALeaf}, 3)
OuterValues == Objects(InnerValues) \cup Arrays(InnerValues, 2)
Roots == {[kind |-> "object", keys |-> <<"r">>, of |-> <<v>>] : v \in OuterValues} \cup Objects({ALeaf})

\* internalSerialize, which writes the indexes of arrays; other clients may repeat
\* the key of an array, or push with "[]".
IsList(v) == style # "indexed" /\ v.kind = "array" /\ \A i \in 1..Len(v.of) : v.of[i] = ALeaf
RECURSIVE Pairs(_, _)
Pairs(v, path) ==
  IF v.kind = "leaf" THEN <<[path |-> path, value |-> path]>>
  ELSE IF IsList(v)
  THEN [i \in 1..Len(v.keys) |->
         [path |-> IF style = "pushed" THEN Append(path, "") ELSE path, value |-> Append(path, v.keys[i])]]
  ELSE FlattenSeq([i \in 1..Len(v.keys) |-> Pairs(v.of[i], Append(path, v.keys[i]))])

BracketInit ==
  /\ original \in Roots
  /\ style \in {"indexed", "repeated", "pushed"}
  /\ pairs = Pairs(original, <<>>)
  /\ made = Container("object", NoChildren)

\* Nothing is sent.
BracketIdle ==
  /\ original = [kind |-> "object", keys |-> <<>>, of |-> <<>>] /\ style = "indexed"
  /\ pairs = <<>> /\ made = Container("object", NoChildren)

\* How long an array is, and array.push.
Length(array) ==
  LET taken == {IndexOfKey(k) + 1 : k \in DOMAIN array.of}
  IN  IF taken = {} THEN 0 ELSE CHOOSE n \in taken : \A m \in taken : m <= n
Push(array, v) == [array EXCEPT !.of = With(@, Indexes[Length(array) + 1], v)]

\* internalArrayToObject, internalPushStyleArrayToObject
ToObject(array) == Container("object", array.of)
PushStyleToObject(array) ==
  Container("object", "" :> (IF Length(array) = 1 THEN array.of["0"] ELSE [array EXCEPT !.pushed = FALSE]))

\* Mutant of Adapted: a key that does not fit is taken for an index.
AdaptedNever(v, segment, isLast) == IF v.is = "leaf" THEN Container("array", NoChildren) ELSE v
\* The container that a segment of a path goes into: a new one is an array, which
\* turns into an object when the segment does not fit it.
Adapted(v, segment, isLast) ==
  LET container == IF v.is = "leaf" THEN Container("array", NoChildren) ELSE v
      pushStyle == container.pushed
  IN  IF container.is = "object" THEN container
      ELSE IF ~isLast
           THEN IF IsValidIndex(segment) THEN container
                ELSE IF pushStyle THEN PushStyleToObject(container) ELSE ToObject(container)
           ELSE IF segment = ""
                THEN IF Length(container) > 0 /\ ~pushStyle THEN ToObject(container) ELSE container
                ELSE IF pushStyle THEN PushStyleToObject(container)
                ELSE IF ~IsValidIndex(segment) THEN ToObject(container)
                ELSE container

\* The last segment: pushed, put beside what is there, or set.
Put(container, segment, v) ==
  IF container.is = "array" /\ segment = "" THEN [Push(container, v) EXCEPT !.pushed = TRUE]
  ELSE IF segment \notin DOMAIN container.of THEN [container EXCEPT !.of = With(@, segment, v)]
  ELSE LET there == container.of[segment]
       IN  [container EXCEPT !.of[segment] =
              IF there.is = "array" THEN Push(there, v) ELSE Container("array", "0" :> there @@ "1" :> v)]

\* The loop over the segments of one path.
RECURSIVE Insert(_, _, _)
Insert(v, path, new) ==
  LET segment == Head(path)
      container == Adapted(v, segment, Len(path) = 1)
      child == IF segment \in DOMAIN container.of THEN container.of[segment] ELSE BracketLeaf(<<>>)
  IN  IF Len(path) = 1 THEN Put(container, segment, new)
      ELSE [container EXCEPT !.of = With(@, segment, Insert(child, Tail(path), new))]

\* deserialize takes one pair.
TakePair ==
  /\ pairs # <<>>
  /\ pairs' = Tail(pairs)
  /\ made' = Insert(made, Head(pairs).path, BracketLeaf(Head(pairs).value))
  /\ UNCHANGED <<original, style>>

----------------------------------------------------------------------------

\* What the notation can represent: no object whose keys could all be indexes, nor
\* one whose only key is empty and has a leaf, or several, which is an array that
\* is pushed to, no array of indexes beyond the limit, and none of one item whose key is
\* to be repeated.
RECURSIVE Representable(_, _)
Representable(v, isRoot) ==
  /\ v.kind = "object" /\ ~isRoot =>
       /\ \E i \in 1..Len(v.keys) : ~IsValidIndex(v.keys[i])
       /\ ~(v.keys = <<"">> /\ (v.of[1] = ALeaf \/ (style = "repeated" /\ IsList(v.of[1]))))
  /\ v.kind = "array" =>
       IF IsList(v) THEN style = "repeated" => Len(v.of) > 1
       ELSE Len(v.keys) - 1 <= MaxIndex
  /\ \A i \in 1..Len(v.of) : Representable(v.of[i], FALSE)

\* The value that it should be, pushed or not.
RECURSIVE Same(_, _, _)
Same(v, o, path) ==
  /\ v.is = o.kind
  /\ IF o.kind = "leaf" THEN v.value = path
     ELSE /\ DOMAIN v.of = {o.keys[i] : i \in 1..Len(o.keys)}
          /\ \A i \in 1..Len(o.keys) : Same(v.of[o.keys[i]], o.of[i], Append(path, o.keys[i]))

\* Every object that the notation can represent comes back as it was, in whichever
\* style its arrays are written: no leaf is lost or moved when an array that was
\* begun turns into an object, wherever that happens and whatever it held
\* (serialize, deserialize).
BracketsComeBack == pairs = <<>> /\ Representable(original, TRUE) => Same(made, original, <<>>)
=============================================================================
