----------------------------- MODULE RpcSerialization -----------------------------
(***************************************************************************)
(* What RPCSerializer and RPCJsonSerializer (client/src/rpc-serializer.ts,   *)
(* rpc-json-serializer.ts) make of a value, and make a value of again: plain *)
(* JSON, with the types and the places of what JSON cannot say, and the      *)
(* Blobs beside it.                                                         *)
(*                                                                         *)
(* A value is a tree: [is, of], of the values it is made of.  A segment of a *)
(* path is the position of the child.  A "date" stands for all built-in      *)
(* types that become a primitive; a "picture" and a "wrapper" for custom     *)
(* handlers, one that is terminal and gives a Blob, one that gives a value   *)
(* to go on with.                                                           *)
(***************************************************************************)
EXTENDS Integers, Sequences, SequencesExt

CONSTANTS Leaves,  \* what values are made of: kinds of leaves
          Width    \* bound: children of a value

VARIABLES
  data,        \* the value
  useFormData, \* useFormDataForBlobFields
  step,        \* "given", "sent", "received" or "thrown"
  message,     \* the body: [form, json, meta, maps, blobs]
  value,       \* deserialize: the value so far
  filled,      \* the Blobs that are in their places
  restored     \* the types that are restored

rpcVars == <<data, useFormData, step, message, value, filled, restored>>

Leaf(kind) == [is |-> kind, of |-> <<>>]
Tree(kind, children) == [is |-> kind, of |-> children]
Containers == {"array", "object", "set", "wrapper"}

\* Values with at most one child that is not a leaf itself; a Map has entries.
\* (RPCSerializer passes on as it is what is a Blob, a stream or undefined.)
Flat == {Leaf(k) : k \in Leaves}
Deeper(values) ==
  UNION {{Tree(k, children) : k \in Containers} : children \in
    BoundedSeq(Flat, Width) \cup
    {<<v>> : v \in values} \cup {<<v, Leaf("date")>> : v \in values} \cup {<<Leaf("undefined"), v>> : v \in values}}
  \cup {Tree("map", <<Tree("array", <<k, v>>)>>) : k \in Flat, v \in values}
  \cup {Tree("map", <<Tree("array", <<v, Leaf("date")>>), Tree("array", <<Leaf("plain"), Leaf("undefined")>>)>>) : v \in values}
Values == Deeper(Deeper(Flat))

RpcInit ==
  /\ data \in Values /\ useFormData \in BOOLEAN
  /\ step = "given"
  /\ message = [form |-> FALSE, json |-> Leaf("plain"), meta |-> <<>>, maps |-> <<>>, blobs |-> <<>>]
  /\ value = Leaf("plain") /\ filled = 0 /\ restored = 0

\* Nothing is sent.
RpcIdle ==
  /\ data = Leaf("plain") /\ useFormData = FALSE /\ step = "idle"
  /\ message = [form |-> FALSE, json |-> Leaf("plain"), meta |-> <<>>, maps |-> <<>>, blobs |-> <<>>]
  /\ value = Leaf("plain") /\ filled = 0 /\ restored = 0

Terminal == {"date", "undefined"}
NonTerminal == {"set", "map", "wrapper"}
\* What serialize of a handler gives: undefined becomes null, a date a string.
Serialized(d) ==
  CASE d.is \in Terminal -> Leaf("plain")
    [] d.is = "picture" -> Leaf("blob")
    [] d.is \in {"set", "map"} -> Tree("array", d.of)
    [] d.is = "wrapper" -> Tree("object", d.of)

\* Properties that are undefined are omitted (omitUndefinedProperties).
Kept(d) == IF d.is = "object" THEN SelectSeq(d.of, LAMBDA v : v.is # "undefined") ELSE d.of

\* Mutant of WithType: the container is named before what it contains.
WithTypeFirst(kind, path, inner) == [inner EXCEPT !.meta = <<[type |-> kind, path |-> path]>> \o @]
\* A type is noted after those of what is inside, which is restored first.
WithType(kind, path, inner) == [inner EXCEPT !.meta = Append(@, [type |-> kind, path |-> path])]

\* serializeValue at a path.
RECURSIVE SerializeValue(_, _)
SerializeValue(d, path) ==
  LET plain == [json |-> d, meta |-> <<>>, maps |-> <<>>]
  IN  CASE d.is \in Terminal -> WithType(d.is, path, [plain EXCEPT !.json = Serialized(d)])
        [] d.is = "picture" -> WithType(d.is, path, [plain EXCEPT !.json = Serialized(d), !.maps = <<path>>])
        [] d.is \in NonTerminal -> WithType(d.is, path, SerializeValue(Serialized(d), path))
        [] d.is = "blob" -> [plain EXCEPT !.maps = <<path>>]
        [] d.is \in {"array", "object"} ->
             LET inner == [i \in 1..Len(Kept(d)) |-> SerializeValue(Kept(d)[i], Append(path, i))]
             IN  [ json |-> Tree(d.is, [i \in DOMAIN inner |-> inner[i].json]),
                   meta |-> FlattenSeq([i \in DOMAIN inner |-> inner[i].meta]),
                   maps |-> FlattenSeq([i \in DOMAIN inner |-> inner[i].maps]) ]
        [] OTHER -> plain

\* JSON.stringify and JSON.parse: a Blob has no properties.
RECURSIVE ThroughJson(_)
ThroughJson(json) ==
  IF json.is = "blob" THEN Tree("object", <<>>)
  ELSE Tree(json.is, [i \in DOMAIN json.of |-> ThroughJson(json.of[i])])

\* RPCSerializer.serialize: Blobs go beside the JSON, in a form, or are lost.
Serialize ==
  /\ step = "given"
  /\ LET s == SerializeValue(data, <<>>)
         form == useFormData /\ s.maps # <<>>
     IN  message' = [ form |-> form, json |-> ThroughJson(s.json), meta |-> s.meta,
                   maps |-> IF form THEN s.maps ELSE <<>>,
                   blobs |-> IF form THEN [i \in DOMAIN s.maps |-> Leaf("blob")] ELSE <<>> ]
  /\ step' = "sent"
  /\ UNCHANGED <<data, useFormData, value, filled, restored>>

\* RPCSerializer.deserialize: the JSON comes first.
Receive ==
  /\ step = "sent"
  /\ step' = "received" /\ value' = message.json
  /\ UNCHANGED <<data, useFormData, message, filled, restored>>

\* The walk along a path: Object.hasOwn knows the children of objects and arrays.
RECURSIVE Exists(_, _), Place(_, _, _), ValueAt(_, _)
Exists(v, path) ==
  path = <<>> \/ /\ v.is \in {"array", "object"} /\ Head(path) \in DOMAIN v.of
                 /\ Exists(v.of[Head(path)], Tail(path))
ValueAt(v, path) == IF path = <<>> THEN v ELSE ValueAt(v.of[Head(path)], Tail(path))
Place(v, path, new) ==
  IF path = <<>> THEN new
  ELSE [v EXCEPT !.of[Head(path)] = Place(@, Tail(path), new)]

Change(path, new) ==
  IF Exists(value, path)
  THEN value' = Place(value, path, new) /\ UNCHANGED step
  ELSE step' = "thrown" /\ UNCHANGED value

\* deserialize, the first loop: a Blob goes to its place.
FillBlob ==
  /\ step = "received" /\ filled < Len(message.blobs)
  /\ Change(message.maps[filled + 1], message.blobs[filled + 1])
  /\ filled' = filled + 1
  /\ UNCHANGED <<data, useFormData, message, restored>>

\* deserialize of a handler; there is no picture without its Blob.
Deserialized(type, v) ==
  IF type \in NonTerminal THEN Tree(type, v.of)
  ELSE Leaf(IF type = "picture" /\ v.is # "blob" THEN "lost" ELSE type)

\* deserialize, the second loop: a type is restored.
Restore ==
  /\ step = "received" /\ filled = Len(message.blobs) /\ restored < Len(message.meta)
  /\ LET item == message.meta[restored + 1]
     IN  Change(item.path, IF Exists(value, item.path) THEN Deserialized(item.type, ValueAt(value, item.path)) ELSE value)
  /\ restored' = restored + 1
  /\ UNCHANGED <<data, useFormData, message, filled>>

RpcNext == Serialize \/ Receive \/ FillBlob \/ Restore

----------------------------------------------------------------------------

\* A value as the other side may expect it: without what is omitted, and, when it
\* is not sent as a form, with nothing in the place of a Blob.
RECURSIVE Expected(_)
Expected(d) ==
  IF d.is = "blob" /\ ~useFormData THEN Tree("object", <<>>)
  ELSE IF d.is = "picture" /\ ~useFormData THEN Leaf("lost")
  ELSE Tree(d.is, [i \in 1..Len(Kept(IF d.is = "wrapper" THEN Serialized(d) ELSE d)) |->
                     Expected(Kept(IF d.is = "wrapper" THEN Serialized(d) ELSE d)[i])])

\* What is sent comes back, whatever types are within each other: each is restored
\* where it was, after what it contains and never twice, a Blob before whatever
\* contains it, and no place is missing (serializeValue, deserialize).
ComesBackAsSent ==
  /\ step # "thrown"
  /\ step = "received" /\ filled = Len(message.blobs) /\ restored = Len(message.meta) => value = Expected(data)
=============================================================================
