----------------------------- MODULE ComponentNames -----------------------------
(***************************************************************************)
(* The names of reusable schemas in an OpenAPI document                      *)
(* (openapi/src/openapi-generator-components.ts): the definitions of each     *)
(* schema are hoisted to the components of the document, where an equivalent   *)
(* one of the same family of names is reused and a different one is given a    *)
(* postfix.                                                                *)
(*                                                                         *)
(* A schema is a label, for all of its keywords, and the references in it, in  *)
(* order, each to a definition beside it or to a component.  A name is the      *)
(* sequence of the parts it is put together from.                            *)
(***************************************************************************)
EXTENDS Integers, Sequences, FiniteSets, SequencesExt

CONSTANTS
  Documents,  \* schemas with definitions: [order, schema, preferred, direction]
  MaxHoists   \* bound: schemas that are hoisted

VARIABLES
  components, \* components.schemas: name -> schema
  hoisted     \* history: what was hoisted, with the names that its definitions got

componentVars == <<components, hoisted>>

NamesInit == components = <<>> /\ hoisted = {}

ToDef(name) == [to |-> "def", name |-> name]
ToComponent(name) == [to |-> "component", name |-> name]

\* rewriteComponentSchemaRefs.
Rewritten(schema, renameMap) ==
  [schema EXCEPT !.refs =
    [i \in DOMAIN @ |-> IF @[i].to = "def" /\ @[i].name \in DOMAIN renameMap
                          THEN ToComponent(renameMap[@[i].name]) ELSE @[i]]]

\* candidateSchemas: the definitions as they would be written by now, by the names that
\* they prefer; the last of those that prefer the same name is there.
Candidates(document, renameMap) ==
  LET Wanting(name) == SelectSeq(document.order, LAMBDA d : document.preferred[d] = name) IN
  [name \in Range(document.preferred) |->
     Rewritten(document.schema[Last(Wanting(name))], renameMap @@ document.preferred)]

\* componentNameCandidate: the members of a family of names, in order.
Opposite == [input |-> "Output", output |-> "Input"]
Own == [input |-> "Input", output |-> "Output"]
Directed(direction) == direction # "none"
NameCandidate(name, direction, attempt) ==
  LET Numbered(n) == [name |-> Append(name, ToString(n)), mintable |-> TRUE, tail |-> TRUE] IN
  CASE attempt = 1 -> [name |-> name, mintable |-> TRUE, tail |-> FALSE]
    [] attempt = 2 /\ Directed(direction) ->
         [name |-> Append(name, Own[direction]), mintable |-> TRUE, tail |-> FALSE]
    [] attempt = 3 /\ Directed(direction) ->
         [name |-> Append(name, Opposite[direction]), mintable |-> FALSE, tail |-> FALSE]
    [] OTHER -> Numbered(IF Directed(direction) THEN attempt - 2 ELSE attempt)

\* Two graphs of schemas, from their references to the schemas there, are walked side by
\* side: the pairs that are met from one pair.
RECURSIVE Walk(_, _, _)
Walk(pairs, left, right) ==
  LET Alike(p) == p[1] \in DOMAIN left /\ p[2] \in DOMAIN right
                    /\ Len(left[p[1]].refs) = Len(right[p[2]].refs)
      more == pairs \cup UNION { { <<left[p[1]].refs[i], right[p[2]].refs[i]>> : i \in DOMAIN left[p[1]].refs } :
                                 p \in { p \in pairs : Alike(p) } }
  IN IF more = pairs THEN pairs ELSE Walk(more, left, right)

SameKeywords(one, other) == one.label = other.label /\ Len(one.refs) = Len(other.refs)
OneToOne(pairs) == \A p, q \in pairs : p[1] = q[1] <=> p[2] = q[2]
Nodes(schemas) == [r \in { ToComponent(name) : name \in DOMAIN schemas } |-> schemas[r.name]]

\* Mutant of AreEquivalent: the references are not followed.
AreEquivalentOutside(candidates, name, existing) == SameKeywords(candidates[name], components[existing])
\* areSchemasEquivalentForReuse: alike along all references, whose names must map one to
\* one; a reference to what is not a candidate, or not there yet, must be the same one.
AreEquivalent(candidates, name, existing) ==
  LET left == Nodes(candidates)
      right == Nodes(components)
      pairs == Walk({<<ToComponent(name), ToComponent(existing)>>}, left, right) IN
  /\ OneToOne(pairs)
  /\ \A p \in pairs : IF p[1] \in DOMAIN left /\ p[2] \in DOMAIN right
                        THEN SameKeywords(left[p[1]], right[p[2]]) ELSE p[1] = p[2]

\* resolveComponentName: the name, and whether a component is reused.  The walk ends at
\* an equivalent component or at the first number that is free.
ResolveComponentName(candidates, claimed, preferred, direction) ==
  LET Candidate(i) == NameCandidate(preferred, direction, i)
      Exists(i) == Candidate(i).name \in DOMAIN components
      Reusable(i) == Exists(i) /\ AreEquivalent(candidates, preferred, Candidate(i).name)
      Free(i) == ~Exists(i) /\ Candidate(i).mintable /\ Candidate(i).name \notin claimed
      attempts == 1..(Cardinality(DOMAIN components) + Cardinality(claimed) + 4)
      Least(S) == CHOOSE i \in S : \A j \in S : i <= j
      end == Least({ i \in attempts : Reusable(i) \/ (Free(i) /\ Candidate(i).tail) }) IN
  IF Reusable(end) THEN [name |-> Candidate(end).name, reuse |-> TRUE]
  ELSE [name |-> Candidate(Least({ i \in attempts : Free(i) })).name, reuse |-> FALSE]

\* The names of the definitions, one after another, and those that are new.
Resolved(document) ==
  LET Step(sofar, def) ==
        LET one == ResolveComponentName(Candidates(document, sofar.renameMap), Range(sofar.renameMap),
                                        document.preferred[def], document.direction)
        IN [ renameMap |-> (def :> one.name) @@ sofar.renameMap,
             pending |-> IF one.reuse THEN sofar.pending ELSE sofar.pending \cup {def} ]
  IN FoldLeft(Step, [renameMap |-> <<>>, pending |-> {}], document.order)

\* hoistDefs.  References to components are to those of earlier calls.
HoistDefs(document) ==
  LET resolved == Resolved(document)
      names == resolved.renameMap
      New(name) == CHOOSE d \in resolved.pending : names[d] = name IN
  /\ Cardinality(hoisted) < MaxHoists
  /\ \A d \in DOMAIN document.schema : \A r \in ToSet(document.schema[d].refs) :
       r.to = "component" => r.name \in DOMAIN components
  /\ components' = [name \in { names[d] : d \in resolved.pending } |->
                      Rewritten(document.schema[New(name)], names)] @@ components
  /\ hoisted' = hoisted \cup {[schema |-> document.schema, names |-> names]}

NamesNext == \E document \in Documents : HoistDefs(document)

NamesSpec == NamesInit /\ [][NamesNext]_componentVars

-----------------------------------------------------------------------------
(* What the names stand for *)

\* Every definition that was ever hoisted is the component that its name refers to:
\* alike along all references, however the names in them were changed.
ComponentsKeepTheirMeaning ==
  \A document \in hoisted : \A d \in DOMAIN document.schema :
    LET right == Nodes(components)
        left == [r \in { ToDef(e) : e \in DOMAIN document.schema } |-> document.schema[r.name]] @@ right IN
    \A p \in Walk({<<ToDef(d), ToComponent(document.names[d])>>}, left, right) :
      p[1] \in DOMAIN left /\ p[2] \in DOMAIN right /\ SameKeywords(left[p[1]], right[p[2]])

\* No two components of one family are equivalent: a schema that comes again, also one
\* that refers to itself, and in whatever direction, reuses the first.
NoComponentTwice ==
  LET nodes == Nodes(components) IN
  \A one, other \in DOMAIN components : one # other /\ Head(one) = Head(other) =>
    LET pairs == Walk({<<ToComponent(one), ToComponent(other)>>}, nodes, nodes) IN
    ~(OneToOne(pairs) /\ \A p \in pairs : SameKeywords(nodes[p[1]], nodes[p[2]]))

\* Schemas that compete for a name are told apart, and those that are equivalent share it.
ComponentsAreNamedWell == ComponentsKeepTheirMeaning /\ NoComponentTwice
=============================================================================
