-------------------------------- MODULE Coercer --------------------------------
(***************************************************************************)
(* What came as strings is made into what a schema asks for                  *)
(* (json-schema/src/coercer.ts): keyword by keyword, through references that   *)
(* may lead back, and in a union by the branch that fits best.                *)
(*                                                                         *)
(* A value is a type with what is written: [t |-> "string", of |-> "1"] may    *)
(* become [t |-> "number", of |-> "1"].  Arrays, sets and maps have items,       *)
(* objects fields.  A schema has every keyword; one that is not given is empty:  *)
(* enum stands for const, anyOf for oneOf, additional for patternProperties,   *)
(* and date and bigint for the native types of a string.                      *)
(***************************************************************************)
EXTENDS Integers, Sequences, FiniteSets, SequencesExt

CONSTANTS
  Definitions, \* what references lead to: name -> schema
  Schemas,     \* the schemas that are applied
  GivenValues       \* to these values

VARIABLES
  schemaUsed, \* a schema, NoSchema before the call
  given,      \* the value
  coercion    \* the result of coerce: [sat, val]

coercerVars == <<schemaUsed, given, coercion>>

Unsatisfied == 0
LooselySatisfied == 1
Satisfied == 2

AnySchema == [ always |-> TRUE, type |-> <<>>, native |-> "", enum |-> {}, ref |-> "", items |-> <<>>, prefix |-> <<>>,
               properties |-> <<>>, additional |-> <<>>, required |-> {}, allOf |-> <<>>, anyOf |-> <<>>, not |-> <<>> ]

Scalar(t, of) == [t |-> t, of |-> of]
Lower(a, b) == IF a <= b THEN a ELSE b
Keep(sat, val) == [sat |-> sat, val |-> val]
Require(c, holds) == IF holds THEN c ELSE [c EXCEPT !.sat = Unsatisfied]

\* stringToNumber, stringToInteger and so on: what is written decides.
WrittenAs == [number |-> {"1", "1.5"}, integer |-> {"1"}, boolean |-> {"true"}, bigint |-> {"1"}, date |-> {"day"}]
FromString(kind, v) ==
  IF v.t = "string" /\ v.of \in WrittenAs[kind] THEN Scalar(IF kind = "integer" THEN "number" ELSE kind, v.of) ELSE v
IsPrimitive(v) == v.t \notin {"date", "array", "object", "set", "map"}
Distinct(items) == \A i, j \in DOMAIN items : i # j /\ items[i] = items[j] => ~IsPrimitive(items[i])
IsPair(v) == v.t = "array" /\ Len(v.items) = 2
ToNative(kind, v) ==
  CASE kind = "date" -> FromString("date", v)
    [] kind = "bigint" -> IF v.t = "number" /\ v.of = "1" THEN Scalar("bigint", "1") ELSE FromString("bigint", v)
    [] kind = "set" -> IF v.t = "array" /\ Distinct(v.items) THEN [v EXCEPT !.t = "set"] ELSE v
    [] kind = "map" -> IF /\ v.t = "array" /\ \A i \in DOMAIN v.items : IsPair(v.items[i])
                          /\ Distinct([i \in DOMAIN v.items |-> v.items[i].items[1]])
                         THEN [v EXCEPT !.t = "map"] ELSE v

\* const and enum: a string may stand for a number or a boolean.
ApplyEnum(schema, c) ==
  IF schema.enum = {} \/ c.val \in schema.enum THEN c
  ELSE IF c.val.t = "string" /\ FromString("number", c.val) \in schema.enum THEN [c EXCEPT !.val = FromString("number", @)]
  ELSE IF c.val.t = "string" /\ FromString("boolean", c.val) \in schema.enum THEN [c EXCEPT !.val = FromString("boolean", @)]
  ELSE Require(c, FALSE)

\* The schema of an item, and of a field.
ItemSchema(schema, i) == IF i <= Len(schema.prefix) THEN <<schema.prefix[i]>> ELSE schema.items
FieldSchema(schema, key) == IF key \in DOMAIN schema.properties THEN <<schema.properties[key]>> ELSE schema.additional

\* An array that is to be an object has its indexes for keys.
AsObject(v) ==
  IF v.t # "array" THEN v
  ELSE [t |-> "object", fields |-> [k \in { ToString(i - 1) : i \in DOMAIN v.items } |->
                                      v.items[CHOOSE i \in DOMAIN v.items : ToString(i - 1) = k]]]

Undefined == Scalar("undefined", "")
IsLooked(schema, fields, key) == fields[key] # Undefined \/ key \in schema.required
WorstOf(sats) == IF Unsatisfied \in sats THEN Unsatisfied ELSE IF LooselySatisfied \in sats THEN LooselySatisfied ELSE Satisfied

RECURSIVE Coerce(_, _, _)

\* Each item, or field, by its schema; one without is kept, loosely.
CoerceInner(sub, v) == IF sub = <<>> THEN Keep(LooselySatisfied, v) ELSE Coerce(sub[1], v, {})

ApplyArray(schema, c) ==
  LET inner == [i \in DOMAIN c.val.items |-> CoerceInner(ItemSchema(schema, i), c.val.items[i])] IN
  IF c.val.t # "array" THEN Require(c, FALSE)
  ELSE Require(Keep(Lower(c.sat, WorstOf({ inner[i].sat : i \in DOMAIN inner })),
                    [c.val EXCEPT !.items = [i \in DOMAIN inner |-> inner[i].val]]),
               Len(inner) >= Len(schema.prefix))

ApplyObject(schema, c) ==
  LET object == AsObject(c.val)
      looked == { k \in DOMAIN object.fields : IsLooked(schema, object.fields, k) }
      inner == [k \in looked |-> CoerceInner(FieldSchema(schema, k), object.fields[k])] IN
  IF object.t # "object" THEN Require(c, FALSE)
  ELSE Require(Keep(Lower(c.sat, WorstOf({ inner[k].sat : k \in looked })),
                    [object EXCEPT !.fields = [k \in DOMAIN @ |-> IF k \in looked THEN inner[k].val ELSE @[k]]]),
               schema.required \subseteq DOMAIN object.fields)

ApplyType(schema, c) ==
  LET type == schema.type[1]
      Converted == [c EXCEPT !.val = FromString(type, @)] IN
  CASE schema.type = <<>> -> c
    [] type \in {"null", "string"} -> Require(c, c.val.t = type)
    [] type \in {"number", "boolean"} -> Require(Converted, Converted.val.t = type)
    [] type = "integer" -> Require(Converted, Converted.val = Scalar("number", "1"))
    [] type = "array" -> ApplyArray(schema, c)
    [] type = "object" -> ApplyObject(schema, c)

ApplyNative(schema, c) ==
  LET native == [c EXCEPT !.val = ToNative(schema.native, @)] IN
  IF schema.native = "" THEN c ELSE Require(native, native.val.t = schema.native)

\* A sub-schema applied to the same value: it may convert it.
Then(sub, c, applied) == LET r == Coerce(sub, c.val, applied) IN Keep(Lower(c.sat, r.sat), r.val)
ApplyRef(schema, c, applied) ==
  IF schema.ref = "" \/ schema.ref \in applied THEN c
  ELSE Then(Definitions[schema.ref], c, applied \cup {schema.ref})
ApplyAll(schema, c, applied) == FoldLeft(LAMBDA d, sub : Then(sub, d, applied), c, schema.allOf)

\* Mutant of Best: the first branch that accepts the value.
BestFirst(branches, v) ==
  IF \E i \in DOMAIN branches : branches[i].sat # Unsatisfied
    THEN <<SelectSeq(branches, LAMBDA r : r.sat # Unsatisfied)[1]>> ELSE <<>>
\* The first branch that accepts the value untouched, or the first of those that accept
\* it best; none if none does.
Best(branches, v) ==
  LET accepting == SelectSeq(branches, LAMBDA r : r.sat # Unsatisfied)
      untouched == SelectSeq(accepting, LAMBDA r : r.val = v)
      full == SelectSeq(accepting, LAMBDA r : r.sat = Satisfied) IN
  IF untouched # <<>> THEN <<untouched[1]>>
  ELSE IF full # <<>> THEN <<full[1]>> ELSE SubSeq(accepting, 1, Lower(1, Len(accepting)))
ApplyAny(schema, c, applied) ==
  LET best == Best([i \in DOMAIN schema.anyOf |-> Coerce(schema.anyOf[i], c.val, applied)], c.val) IN
  IF schema.anyOf = <<>> THEN c
  ELSE IF best = <<>> THEN Require(c, FALSE) ELSE Keep(Lower(c.sat, best[1].sat), best[1].val)

ApplyNot(schema, c, applied) ==
  IF schema.not = <<>> THEN c ELSE Require(c, Coerce(schema.not[1], c.val, applied).sat = Unsatisfied)

\* coerceInternal.
Coerce(schema, v, applied) ==
  IF ~schema.always THEN Keep(Unsatisfied, v)
  ELSE IF Len(schema.type) > 1
    THEN Coerce([AnySchema EXCEPT !.anyOf = [i \in DOMAIN schema.type |-> [schema EXCEPT !.type = <<schema.type[i]>>]]],
                v, applied)
  ELSE LET told == ApplyRef(schema, Keep(Satisfied, v), applied)
           typed == ApplyNative(schema, ApplyType(schema, ApplyEnum(schema, told)))
       IN ApplyNot(schema, ApplyAny(schema, ApplyAll(schema, typed, applied), applied), applied)

NoSchema == [AnySchema EXCEPT !.always = FALSE]
CoercerInit == schemaUsed = NoSchema /\ given = Undefined /\ coercion = Keep(Satisfied, Undefined)

CoerceValue(schema, v) ==
  /\ schemaUsed = NoSchema
  /\ schemaUsed' = schema /\ given' = v /\ coercion' = Coerce(schema, v, {})

CoercerNext == \E schema \in Schemas, v \in GivenValues : CoerceValue(schema, v)

-----------------------------------------------------------------------------
(* The values that a schema allows, by the meaning of its keywords *)

RECURSIVE Allows(_, _, _)
AllowsInner(sub, v) == sub = <<>> \/ Allows(sub[1], v, {})
HasType(schema, type, v) ==
  CASE type \in {"null", "string", "number", "boolean"} -> v.t = type
    [] type = "integer" -> v = Scalar("number", "1")
    [] type = "array" -> /\ v.t = (IF schema.native = "" THEN "array" ELSE schema.native)
                         /\ Len(v.items) >= Len(schema.prefix)
                         /\ \A i \in DOMAIN v.items : AllowsInner(ItemSchema(schema, i), v.items[i])
    [] type = "object" -> /\ v.t = "object" /\ schema.required \subseteq DOMAIN v.fields
                          /\ \A k \in DOMAIN v.fields :
                               IsLooked(schema, v.fields, k) => AllowsInner(FieldSchema(schema, k), v.fields[k])
Allows(schema, v, applied) ==
  /\ schema.always
  /\ schema.enum # {} => v \in schema.enum
  /\ schema.ref = "" \/ schema.ref \in applied \/ Allows(Definitions[schema.ref], v, applied \cup {schema.ref})
  /\ IF schema.native \in {"date", "bigint"} THEN v.t = schema.native
     ELSE /\ schema.type = <<>> \/ \E i \in DOMAIN schema.type : HasType(schema, schema.type[i], v)
          /\ schema.native # "" => v.t = schema.native
  /\ \A i \in DOMAIN schema.allOf : Allows(schema.allOf[i], v, applied)
  /\ schema.anyOf = <<>> \/ \E i \in DOMAIN schema.anyOf : Allows(schema.anyOf[i], v, applied)
  /\ schema.not # <<>> => ~Allows(schema.not[1], v, applied)

-----------------------------------------------------------------------------
(* What coercion promises *)

\* A value that the schema allows already is not touched, whichever other branch of a
\* union would convert it; and what a schema accepts after a conversion it allows.
Called == schemaUsed # NoSchema
AllowedIsUntouched == Called /\ Allows(schemaUsed, given, {}) => coercion.val = given
AcceptedIsAllowed == Called /\ coercion.sat # Unsatisfied => Allows(schemaUsed, coercion.val, {})
CoercionIsSound == AllowedIsUntouched /\ AcceptedIsAllowed
=============================================================================
