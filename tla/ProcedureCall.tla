----------------------------- MODULE ProcedureCall -----------------------------
(***************************************************************************)
(* A procedure, from the builder that makes it to the error or the output of *)
(* a call (server/src/builder.ts, router-utils.ts, procedure-client.ts).  A  *)
(* procedure is a list of middlewares, each with the number of input and     *)
(* output schemas there were when it was used, and the call goes through     *)
(* them by activations of next that nest: a middleware may call next once,   *)
(* not at all, or again after an error, and each activation validates the    *)
(* schemas between its middleware and its neighbours'.                      *)
(*                                                                         *)
(* A schema is its index; what is validated is the list of the schemas it   *)
(* went through.  Contexts are left out: they are merged on the way in.     *)
(***************************************************************************)
EXTENDS Integers, Sequences, SequencesExt

CONSTANTS MaxMiddlewares, MaxSchemas,  \* bounds of the procedure
          MaxNexts                     \* bound: calls of next

VARIABLES
  mids,    \* orderedMiddlewares: schemas of each side at use
  total,   \* the schemas of each side, "in" and "out"
  config,  \* [in, out : whether that side is validated, opaque : opaqueReturnedErrors]
  phase,   \* "building", "augmenting", "calling" or "answered"
  stack,   \* the activations of next, outermost first
  nexts,   \* how often a middleware called next
  answer   \* what the caller got

callVars == <<mids, total, config, phase, stack, nexts, answer>>

\* A thrown value: an ORPCError, of which the error map has the code and accepts
\* the data, or not, and which has two flags; or anything else.
ORPCErrors == [accepted : BOOLEAN, defined : BOOLEAN, inferable : BOOLEAN]
Other == [other |-> TRUE]
Invalid == {e \in ORPCErrors : ~e.defined /\ ~e.inferable}

\* How an activation went so far: nothing, an output of activation `from` that
\* passed some schemas, or an error.
Nothing == [is |-> "nothing"]
Output(from, passed) == [is |-> "output", from |-> from, passed |-> passed]
Error(e) == [is |-> "error", error |-> e]

CallInit ==
  /\ mids = <<>> /\ total = [in |-> 0, out |-> 0]
  /\ config \in [in : BOOLEAN, out : BOOLEAN, opaque : BOOLEAN]
  /\ phase = "building"
  /\ stack = <<>> /\ nexts = 0 /\ answer = Nothing

-----------------------------------------------------------------------------
\* builder.input, builder.output
AddSchema(side) ==
  /\ phase = "building" /\ total[side] < MaxSchemas
  /\ total' = [total EXCEPT ![side] = @ + 1]
  /\ UNCHANGED <<mids, config, phase, stack, nexts, answer>>

\* use, of the builder, of a decorated procedure and of an implementer.
Use ==
  /\ phase = "building" /\ Len(mids) < MaxMiddlewares
  /\ mids' = Append(mids, total)
  /\ UNCHANGED <<total, config, phase, stack, nexts, answer>>

\* Mutant of OfRouter: the middleware of a router counts the schemas it finds.
OfRouterAtUse == total

\* augmentRouter: the middlewares of a router come before every schema.
OfRouter == [in |-> 0, out |-> 0]
Augment ==
  /\ phase \in {"building", "augmenting"} /\ Len(mids) < MaxMiddlewares
  /\ mids' = <<OfRouter>> \o mids
  /\ phase' = "augmenting"
  /\ UNCHANGED <<total, config, stack, nexts, answer>>

-----------------------------------------------------------------------------
\* The middleware of activation n, or the handler, is where its schemas end.
End(n, side) == IF n > Len(mids) THEN total[side] ELSE mids[n][side]
Begin(n, side) == IF n = 1 THEN 0 ELSE mids[n - 1][side]
Segment(n, side) ==
  IF config[side] THEN [i \in 1..(End(n, side) - Begin(n, side)) |-> Begin(n, side) + i - 1] ELSE <<>>

Depth == Len(stack)
Top == stack[Depth]
IsHandler == Depth = Len(mids) + 1
Activation(input) == [stage |-> "input", input |-> input, result |-> Nothing]
Becomes(stage, result) == stack' = [stack EXCEPT ![Depth].stage = stage, ![Depth].result = result]

\* reconcileORPCError: the flags say what the error map says, but an error that
\* was inferable stays so when the map does not know it.
Reconciled(e) ==
  IF e = Other THEN e
  ELSE IF e.accepted THEN [e EXCEPT !.defined = TRUE, !.inferable = TRUE]
  ELSE IF ~e.defined THEN e
  ELSE [e EXCEPT !.defined = FALSE, !.inferable = FALSE]

\* The activation ends: what it leaves goes to the middleware that called next,
\* or to the caller, an error reconciled.
Leave(result) ==
  IF Depth > 1
  THEN /\ stack' = [Front(stack) EXCEPT ![Depth - 1].result = result]
       /\ UNCHANGED <<phase, answer>>
  ELSE /\ stack' = <<>> /\ phase' = "answered"
       /\ answer' = IF result.is = "error" THEN Error(Reconciled(result.error)) ELSE result

\* The call: next(0, context, input).
Call ==
  /\ phase \in {"building", "augmenting"}
  /\ phase' = "calling"
  /\ stack' = <<Activation(<<>>)>>
  /\ UNCHANGED <<mids, total, config, nexts, answer>>

In(stage) == phase = "calling" /\ Top.stage = stage /\ UNCHANGED <<mids, total, config>>

\* validateInput of the schemas up to the middleware, which may fail.
ValidateInput ==
  /\ In("input")
  /\ \/ /\ stack' = [stack EXCEPT ![Depth].stage = "running", ![Depth].input = @ \o Segment(Depth, "in")]
        /\ UNCHANGED <<phase, answer>>
     \/ /\ Segment(Depth, "in") # <<>>
        /\ \E e \in Invalid : Leave(Error(e))
  /\ UNCHANGED nexts

\* The middleware calls next.
CallNext ==
  /\ In("running") /\ ~IsHandler /\ nexts < MaxNexts
  /\ nexts' = nexts + 1
  /\ stack' = Append(stack, Activation(Top.input))
  /\ UNCHANGED <<phase, answer>>

\* The middleware returns the result of next, or an output of its own; or it
\* throws the error of next, or one of its own.
MiddlewareEnds ==
  /\ In("running") /\ ~IsHandler
  /\ \/ /\ \E r \in {Output(Depth, <<>>)} \cup (IF Top.result.is = "output" THEN {Top.result} ELSE {}) :
             Becomes("output", r)
        /\ UNCHANGED <<phase, answer>>
     \/ Top.result.is = "error" /\ Leave(Top.result)
     \/ \E e \in ORPCErrors \cup {Other} : Leave(Error(e))
  /\ UNCHANGED nexts

\* An ORPCError that the handler returned is thrown, and marked inferable.
Returned(e) ==
  IF config.opaque \/ (e.inferable /\ ~e.defined) THEN e
  ELSE [e EXCEPT !.defined = FALSE, !.inferable = TRUE]

HandlerEnds ==
  /\ In("running") /\ IsHandler
  /\ \/ Becomes("output", Output(Depth, <<>>)) /\ UNCHANGED <<phase, answer>>
     \/ Leave(Error(Other))
     \/ \E e \in ORPCErrors : Leave(Error(e)) \/ Leave(Error(Returned(e)))
  /\ UNCHANGED nexts

\* validateOutput of the schemas of this activation, last first.
ValidateOutput ==
  LET mine == Reverse(Segment(Depth, "out"))
  IN  /\ In("output")
      /\ \/ Leave(Output(Top.result.from, Top.result.passed \o mine))
         \/ mine # <<>> /\ \E e \in Invalid : Leave(Error(e))
      /\ UNCHANGED nexts

CallNextState ==
  \/ \E side \in {"in", "out"} : AddSchema(side)
  \/ Use \/ Augment \/ Call
  \/ ValidateInput \/ CallNext \/ MiddlewareEnds \/ HandlerEnds \/ ValidateOutput

CallSpec == CallInit /\ [][CallNextState]_callVars

-----------------------------------------------------------------------------
UpTo(n, side) == [i \in 1..(IF config[side] THEN n ELSE 0) |-> i - 1]

\* A call is checked on both sides, however the procedure was built and the
\* middlewares behave.  A middleware, and the handler, get an input that went
\* through all schemas that were declared before it, each once and in order; an
\* output leaves through all that were declared before whoever made it, each
\* once and in reverse; and an error is called defined exactly when the error
\* map has its code and accepts its data (executeProcedureInternal,
\* orderedMiddlewares, reconcileORPCError).
CheckedBothWays ==
  /\ \A n \in 1..Depth : stack[n].stage # "input" => stack[n].input = UpTo(End(n, "in"), "in")
  /\ answer.is = "output" => answer.passed = Reverse(UpTo(End(answer.from, "out"), "out"))
  /\ answer.is = "error" /\ answer.error # Other => (answer.error.defined <=> answer.error.accepted)
=============================================================================
