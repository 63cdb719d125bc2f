------------------------------- MODULE PluginOrder -------------------------------
(***************************************************************************)
(* How the plugins of a handler or a link come to nest: sortPlugins of       *)
(* shared/src/plugin.ts orders what the user gives by the before and after of *)
(* the plugins, the composite plugin lets each wrap the interceptors there   *)
(* are, in front of them or behind them, and intercept calls them from the   *)
(* first to the last.  A plugin before another is so around it or within it, *)
(* as both put theirs in front or behind.                                    *)
(*                                                                         *)
(* A plugin is its name, its before and after, and the place of its          *)
(* interceptors.  Interceptors of different kinds (of routing, of the call,  *)
(* of the transport) are kept in one list: only the order within a kind      *)
(* matters, and a list keeps that.                                          *)
(***************************************************************************)
EXTENDS Integers, Sequences, SequencesExt

CONSTANTS MaxPlugins   \* bound: plugins that the user gives

ASSUME OrderAssumption == MaxPlugins \in Nat

VARIABLES
  given,    \* the plugins, in the order of the user
  visits,   \* what sortPlugins is at: its loop, with no plugin (0), and the visits within
  waiting,  \* the indices of those that have not been initialised, as far as sorted
  chain     \* the interceptors, outermost first

pluginVars == <<given, visits, waiting, chain>>

Plugin(name, before, after, place) ==
  [name |-> name, before |-> before, after |-> after, place |-> place]

\* Plugins of handlers.
OtelHandler == Plugin("otel", <<>>, <<>>, "front")
BatchHandler == Plugin("batch", <<>>, <<"otel">>, "front")
CorsHandler == Plugin("cors", <<>>, <<"otel", "batch">>, "front")
CsrfHandler == Plugin("csrf", <<>>, <<"batch">>, "front")
MethodOverrideHandler == Plugin("method-override", <<"batch">>, <<>>, "front")
ResponseHeadersHandler == Plugin("response-headers", <<"batch">>, <<>>, "front")
DecompressHandler == Plugin("request-compression", <<>>, <<"batch">>, "front")
RequestLimitHandler == Plugin("request-limit", <<"request-compression">>, <<"batch">>, "front")
CompressHandler == Plugin("response-compression", <<>>, <<"batch", "response-headers">>, "front")
CompressBatchHandler == Plugin("batch-response-compression", <<>>, <<"batch">>, "front")
TmpFileHandler == Plugin("tmp-file", <<"request-limit", "request-compression">>, <<"batch">>, "front")
StaticFileHandler == Plugin("static-file", <<>>, <<"otel">>, "back")
PinoHandler == Plugin("pino", <<"otel", "batch", "hibernation">>, <<>>, "front")
HibernationHandler == Plugin("hibernation", <<"batch">>, <<>>, "front")
RateLimitHandler == Plugin("ratelimit", <<>>, <<>>, "back")

PluginsOfHandlers ==
  {BatchHandler, CorsHandler, CsrfHandler, MethodOverrideHandler, ResponseHeadersHandler,
   DecompressHandler, RequestLimitHandler, CompressHandler, CompressBatchHandler, TmpFileHandler,
   StaticFileHandler, PinoHandler, HibernationHandler, RateLimitHandler}

\* Plugins of links.
RetryPlugin == Plugin("retry", <<>>, <<>>, "front")
TimeoutPlugin == Plugin("timeout", <<>>, <<"retry">>, "front")
DedupePlugin == Plugin("dedupe", <<"batch">>, <<>>, "back")
BatchPlugin == Plugin("batch", <<>>, <<>>, "back")
CompressPlugin == Plugin("request-compression", <<>>, <<"batch">>, "back")
DecompressPlugin == Plugin("response-compression", <<>>, <<"batch">>, "back")
ValidationPlugin == Plugin("response-validation", <<>>, <<>>, "back")
CoercionPlugin == Plugin("smart-coercion", <<>>, <<"response-validation">>, "back")

PluginsOfLinks ==
  {RetryPlugin, TimeoutPlugin, DedupePlugin, BatchPlugin, CompressPlugin, DecompressPlugin,
   ValidationPlugin, CoercionPlugin}

-----------------------------------------------------------------------------
\* Mutant of ForBefore: what is before another depends on it.
ForBeforeSwapped(ps, i, j) == IF ps[i].name \in Range(ps[j].before) THEN <<i>> ELSE <<>>

\* The edges of sortPlugins: what plugin i adds to the dependencies of j by its
\* before, and those of j by its after.  A Set has each once: here its second time is
\* passed over, as it has been visited.
ForBefore(ps, i, j) == IF ps[j].name \in Range(ps[i].before) THEN <<i>> ELSE <<>>
Indices(ps, name) == FlattenSeq([i \in 1..Len(ps) |-> IF ps[i].name = name THEN <<i>> ELSE <<>>])
ForAfter(ps, j) == FlattenSeq([k \in 1..Len(ps[j].after) |-> Indices(ps, ps[j].after[k])])
Dependencies(ps, j) ==
  FlattenSeq([i \in 1..Len(ps) |-> ForBefore(ps, i, j) \o (IF i = j THEN ForAfter(ps, j) ELSE <<>>)])

\* A visit that is at work: the plugin, and the dependencies that are left.
AVisit(i, left) == [plugin |-> i, left |-> left]

Lists(S) == UNION {[1..n -> S] : n \in 0..MaxPlugins}

\* The constructor of a handler, which adds the plugin of OpenTelemetry, or of a
\* link, at the loop of sortPlugins; "user" are the interceptors that the user gives.
SortingStarts(ps) ==
  /\ given = ps
  /\ visits = <<AVisit(0, [i \in 1..Len(ps) |-> i])>>
  /\ waiting = <<>> /\ chain = <<"user">>
OrderInit ==
  \E ps \in {<<OtelHandler>> \o l : l \in Lists(PluginsOfHandlers)} \cup Lists(PluginsOfLinks) :
    SortingStarts(ps)

\* visit, up to the next one: who was visited returns at once; one that is met again
\* while it is visited is part of a circle, and an error, which ends it all.
Visit ==
  /\ visits # <<>> /\ Last(visits).left # <<>>
  /\ LET i == Head(Last(visits).left)
         rest == Append(Front(visits), AVisit(Last(visits).plugin, Tail(Last(visits).left)))
     IN  IF i \in Range(waiting) THEN visits' = rest /\ UNCHANGED waiting
         ELSE IF \E k \in 1..Len(visits) : visits[k].plugin = i THEN visits' = <<>> /\ waiting' = <<>>
         ELSE visits' = Append(rest, AVisit(i, Dependencies(given, i))) /\ UNCHANGED waiting
  /\ UNCHANGED <<given, chain>>

\* The end of a visit: a plugin comes behind all it depends on.  The loop has none.
EndVisit ==
  /\ visits # <<>> /\ Last(visits).left = <<>>
  /\ visits' = Front(visits)
  /\ waiting' = IF Last(visits).plugin = 0 THEN waiting ELSE Append(waiting, Last(visits).plugin)
  /\ UNCHANGED <<given, chain>>

\* init of the composite plugin, for the next of its plugins.
InitPlugin ==
  /\ visits = <<>> /\ waiting # <<>>
  /\ waiting' = Tail(waiting)
  /\ LET p == given[Head(waiting)]
     IN  chain' = IF p.place = "front" THEN <<p.name>> \o chain ELSE Append(chain, p.name)
  /\ UNCHANGED <<given, visits>>

OrderNext == Visit \/ EndVisit \/ InitPlugin

OrderSpec == OrderInit /\ [][OrderNext]_pluginVars

-----------------------------------------------------------------------------
\* What the comments above the plugins ask for: the first is around the second.
\* Judge, limit, decompress and answer the batch and not its parts; give each
\* part its span, its headers, its method and its line in the log; see the whole
\* of a body and its final headers; measure all retries; send the batch compressed;
\* coerce before it is validated.
Around ==
  {<<"batch", "otel">>, <<"cors", "otel">>, <<"cors", "batch">>, <<"csrf", "batch">>,
   <<"batch", "method-override">>, <<"batch", "response-headers">>,
   <<"response-compression", "response-headers">>, <<"batch-response-compression", "batch">>,
   <<"request-limit", "batch">>, <<"request-compression", "request-limit">>,
   <<"tmp-file", "batch">>, <<"request-limit", "tmp-file">>, <<"request-compression", "tmp-file">>,
   <<"otel", "user">>, <<"otel", "static-file">>, <<"otel", "pino">>, <<"batch", "pino">>,
   <<"timeout", "retry">>, <<"response-validation", "smart-coercion">>}
AroundInHandlers == {<<"request-compression", "batch">>, <<"response-compression", "batch">>}
AroundInLinks ==
  {<<"dedupe", "batch">>, <<"batch", "request-compression">>, <<"batch", "response-compression">>}

\* In whatever order the user gives the plugins, also one more than once, and
\* with whichever others between them, they nest as the comments of each say, and
\* none is lost or refused for a circle (sortPlugins, CompositeStandardHandlerPlugin,
\* intercept).
PluginsNestAsStated ==
  /\ visits = <<>> => Len(chain) + Len(waiting) = Len(given) + 1
  /\ given # <<>> =>
     LET stated == Around \cup IF given[1] = OtelHandler THEN AroundInHandlers ELSE AroundInLinks
     IN  \A i, j \in 1..Len(chain) : <<chain[i], chain[j]>> \in stated => i < j
=============================================================================
