--------------------------------- MODULE Server ---------------------------------
(***************************************************************************)
(* What a request meets on the server, from the socket to the procedure:    *)
(* the peer of the socket, the matcher that finds the procedure, the call of *)
(* the procedure, the plugins and the limits on the way, and a batch of them. *)
(* They share no state: each gets from the others a message, a path, a         *)
(* procedure or a result, and anything of that kind.  A behaviour of this      *)
(* module is one of them at work.                                            *)
(***************************************************************************)
EXTENDS Peers, LazyRouter, ProcedureCall, RateLimit, RateLimitRequest, PluginOrder, ServerBatch

VARIABLE part  \* "peers", "router", "call", "limiter", "request", "plugins" or "batch"

\* Three clients, two of which share a key, and one of which asks for more than
\* a window gives.
MCKeyOf == <<1, 1, 2>>
MCWeightOf == <<1, 2, 3>>
\* /a/b/p behind two lazy parts, /a/q behind one, /c/r behind another, /s behind
\* none, and /a/b/x that is nowhere; part c has no prefix of its own.
MCThrough == [p |-> <<"a", "b">>, q |-> <<"a">>, r |-> <<"c">>, s |-> <<>>, x |-> <<"a", "b">>]
MCTests == [p |-> {"a", "b", "c"}, q |-> {"a", "c"}, r |-> {"c"}, s |-> {"c"}, x |-> {"a", "b", "c"}]
\* Batches of one method or of two, and one that is too large.
MCBatches == { <<m>> : m \in {"GET", "QUERY"} } \cup { <<m, n>> : m \in {"GET", "QUERY"}, n \in {"GET", "QUERY", "POST"} }
               \cup {<<"GET", "GET", "GET">>}

vars == <<part, peerVars, routerVars, callVars, limitVars, requestVars, pluginVars, serverBatchVars>>

\* One that is not at work stays in one initial state.
Init ==
  /\ part \in {"peers", "router", "call", "limiter", "request", "plugins", "batch"}
  /\ PeersInit /\ (part # "peers" => adapter = "websocket")
  /\ RouterInit /\ (part # "router" => kind = "rpc")
  /\ CallInit /\ (part # "call" => config = [in |-> TRUE, out |-> TRUE, opaque |-> FALSE])
  /\ LimitInit /\ (part # "limiter" => store = "memory")
  /\ RequestInit
  /\ IF part = "plugins" THEN OrderInit ELSE SortingStarts(<<>>)
  /\ ServerBatchInit /\ (part # "batch" => batch = Plain)

PeersOnly == part = "peers" /\ UNCHANGED <<part, routerVars, callVars, limitVars, requestVars, pluginVars, serverBatchVars>>
RouterOnly == part = "router" /\ UNCHANGED <<part, peerVars, callVars, limitVars, requestVars, pluginVars, serverBatchVars>>
CallOnly == part = "call" /\ UNCHANGED <<part, peerVars, routerVars, limitVars, requestVars, pluginVars, serverBatchVars>>
LimiterOnly == part = "limiter" /\ UNCHANGED <<part, peerVars, routerVars, callVars, requestVars, pluginVars, serverBatchVars>>
RequestOnly == part = "request" /\ UNCHANGED <<part, peerVars, routerVars, callVars, limitVars, pluginVars, serverBatchVars>>
PluginsOnly == part = "plugins" /\ UNCHANGED <<part, peerVars, routerVars, callVars, limitVars, requestVars, serverBatchVars>>
BatchOnly == part = "batch" /\ UNCHANGED <<part, peerVars, routerVars, callVars, limitVars, requestVars, pluginVars>>

Next ==
  \/ PeersOnly /\ PeersNext
  \/ RouterOnly /\ RouterNext
  \/ CallOnly /\ CallNextState
  \/ LimiterOnly /\ LimitNext
  \/ RequestOnly /\ RequestNext
  \/ PluginsOnly /\ OrderNext
  \/ BatchOnly /\ ServerBatchNext

\* A load ends, a request goes on; time passes, a limiter goes on.
Fairness ==
  /\ WF_vars(\/ RouterOnly /\ LoadEnds
             \/ LimiterOnly /\ TimePasses)
  /\ WF_vars(\/ RouterOnly /\ \E m \in Matches : Resume(m)
             \/ LimiterOnly /\ \E c \in Clients : Proceed(c))

Spec == Init /\ [][Next]_vars /\ Fairness
=============================================================================
