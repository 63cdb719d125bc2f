------------------------------- MODULE ClientLink -------------------------------
(***************************************************************************)
(* What stands between the calls of a client and the network: the plugins of  *)
(* a link that hold calls back and answer them later, RetryLinkPlugin,         *)
(* DedupeLinkPlugin and BatchLinkPlugin (packages/client/src/plugins), and the *)
(* transport that shares one websocket (client/src/adapters/websocket).  They  *)
(* share no state: each wraps a link, and what it wraps is external to it.  A   *)
(* behaviour of this module is one of the four at work.  What each of them      *)
(* promises is in its own module.                                            *)
(***************************************************************************)
EXTENDS RetryLink, DedupeLink, BatchLink, WebSocketTransport

VARIABLE part  \* the one at work: "retry", "dedupe", "batch" or "websocket"

vars == <<part, retryVars, dedupeVars, batchVars, transportVars>>

\* One that is not at work stays in one of its initial states.
Init ==
  /\ part \in {"retry", "dedupe", "batch", "websocket"}
  /\ RetryInit /\ DedupeInit /\ BatchInit /\ TransportInit
  /\ part # "retry" => asked = 0
  /\ part # "dedupe" => key = (CHOOSE k \in KeysOf : TRUE)
                          /\ signalled = (CHOOSE s \in Signalled : TRUE)
  /\ part # "batch" => method = (CHOOSE m \in MethodsOf : TRUE)
  /\ part # "websocket" => enabled

RetryOnly == part = "retry" /\ UNCHANGED <<part, dedupeVars, batchVars, transportVars>>
DedupeOnly == part = "dedupe" /\ UNCHANGED <<part, retryVars, batchVars, transportVars>>
BatchOnly == part = "batch" /\ UNCHANGED <<part, retryVars, dedupeVars, transportVars>>
TransportOnly == part = "websocket" /\ UNCHANGED <<part, retryVars, dedupeVars, batchVars>>

Next ==
  \/ RetryOnly /\ RetryNext
  \/ DedupeOnly /\ DedupeNext
  \/ BatchOnly /\ BatchNext
  \/ TransportOnly /\ TransportNext

\* The fairness of each, of the one at work.
Fairness ==
  /\ WF_vars(\/ RetryOnly /\ Continue
             \/ DedupeOnly /\ Process
             \/ BatchOnly /\ ProcessPending
             \/ TransportOnly /\ ContinueRun)
  /\ WF_vars(\/ RetryOnly /\ aborted /\ Fails
             \/ DedupeOnly /\ \E f \in Flights : Settle(f)
             \/ BatchOnly /\ \E b \in 1..Len(batches) : Step(b)
             \/ TransportOnly /\ TransportProceeds)
  /\ SF_vars(RetryOnly /\ CallAgain)

Spec == Init /\ [][Next]_vars /\ Fairness

-----------------------------------------------------------------------------
(* What the parts that make one request of several promise *)

\* Callers that share a request, because they ask the same or as members of a batch,
\* stay apart: the abort, the failure or the split of one's is not another's
\* (DedupeLink's and BatchLink's promise).
CallersStayApart == SharersStayApart /\ MembersStayApart

\* In the end every call that was queued is settled, but those of a batch with a member
\* that was aborted in between, and every call of the transport is (the promise of
\* DedupeLink, of BatchLink and of WebSocketTransport).
CallsSettle == QueuedCallsSettle /\ BatchedCallsSettle /\ EveryCallSettles
=============================================================================
