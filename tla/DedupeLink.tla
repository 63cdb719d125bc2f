------------------------------ MODULE DedupeLink ------------------------------
(***************************************************************************)
(* DedupeLinkPlugin of packages/client/src/plugins/dedupe.ts, with its      *)
(* allAbortSignal (packages/shared/src/signal.ts): requests of one group    *)
(* that have the same key and are queued in the same turn fly once, and     *)
(* every caller gets a replica of the response.                            *)
(*                                                                         *)
(* A caller makes one request, for the key key[c].  The wrapped link is     *)
(* external: it answers or fails, and fails when its signal is aborted.     *)
(* What a replica of a stream does is in ReplicateIterator.                 *)
(***************************************************************************)
EXTENDS Integers, Sequences, SequencesExt, FiniteSets

CONSTANTS Callers,   \* requests, each with its promise
          KeysOf,    \* what createRequestKey may give for each of them
          Signalled  \* which of them may have a signal

ASSUME DedupeAssumption ==
  /\ IsFiniteSet(Callers)
  /\ KeysOf \subseteq [Callers -> Nat] /\ Signalled \subseteq SUBSET Callers

\* The longest history: every caller flies on its own.
Flights == 1..Cardinality(Callers)

VARIABLES
  key,       \* createRequestKey of each request
  signalled, \* the callers whose request has a signal
  queue,     \* queue: the items, each the sequence of the callers that matched
  timers,    \* defer: how many calls of processPendingRequests are due
  flight,    \* the callers of each flight, <<>> before it starts
  link,      \* the wrapped link: "none", "flying", "value", "stream" or "failed"
  cut,       \* the flights whose signal is aborted
  gaveUp,    \* the callers whose signal is aborted
  promise,   \* each caller: "none", "pending", "response" or "error"
  body,      \* what resolveBody gave: NoBody, Shared, or the number of its replica
  stock      \* replicatedAsyncIterators: how many replicas are left, Unmade before

dedupeVars == <<key, signalled, queue, timers, flight, link, cut, gaveUp, promise, body, stock>>

NoBody == -1
Shared == 0
Unmade == -1

DedupeInit ==
  /\ key \in KeysOf /\ signalled \in Signalled
  /\ queue = <<>> /\ timers = 0
  /\ flight = [f \in Flights |-> <<>>] /\ link = [f \in Flights |-> "none"]
  /\ cut = {} /\ gaveUp = {}
  /\ promise = [c \in Callers |-> "none"] /\ body = [c \in Callers |-> NoBody]
  /\ stock = [f \in Flights |-> Unmade]

-----------------------------------------------------------------------------
\* The item of the queue that the request of c matches.
Matched(c) == {i \in 1..Len(queue) : key[queue[i][1]] = key[c]}

\* enqueue: a matched item gets one more caller, otherwise there is a new item;
\* each call defers a run of processPendingRequests.  A request that the filter
\* refuses, that no group matches or that is aborted already is passed on, and
\* does not appear here.
Enqueue(c) ==
  /\ promise[c] = "none" /\ c \notin gaveUp
  /\ promise' = [promise EXCEPT ![c] = "pending"]
  /\ queue' = IF Matched(c) = {} THEN Append(queue, <<c>>)
              ELSE [i \in 1..Len(queue) |-> IF i \in Matched(c) THEN Append(queue[i], c) ELSE queue[i]]
  /\ timers' = timers + 1
  /\ UNCHANGED <<key, signalled, flight, link, cut, gaveUp, body, stock>>

\* allAbortSignal, or the only signal: aborted once every caller has a signal and
\* all of them are.
Combined(callers, signals) == ToSet(callers) \subseteq signals

Taken == queue

Started == Cardinality({f \in Flights : flight[f] # <<>>})

\* processPendingRequests: the whole queue flies, a flight per item.
Process ==
  /\ timers > 0 /\ timers' = timers - 1
  /\ queue' = <<>>
  /\ flight' = [f \in Flights |->
       IF f - Started \in 1..Len(Taken) THEN Taken[f - Started] ELSE flight[f]]
  /\ link' = [f \in Flights |-> IF f - Started \in 1..Len(Taken) THEN "flying" ELSE link[f]]
  /\ cut' = cut \cup {f \in Flights : f - Started \in 1..Len(Taken)
                                        /\ Combined(Taken[f - Started], gaveUp)}
  /\ UNCHANGED <<key, signalled, gaveUp, promise, body, stock>>

\* A caller aborts its signal.
AbortCaller(c) ==
  /\ c \in signalled \ gaveUp
  /\ gaveUp' = gaveUp \cup {c}
  /\ cut' = cut \cup {f \in Flights : flight[f] # <<>> /\ c \in ToSet(flight[f])
                                        /\ Combined(flight[f], gaveUp')}
  /\ UNCHANGED <<key, signalled, queue, timers, flight, link, promise, body, stock>>

\* The wrapped link settles the flight f: every caller of it gets a response with
\* a value or a stream in its body, or the error.
Answer(f, how) ==
  /\ link[f] = "flying"
  /\ f \in cut => how = "failed"
  /\ link' = [link EXCEPT ![f] = how]
  /\ promise' = [c \in Callers |->
       IF c \in ToSet(flight[f]) THEN (IF how = "failed" THEN "error" ELSE "response") ELSE promise[c]]
  /\ UNCHANGED <<key, signalled, queue, timers, flight, cut, gaveUp, body, stock>>

\* replicateAsyncIterator(body, count)
Replicas(f) == Len(flight[f])

InStock(f) == IF stock[f] = Unmade THEN Replicas(f) ELSE stock[f]

\* resolveBody of the response of c: a stream is replicated when the first caller
\* asks, and each pops its replica; a single caller reads the response itself.
\* Once resolved, the body stays.  That bodyPromise is awaited is not seen: a caller asks
\* once at a time, and the same body comes to all.
ResolveBody(f, c) ==
  /\ c \in ToSet(flight[f]) /\ promise[c] = "response" /\ body[c] = NoBody
  /\ IF link[f] = "stream" /\ Len(flight[f]) > 1
     THEN /\ body' = [body EXCEPT ![c] = InStock(f)]
          /\ stock' = [stock EXCEPT ![f] = IF InStock(f) = 0 THEN 0 ELSE InStock(f) - 1]
     ELSE body' = [body EXCEPT ![c] = Shared] /\ UNCHANGED stock
  /\ UNCHANGED <<key, signalled, queue, timers, flight, link, cut, gaveUp, promise>>

Settle(f) == \E how \in {"value", "stream", "failed"} : Answer(f, how)

DedupeNext ==
  \/ \E c \in Callers : Enqueue(c) \/ AbortCaller(c)
  \/ Process
  \/ \E f \in Flights : Settle(f) \/ \E c \in Callers : ResolveBody(f, c)

\* Deferred callbacks run, and the wrapped link settles.
DedupeFairness == WF_dedupeVars(Process) /\ WF_dedupeVars(\E f \in Flights : Settle(f))

DedupeSpec == DedupeInit /\ [][DedupeNext]_dedupeVars /\ DedupeFairness

-----------------------------------------------------------------------------
(* What the plugin promises.                                               *)

\* Callers that share a request stay apart.  It is aborted once every one of them
\* has aborted, and never while one still wants the response, be it a caller
\* without a signal (allAbortSignal, whose signals may be aborted before it is
\* called).  Of a stream each reads a replica of its own, whatever the others do
\* with theirs: nobody is left without one (replicateLazyResponse).
SharersStayApart ==
  \A f \in Flights : flight[f] # <<>> =>
    LET sharers == ToSet(flight[f])
    IN  /\ f \in cut <=> sharers \subseteq signalled \cap gaveUp
        /\ link[f] = "stream" /\ Len(flight[f]) > 1 =>
             \A c \in sharers : body[c] # NoBody =>
               body[c] # 0 /\ \A d \in sharers \ {c} : body[d] # body[c]

\* In the end nobody who was queued waits: every call is settled, also by a run
\* of processPendingRequests that an earlier call deferred (enqueue,
\* processPendingRequests).
QueuedCallsSettle == <>[](\A c \in Callers : promise[c] # "pending")
=============================================================================
