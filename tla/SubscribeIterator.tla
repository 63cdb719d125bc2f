------------------------- MODULE SubscribeIterator -------------------------
(***************************************************************************)
(* Publisher.subscribe in its iterator form (packages/publisher/src/        *)
(* publisher.ts): an iterator over what subscribeListener of any adapter    *)
(* delivers, with a bounded buffer, an abort signal and one terminal state. *)
(*                                                                         *)
(* The adapter is the environment: it calls the listener from the moment    *)
(* subscribeListener is called (replay) until unsubscribe is, may call      *)
(* onError at any time, and settles its promise some time.  The consumer is *)
(* an AsyncIteratorClass (external): its next calls run one after another,  *)
(* return may run while one is pending.                                     *)
(***************************************************************************)
EXTENDS Integers, Sequences, Functions

CONSTANTS MaxBuffered,  \* maxBufferedEvents
          MaxDelivered     \* bound: events that the adapter delivers

ASSUME IteratorAssumption == MaxBuffered \in Nat /\ MaxDelivered \in Nat

VARIABLES accepted,   \* how many events the listener accepted; event n is the n-th
          buffer,     \* bufferedEvents
          resolvers,  \* pullResolvers: the calls of next that wait, or waited
          call,       \* the call of next in progress, or 0
          calls,      \* how many calls of next have waited
          result,     \* how the promise of that call is settled: "none" before
          terminal,   \* terminalState; "abort": an error state entered with an aborted signal
          aborted,    \* signal.aborted
          listening,  \* the abort listener has neither run nor been removed
          sub,        \* the promise of subscribeListener
          unsub,      \* whether the unsubscribe function has been called
          ended,      \* how the iterator has ended (AsyncIteratorClass), or "no"
          received,   \* iteratorHistory: the events next returned
          overflowed, \* iteratorHistory: the events that a full buffer lost
          atEnd       \* iteratorHistory: how many events were accepted before terminate

iteratorHistory == <<received, overflowed, atEnd>>
iteratorVars == <<accepted, buffer, resolvers, call, calls, result, terminal, aborted, listening, sub,
          unsub, ended, iteratorHistory>>

NoCall == 0
Kinds == {"none", "error", "abort", "cancelled"}
Results == {<<>>, <<"done">>, <<"error">>} \cup {<<"value", n>> : n \in 1..MaxDelivered}

IteratorTypeOK ==
  /\ accepted \in 0..MaxDelivered
  /\ buffer \in Seq(1..MaxDelivered)
  /\ Len(buffer) <= MaxBuffered
  /\ resolvers \in Seq(1..MaxDelivered + 1)
  /\ calls \in 0..MaxDelivered + 1
  /\ call \in 0..MaxDelivered + 1
  /\ result \in Results
  /\ terminal \in Kinds
  /\ {aborted, listening, unsub} \subseteq BOOLEAN
  /\ ended \in {"no", "thrown", "done"}
  /\ sub \in {"pending", "active", "failed"}
  /\ received \in Seq(1..MaxDelivered)
  /\ overflowed \subseteq 1..MaxDelivered
  /\ atEnd \in 0..MaxDelivered

IteratorInit ==
  /\ accepted = 0 /\ buffer = <<>> /\ resolvers = <<>>
  /\ call = NoCall /\ calls = 0 /\ result = <<>>
  /\ terminal = "none" /\ aborted = FALSE /\ listening = TRUE
  /\ sub = "pending" /\ unsub = FALSE
  /\ ended = "no" /\ received = <<>>
  /\ overflowed = {} /\ atEnd = 0

-----------------------------------------------------------------------------
\* Settling a promise that is settled already changes nothing.
SettleCall(c, r) == result' = IF c = call /\ result = <<>> THEN r ELSE result

\* push, then shift if the buffer exceeds its limit.
Buffered(x) ==
  LET b == Append(buffer, x) IN IF Len(b) > MaxBuffered THEN Tail(b) ELSE b

Ignored == aborted

\* The listener is called with an event that it accepts: the longest waiting
\* call of next gets it, else it is buffered.
Deliver ==
  /\ sub \in {"pending", "active"} /\ ~unsub /\ ~Ignored
  /\ accepted < MaxDelivered
  /\ accepted' = accepted + 1
  /\ IF resolvers # <<>>
     THEN /\ SettleCall(Head(resolvers), <<"value", accepted + 1>>)
          /\ resolvers' = Tail(resolvers)
          /\ UNCHANGED <<buffer, overflowed>>
     ELSE /\ buffer' = Buffered(accepted + 1)
          /\ overflowed' = overflowed \cup (Range(Append(buffer, accepted + 1)) \ Range(buffer'))
          /\ UNCHANGED <<resolvers, result>>
  /\ UNCHANGED <<call, calls, terminal, aborted, listening, sub, unsub, ended, received, atEnd>>

\* Mutant of Answer: terminate settles nobody.
AnswerNobody(kind) == UNCHANGED result

\* terminate rejects or resolves every waiting call of next.
Answer(kind) ==
  IF \E i \in 1..Len(resolvers) : resolvers[i] = call
  THEN SettleCall(call, IF kind = "error" THEN <<"error">> ELSE <<"done">>)
  ELSE UNCHANGED result

Clears == aborted

\* terminate(state): only the first call has an effect.  With an aborted signal
\* it also drops the waiting calls and the buffer.
Terminate(kind) ==
  IF terminal # "none"
  THEN UNCHANGED <<terminal, listening, result, resolvers, buffer, atEnd>>
  ELSE /\ terminal' = IF kind = "error" /\ aborted THEN "abort" ELSE kind
       /\ listening' = FALSE
       /\ Answer(kind)
       /\ resolvers' = IF Clears THEN <<>> ELSE resolvers
       /\ buffer' = IF Clears THEN <<>> ELSE buffer
       /\ atEnd' = accepted

\* The signal aborts.  Other listeners of the signal may run before the one of
\* this subscription does.
Abort ==
  /\ ~aborted
  /\ aborted' = TRUE
  /\ UNCHANGED <<accepted, buffer, resolvers, call, calls, result, terminal, listening, sub, unsub,
                 ended, iteratorHistory>>

AbortListener ==
  /\ aborted /\ listening
  /\ Terminate("error")
  /\ UNCHANGED <<accepted, call, calls, aborted, sub, unsub, ended, received, overflowed>>

\* The adapter calls onError.
AdapterError ==
  /\ sub \in {"pending", "active"} /\ ~unsub
  /\ terminal = "none"
  /\ Terminate("error")
  /\ UNCHANGED <<accepted, call, calls, aborted, sub, unsub, ended, received, overflowed>>

SubscribeResolves ==
  /\ sub = "pending"
  /\ sub' = "active"
  /\ UNCHANGED <<accepted, buffer, resolvers, call, calls, result, terminal, aborted, listening,
                 unsub, ended, iteratorHistory>>

SubscribeRejects ==
  /\ sub = "pending"
  /\ sub' = "failed"
  /\ Terminate("error")
  /\ UNCHANGED <<accepted, call, calls, aborted, unsub, ended, received, overflowed>>

\* Mutant of MustUnsubscribe: only return() unsubscribes.
MustUnsubscribeOnReturn == terminal = "cancelled" /\ sub = "active" /\ ~unsub

\* The end of terminate: once subscribeListener has resolved, unsubscribe.
MustUnsubscribe == terminal # "none" /\ sub = "active" /\ ~unsub

Unlisten ==
  /\ MustUnsubscribe
  /\ unsub' = TRUE
  /\ UNCHANGED <<accepted, buffer, resolvers, call, calls, result, terminal, aborted, listening,
                 sub, ended, iteratorHistory>>

-----------------------------------------------------------------------------
\* next() is called, by a consumer that has no other call running.
CanCall == call = NoCall /\ ended = "no"

\* next() finds a buffered event.
NextBuffered ==
  /\ CanCall /\ terminal # "cancelled"
  /\ buffer # <<>>
  /\ buffer' = Tail(buffer)
  /\ received' = Append(received, Head(buffer))
  /\ UNCHANGED <<accepted, resolvers, call, calls, result, terminal, aborted, listening, sub, unsub,
                 ended, overflowed, atEnd>>

\* Mutant of Drained: a terminal error is thrown before the buffer is drained.
DrainedNot == TRUE

Drained == buffer = <<>>

\* next() finds the terminal error, with nothing buffered.
NextThrows ==
  /\ CanCall
  /\ terminal \in {"error", "abort"} /\ Drained
  /\ ended' = "thrown"
  /\ UNCHANGED <<accepted, buffer, resolvers, call, calls, result, terminal, aborted, listening,
                 sub, unsub, iteratorHistory>>

\* next() has to wait.
NextWaits ==
  /\ CanCall
  /\ buffer = <<>> /\ terminal = "none"
  /\ calls <= MaxDelivered
  /\ calls' = calls + 1
  /\ call' = calls + 1
  /\ result' = <<>>
  /\ resolvers' = Append(resolvers, calls + 1)
  /\ UNCHANGED <<accepted, buffer, terminal, aborted, listening, sub, unsub, ended, iteratorHistory>>

\* The promise of a waiting next is settled: a value is returned, anything else
\* ends the iterator (its cleanup finds a terminal state already).
CallSettles ==
  /\ call # NoCall /\ result # <<>>
  /\ received' = IF result[1] = "value" THEN Append(received, result[2]) ELSE received
  /\ ended' = IF result[1] = "value" \/ ended # "no" THEN ended
              ELSE IF result[1] = "error" THEN "thrown" ELSE "done"
  /\ call' = NoCall
  /\ result' = <<>>
  /\ UNCHANGED <<accepted, buffer, resolvers, calls, terminal, aborted, listening, sub, unsub,
                 overflowed, atEnd>>

\* return(): the iterator ends and its cleanup terminates.
Return ==
  /\ ended = "no"
  /\ ended' = "done"
  /\ Terminate("cancelled")
  /\ UNCHANGED <<accepted, call, calls, aborted, sub, unsub, received, overflowed>>

IteratorNext ==
  \/ Deliver \/ Abort \/ AbortListener \/ AdapterError
  \/ SubscribeResolves \/ SubscribeRejects \/ Unlisten
  \/ NextBuffered \/ NextThrows \/ NextWaits \/ CallSettles \/ Return

\* The listeners of an aborted signal run, promises that are settled resume
\* their awaiters, and an adapter settles the promise of subscribeListener.
\* Nothing makes events arrive or consumers call.
IteratorFairness ==
  /\ WF_iteratorVars(AbortListener)
  /\ WF_iteratorVars(SubscribeResolves \/ SubscribeRejects)
  /\ WF_iteratorVars(Unlisten)
  /\ WF_iteratorVars(CallSettles)

IteratorSpec == IteratorInit /\ [][IteratorNext]_iteratorVars /\ IteratorFairness

-----------------------------------------------------------------------------
(* What a subscription promises.                                           *)

\* The events returned are in the order they were delivered, none twice, and
\* what is buffered is newer and is the newest there is: when the buffer
\* overflows it is the oldest event that goes (subscribe, maxBufferedEvents).
\* After an abort nothing is buffered, although the adapter may call the
\* listener until it is unsubscribed: next throws the reason of the abort.
NewestAreKept ==
  /\ \A i \in 1..Len(received) - 1 : received[i] < received[i + 1]
  /\ \A i \in 1..Len(buffer) : buffer[i] = accepted - Len(buffer) + i
  /\ received # <<>> /\ buffer # <<>> => received[Len(received)] < buffer[1]
  /\ terminal = "abort" => buffer = <<>>

InFlight == IF call # NoCall /\ result # <<>> /\ result[1] = "value" THEN {result[2]} ELSE {}

\* Unless the consumer gives up by return or by an abort, it gets every event
\* delivered before the end that a full buffer has not lost: an error of the
\* adapter is thrown only after what came before it, and a consumer to whom it
\* was thrown has missed nothing (subscribe, next).
OnlyOverflowLoses ==
  ended # "done" /\ terminal # "abort" =>
    1..(IF terminal = "none" THEN accepted ELSE atEnd)
      \subseteq Range(received) \cup overflowed \cup InFlight
                \cup (IF ended = "thrown" THEN {} ELSE Range(buffer))

\* Nobody waits for an event beside a buffered one, or after the end: the call
\* of next that is pending when the subscription ends is settled by it.
NobodyWaitsInVain ==
  call # NoCall /\ result = <<>> => terminal = "none" /\ buffer = <<>>

\* The consumer of a subscription is served: what it gets, and what is kept for
\* it, is the newest in order, nothing else is lost than to a full buffer, and it
\* does not wait for what is there.
ConsumerIsServed == NewestAreKept /\ OnlyOverflowLoses /\ NobodyWaitsInVain

\* A signal that aborts ends the subscription, unless it has ended before, and
\* the listener of a subscription that has ended, in whatever way and however
\* early, does not stay registered with the adapter.
EndedIsUnsubscribed ==
  (aborted \/ terminal # "none") ~> (terminal # "none" /\ (unsub \/ sub = "failed"))
=============================================================================
