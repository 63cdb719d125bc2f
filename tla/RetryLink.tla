------------------------------- MODULE RetryLink -------------------------------
(***************************************************************************)
(* RetryLinkPlugin of packages/client/src/plugins/retry.ts: one call that   *)
(* is retried when it fails, and, when its result is a stream of events,    *)
(* goes on being retried whenever the stream fails, for the whole life of   *)
(* the iterator that the caller got.                                        *)
(*                                                                         *)
(* The server is external: it resumes a call after its lastEventId, and     *)
(* every event carries an id, 1, 2, ....  The n-th call of the wrapped link *)
(* may open the stream n.  AsyncIteratorClass is external: the caller's     *)
(* next calls run one after another, its return may run beside one, and     *)
(* the first of them to end the iteration runs the cleanup.                 *)
(***************************************************************************)
EXTENDS Integers, Sequences

CONSTANTS MaxAttempts,  \* retry: how often a call is retried
          MaxEvents     \* bound: events of the server

ASSUME RetryAssumption == MaxAttempts \in Nat \ {0} /\ MaxEvents \in Nat \ {0}

NoStream == 0

\* One more than there should ever be.
Tries == 1..(MaxAttempts + 2)

VARIABLES
  asked,              \* lastEventId of the call options
  lastEventId,        \* the variable of that name
  retryAttempt,       \* the variable attempt
  loop,               \* callNext: "deciding" about an error, "sleeping", "calling", or "idle"
  callback,           \* callback is set: what onRetry returned has not been called
  tries,              \* history: calls of the wrapped link
  stream,             \* the stream each of them opened: "none", "open" or "closed"
  position,           \* the last event the server sent on the newest one
  currentStream,      \* the stream that current stands for
  iterator,           \* what the caller has: "none", "value", "error", or an iterator, "live" or "done"
  reading,            \* next of the caller's iterator is pending
  isIteratorAborted,  \* the variable of that name
  aborted,            \* the signal of the call
  seen                \* history: events the caller got

retryVars == <<asked, lastEventId, retryAttempt, loop, callback, tries, stream, position,
               currentStream, iterator, reading, isIteratorAborted, aborted, seen>>

RetryTypeOK ==
  /\ asked \in 0..MaxEvents /\ lastEventId \in 0..MaxEvents /\ position \in 0..MaxEvents
  /\ retryAttempt \in Tries
  /\ loop \in {"calling", "deciding", "sleeping", "idle"}
  /\ tries \in Tries /\ currentStream \in {NoStream} \cup Tries
  /\ stream \in [Tries -> {"none", "open", "closed"}]
  /\ iterator \in {"none", "value", "error", "live", "done"}
  /\ callback \in BOOLEAN /\ reading \in BOOLEAN
  /\ isIteratorAborted \in BOOLEAN /\ aborted \in BOOLEAN
  /\ seen \in Seq(1..MaxEvents)

\* The call of callNext without an error: the wrapped link is called at once.
RetryInit ==
  /\ asked \in 0..1 /\ lastEventId = asked /\ position = asked
  /\ retryAttempt = 1 /\ tries = 1
  /\ loop = "calling" /\ callback = FALSE
  /\ stream = [n \in Tries |-> "none"] /\ currentStream = NoStream
  /\ iterator = "none" /\ reading = FALSE
  /\ isIteratorAborted = FALSE /\ aborted = FALSE
  /\ seen = <<>>

-----------------------------------------------------------------------------
\* An error leaves callNext: the call rejects, or next throws it, which ends the
\* iterator and runs its cleanup.
Throw ==
  /\ loop' = "idle"
  /\ iterator' = IF iterator = "none" THEN "error" ELSE "done"
  /\ reading' = FALSE
  /\ isIteratorAborted' = (iterator # "none")

\* The error is in hand: it is thrown when there have been too many attempts or
\* shouldRetry says so, otherwise onRetry is told and the delay begins.
GiveUp ==
  /\ loop = "deciding"
  /\ Throw
  /\ UNCHANGED <<asked, lastEventId, retryAttempt, callback, tries, stream, position, currentStream, aborted, seen>>

\* Mutant of MayRetry: the attempts of the iterator are not counted.
MayRetryStream == iterator = "live" \/ retryAttempt <= MaxAttempts

MayRetry == retryAttempt <= MaxAttempts

Delay ==
  /\ loop = "deciding" /\ MayRetry
  /\ loop' = "sleeping" /\ callback' = TRUE
  /\ UNCHANGED <<asked, lastEventId, retryAttempt, tries, stream, position, currentStream, iterator, reading,
                 isIteratorAborted, aborted, seen>>

\* The sleep ends by an exception, as the signal is aborted, or retryDelay throws:
\* its error is what the next attempt is about, but none is counted.  An aborted
\* call throws the error.
DelayFails ==
  /\ loop = "sleeping"
  /\ callback' = FALSE
  /\ IF aborted THEN Throw ELSE loop' = "deciding" /\ UNCHANGED <<iterator, reading, isIteratorAborted>>
  /\ UNCHANGED <<asked, lastEventId, retryAttempt, tries, stream, position, currentStream, aborted, seen>>

\* Mutant of ResumeFrom: the call options are passed on as they came.
ResumeFromAsked == asked

\* { ...callOptions, lastEventId }
ResumeFrom == lastEventId

\* The sleep is over: the wrapped link is called again.
CallAgain ==
  /\ loop = "sleeping" /\ ~aborted
  /\ tries + 1 \in Tries
  /\ retryAttempt' = retryAttempt + 1 /\ tries' = tries + 1
  /\ position' = ResumeFrom
  /\ loop' = "calling"
  /\ UNCHANGED <<asked, lastEventId, callback, stream, currentStream, iterator, reading, isIteratorAborted,
                 aborted, seen>>

\* The wrapped link fails.
CallFails ==
  /\ loop = "calling"
  /\ callback' = FALSE
  /\ IF aborted THEN Throw ELSE loop' = "deciding" /\ UNCHANGED <<iterator, reading, isIteratorAborted>>
  /\ UNCHANGED <<asked, lastEventId, retryAttempt, tries, stream, position, currentStream, aborted, seen>>

\* It returns something that is no stream: the result of the call, but an error
\* for an iterator that reconnects.
CallReturnsValue ==
  /\ loop = "calling"
  /\ callback' = FALSE
  /\ IF iterator = "none"
     THEN loop' = "idle" /\ iterator' = "value" /\ UNCHANGED <<reading, isIteratorAborted>>
     ELSE Throw
  /\ UNCHANGED <<asked, lastEventId, retryAttempt, tries, stream, position, currentStream, aborted, seen>>

\* Mutant of IsAbandoned: the iterator is not looked at after a reconnect.
IsAbandonedNever == FALSE

IsAbandoned == isIteratorAborted

\* It returns a stream: the caller's iterator begins, or goes on reading.  An
\* iterator that ended meanwhile returns the stream at once, and its next throws.
CallReturnsStream ==
  /\ loop = "calling"
  /\ loop' = "idle" /\ callback' = FALSE
  /\ currentStream' = tries
  /\ stream' = [stream EXCEPT ![tries] = IF IsAbandoned THEN "closed" ELSE "open"]
  /\ iterator' = IF iterator = "none" THEN "live" ELSE iterator
  /\ reading' = (reading /\ ~IsAbandoned)
  /\ UNCHANGED <<asked, lastEventId, retryAttempt, tries, position, isIteratorAborted, aborted, seen>>

-----------------------------------------------------------------------------
\* next() of the caller's iterator: current.next().
NextCalled ==
  /\ iterator = "live" /\ ~reading
  /\ reading' = TRUE
  /\ UNCHANGED <<asked, lastEventId, retryAttempt, loop, callback, tries, stream, position, currentStream,
                 iterator, isIteratorAborted, aborted, seen>>

Awaited == reading /\ loop = "idle" /\ stream[currentStream] = "open"

\* The stream brings an event.
Event ==
  /\ Awaited /\ position < MaxEvents
  /\ position' = position + 1
  /\ lastEventId' = position + 1
  /\ seen' = Append(seen, position + 1)
  /\ reading' = FALSE
  /\ UNCHANGED <<asked, retryAttempt, loop, callback, tries, stream, currentStream, iterator, isIteratorAborted, aborted>>

\* The stream ends: so does the iterator.
Ends ==
  /\ Awaited
  /\ stream' = [stream EXCEPT ![currentStream] = "closed"]
  /\ reading' = FALSE /\ iterator' = "done" /\ isIteratorAborted' = TRUE
  /\ UNCHANGED <<asked, lastEventId, retryAttempt, loop, callback, tries, position, currentStream, aborted, seen>>

\* The stream fails: callNext starts again, with the error.
Fails ==
  /\ Awaited
  /\ stream' = [stream EXCEPT ![currentStream] = "closed"]
  /\ loop' = "deciding"
  /\ UNCHANGED <<asked, lastEventId, retryAttempt, callback, tries, position, currentStream, iterator, reading,
                 isIteratorAborted, aborted, seen>>

\* What a mutated cleanup would do: return nothing.
ReturnedNothing == stream

\* await current.return?.(): nothing when the stream has ended already.
Returned == IF stream[currentStream] = "open" THEN [stream EXCEPT ![currentStream] = "closed"] ELSE stream

\* return() of the caller's iterator, while it reads, while it reconnects, or
\* between two events: the cleanup of kind "cancelled".
Return ==
  /\ iterator = "live"
  /\ iterator' = "done" /\ isIteratorAborted' = TRUE
  /\ stream' = Returned
  /\ UNCHANGED <<asked, lastEventId, retryAttempt, loop, callback, tries, position, currentStream, reading, aborted, seen>>

\* The next of a stream that was returned: done, or, if the stream prefers, an
\* error, for which callNext starts again.
ReturnedNext ==
  /\ reading /\ loop = "idle" /\ stream[currentStream] = "closed"
  /\ \/ reading' = FALSE /\ UNCHANGED loop
     \/ loop' = "deciding" /\ UNCHANGED reading
  /\ UNCHANGED <<asked, lastEventId, retryAttempt, callback, tries, stream, position, currentStream, iterator,
                 isIteratorAborted, aborted, seen>>

\* The signal of the call is aborted.
Abort ==
  /\ ~aborted /\ aborted' = TRUE
  /\ UNCHANGED <<asked, lastEventId, retryAttempt, loop, callback, tries, stream, position, currentStream,
                 iterator, reading, isIteratorAborted, seen>>

Continue ==
  \/ GiveUp \/ Delay \/ DelayFails \/ CallAgain
  \/ CallFails \/ CallReturnsValue \/ CallReturnsStream
  \/ ReturnedNext

RetryNext == Continue \/ NextCalled \/ Event \/ Ends \/ Fails \/ Return \/ Abort

\* Timers fire, calls of the link settle, and an aborted stream fails.  A
\* retryDelay that throws always would be asked for ever: it must let the link be
\* called now and then.
RetryFairness ==
  /\ WF_retryVars(Continue) /\ WF_retryVars(aborted /\ Fails)
  /\ SF_retryVars(CallAgain)

RetrySpec == RetryInit /\ [][RetryNext]_retryVars /\ RetryFairness

-----------------------------------------------------------------------------
(* What the plugin promises.                                               *)

\* However often the stream fails, the caller sees the events after the
\* lastEventId of its call in order, each of them once (lastEventId).
NothingLostOrRepeated == \A i \in 1..Len(seen) : seen[i] = asked + i

\* At most one stream is open, the one that the caller's iterator reads; none
\* is left behind by a reconnect, nor by a return that comes while a reconnect
\* is under way (isIteratorAborted).
NoStreamIsLeaked ==
  \A n \in Tries : stream[n] = "open" => n = currentStream /\ iterator = "live"

\* Over the whole life of the call and of its iterator there are no more than
\* MaxAttempts retries, and none after the signal was aborted (retry).
RetriesAreBounded ==
  [][tries' # tries => ~aborted /\ tries' <= MaxAttempts + 1]_retryVars

\* A caller that gives up is soon rid of the call: after a return no next is
\* pending and no retry, callback or stream is left, also when the return came in
\* the middle of a reconnect; after an abort, a pending next settles
\* (the cleanup; the check of the signal).
GivingUpEnds ==
  /\ (iterator = "done") ~>
       (loop = "idle" /\ ~reading /\ ~callback /\ \A n \in Tries : stream[n] # "open")
  /\ (aborted /\ reading) ~> ~reading
=============================================================================
