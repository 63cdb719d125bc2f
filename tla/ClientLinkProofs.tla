---------------------------- MODULE ClientLinkProofs ----------------------------
(***************************************************************************)
(* The plugins of a link that hold calls back.  For any number of attempts  *)
(* and events: a call is never made more often than its retries allow, no    *)
(* stream is left behind, and the events that the caller sees have no gap    *)
(* and no repetition.  For any number of callers and requests, and whatever  *)
(* sizes a batch may have: callers that share a request, or are members of a *)
(* batch, stay apart.                                                        *)
(***************************************************************************)
EXTENDS ClientLink, SequenceTheorems, FiniteSetTheorems, WellFoundedInduction, TLAPS

-----------------------------------------------------------------------------
(* Retries *)

\* Every call of the wrapped link is one attempt, and a delay begins only while
\* there are attempts left.
Counted ==
  /\ retryAttempt = tries /\ tries <= MaxAttempts + 1
  /\ loop = "sleeping" => retryAttempt <= MaxAttempts

\* The server and the caller agree on the last event.
Resumed ==
  /\ lastEventId = position
  /\ position = asked + Len(seen)

\* How the loop of callNext and what the caller has go together.
Phases ==
  /\ isIteratorAborted <=> iterator = "done"
  /\ iterator = "none" => loop # "idle"
  /\ iterator \in {"value", "error"} => loop = "idle"
  /\ iterator \in {"live", "done"} => currentStream \in Tries
  /\ reading => iterator \in {"live", "done"}

\* While a call is made or retried no stream is open.
NothingOpen == loop # "idle" => \A n \in Tries : stream[n] # "open"

RetryInv ==
  /\ RetryTypeOK /\ Counted /\ Resumed /\ NothingLostOrRepeated
  /\ Phases /\ NothingOpen /\ NoStreamIsLeaked

LEMMA InitRetryInv == RetryInit => RetryInv
<1> SUFFICES ASSUME RetryInit PROVE RetryInv
  OBVIOUS
<1> USE RetryAssumption DEF RetryInit
<1>1. seen \in Seq(1..MaxEvents) /\ Len(seen) = 0
  OBVIOUS
<1>2. RetryTypeOK
  <2>1. asked \in 0..MaxEvents /\ lastEventId \in 0..MaxEvents /\ position \in 0..MaxEvents
    OBVIOUS
  <2>2. retryAttempt \in Tries /\ tries \in Tries /\ currentStream \in {NoStream} \cup Tries
    BY DEF Tries
  <2> QED
    BY <1>1, <2>1, <2>2 DEF RetryTypeOK
<1>3. Counted /\ Resumed /\ NothingLostOrRepeated
  BY <1>1 DEF Counted, Resumed, NothingLostOrRepeated
<1>4. Phases /\ NothingOpen /\ NoStreamIsLeaked
  BY DEF Phases, NothingOpen, NoStreamIsLeaked
<1> QED
  BY <1>2, <1>3, <1>4 DEF RetryInv

LEMMA TypeStep == RetryInv /\ [RetryNext]_retryVars => RetryTypeOK'
<1> SUFFICES ASSUME RetryInv, [RetryNext]_retryVars PROVE RetryTypeOK'
  OBVIOUS
<1> USE RetryAssumption DEF RetryInv, RetryTypeOK, Tries, NoStream
<1>1. CASE GiveUp
  BY <1>1 DEF GiveUp, Throw
<1>2. CASE Delay
  BY <1>2 DEF Delay
<1>3. CASE DelayFails
  BY <1>3 DEF DelayFails, Throw
<1>4. CASE CallAgain
  BY <1>4 DEF CallAgain, ResumeFrom, Counted
<1>5. CASE CallFails
  BY <1>5 DEF CallFails, Throw
<1>6. CASE CallReturnsValue
  BY <1>6 DEF CallReturnsValue, Throw
<1>7. CASE CallReturnsStream
  BY <1>7 DEF CallReturnsStream
<1>8. CASE ReturnedNext
  BY <1>8 DEF ReturnedNext
<1>9. CASE NextCalled
  BY <1>9 DEF NextCalled
<1>10. CASE Event
  <2>1. position + 1 \in 1..MaxEvents
    BY <1>10 DEF Event
  <2>2. Append(seen, position + 1) \in Seq(1..MaxEvents)
    BY <2>1
  <2>3. seen' = Append(seen, position + 1)
    BY <1>10 DEF Event
  <2>4. seen' \in Seq(1..MaxEvents)
    BY <2>2, <2>3, Zenon
  <2>5. asked' = asked /\ position' = position + 1 /\ lastEventId' = position + 1
    BY <1>10 DEF Event
  <2>6. asked' \in 0..MaxEvents /\ lastEventId' \in 0..MaxEvents /\ position' \in 0..MaxEvents
    BY <2>1, <2>5
  <2>7. /\ retryAttempt' \in Tries /\ loop' \in {"calling", "deciding", "sleeping", "idle"}
        /\ tries' \in Tries /\ currentStream' \in {NoStream} \cup Tries
        /\ stream' \in [Tries -> {"none", "open", "closed"}]
        /\ iterator' \in {"none", "value", "error", "live", "done"}
        /\ callback' \in BOOLEAN /\ reading' \in BOOLEAN /\ isIteratorAborted' \in BOOLEAN /\ aborted' \in BOOLEAN
    BY <1>10 DEF Event
  <2> HIDE DEF Tries, NoStream, RetryInv
  <2> QED
    BY <2>4, <2>6, <2>7, Zenon DEF RetryTypeOK
<1>11. CASE Ends
  BY <1>11 DEF Ends
<1>12. CASE Fails
  BY <1>12 DEF Fails
<1>13. CASE Return
  BY <1>13 DEF Return, Returned
<1>14. CASE Abort
  BY <1>14 DEF Abort
<1>15. CASE UNCHANGED retryVars
  BY <1>15 DEF retryVars
<1> QED
  BY <1>1, <1>2, <1>3, <1>4, <1>5, <1>6, <1>7, <1>8, <1>9, <1>10, <1>11, <1>12, <1>13, <1>14, <1>15
     DEF RetryNext, Continue

LEMMA CountedStep == RetryInv /\ [RetryNext]_retryVars => Counted'
<1> SUFFICES ASSUME RetryInv, [RetryNext]_retryVars PROVE Counted'
  OBVIOUS
<1> USE RetryAssumption DEF RetryInv, RetryTypeOK, Counted, Tries
<1>1. CASE Delay
  BY <1>1 DEF Delay, MayRetry
<1>2. CASE CallAgain
  BY <1>2 DEF CallAgain
<1>3. CASE GiveUp \/ DelayFails \/ CallFails \/ CallReturnsValue
  BY <1>3 DEF GiveUp, DelayFails, CallFails, CallReturnsValue, Throw
<1>4. CASE CallReturnsStream \/ ReturnedNext \/ NextCalled \/ Event \/ Ends \/ Fails
  BY <1>4 DEF CallReturnsStream, ReturnedNext, NextCalled, Event, Ends, Fails
<1>5. CASE Return \/ Abort \/ UNCHANGED retryVars
  BY <1>5 DEF Return, Abort, retryVars
<1> QED
  BY <1>1, <1>2, <1>3, <1>4, <1>5 DEF RetryNext, Continue

LEMMA EventsStep ==
  RetryInv /\ [RetryNext]_retryVars => Resumed' /\ NothingLostOrRepeated'
<1> SUFFICES ASSUME RetryInv, [RetryNext]_retryVars PROVE Resumed' /\ NothingLostOrRepeated'
  OBVIOUS
<1> USE RetryAssumption DEF RetryInv, Resumed, NothingLostOrRepeated
<1>1. CASE Event
  <2>1. position \in Nat /\ asked \in Nat /\ seen \in Seq(1..MaxEvents)
    BY DEF RetryTypeOK
  <2>2. /\ position' = position + 1 /\ lastEventId' = position + 1 /\ asked' = asked
        /\ seen' = Append(seen, position + 1)
    BY <1>1 DEF Event
  <2>3. Len(seen') = Len(seen) + 1
    BY <2>1, <2>2
  <2>4. ASSUME NEW i \in 1..Len(seen') PROVE seen'[i] = asked + i
    <3>1. CASE i \in 1..Len(seen)
      BY <2>1, <2>2, <3>1
    <3>2. CASE i = Len(seen) + 1
      BY <2>1, <2>2, <3>2
    <3> QED
      BY <2>1, <2>3, <3>1, <3>2
  <2> QED
    BY <2>1, <2>2, <2>3, <2>4
<1>2. CASE CallAgain
  BY <1>2 DEF CallAgain, ResumeFrom
<1>3. CASE GiveUp \/ Delay \/ DelayFails \/ CallFails \/ CallReturnsValue
  BY <1>3 DEF GiveUp, Delay, DelayFails, CallFails, CallReturnsValue
<1>4. CASE CallReturnsStream \/ ReturnedNext \/ NextCalled \/ Ends \/ Fails
  BY <1>4 DEF CallReturnsStream, ReturnedNext, NextCalled, Ends, Fails
<1>5. CASE Return \/ Abort \/ UNCHANGED retryVars
  BY <1>5 DEF Return, Abort, retryVars
<1> QED
  BY <1>1, <1>2, <1>3, <1>4, <1>5 DEF RetryNext, Continue

LEMMA StreamsStep ==
  RetryInv /\ [RetryNext]_retryVars => Phases' /\ NothingOpen' /\ NoStreamIsLeaked'
<1> SUFFICES ASSUME RetryInv, [RetryNext]_retryVars
             PROVE  Phases' /\ NothingOpen' /\ NoStreamIsLeaked'
  OBVIOUS
<1> USE DEF RetryInv, RetryTypeOK, Phases, NothingOpen, NoStreamIsLeaked
<1>1. CASE GiveUp
  BY <1>1 DEF GiveUp, Throw
<1>2. CASE Delay \/ CallAgain
  BY <1>2 DEF Delay, CallAgain
<1>3. CASE DelayFails
  BY <1>3 DEF DelayFails, Throw
<1>4. CASE CallFails
  BY <1>4 DEF CallFails, Throw
<1>5. CASE CallReturnsValue
  BY <1>5 DEF CallReturnsValue, Throw
<1>6. CASE CallReturnsStream
  BY <1>6 DEF CallReturnsStream, IsAbandoned
<1>7. CASE ReturnedNext
  BY <1>7 DEF ReturnedNext
<1>8. CASE NextCalled \/ Event \/ Abort
  BY <1>8 DEF NextCalled, Event, Abort
<1>9. CASE Ends
  BY <1>9 DEF Ends, Awaited
<1>10. CASE Fails
  BY <1>10 DEF Fails, Awaited
<1>11. CASE Return
  BY <1>11 DEF Return, Returned
<1>12. CASE UNCHANGED retryVars
  BY <1>12 DEF retryVars
<1> QED
  BY <1>1, <1>2, <1>3, <1>4, <1>5, <1>6, <1>7, <1>8, <1>9, <1>10, <1>11, <1>12 DEF RetryNext, Continue

\* The inductive invariant of RetryLinkPlugin, its type invariant included.
THEOREM RetryInvariant == RetrySpec => []RetryInv
<1>1. RetryInv /\ [RetryNext]_retryVars => RetryInv'
  <2> SUFFICES ASSUME RetryInv, [RetryNext]_retryVars PROVE RetryInv'
    OBVIOUS
  <2>1. RetryTypeOK' /\ Counted'
    BY TypeStep, CountedStep
  <2>2. Resumed' /\ NothingLostOrRepeated'
    BY EventsStep
  <2>3. Phases' /\ NothingOpen' /\ NoStreamIsLeaked'
    BY StreamsStep
  <2> QED
    BY <2>1, <2>2, <2>3 DEF RetryInv
<1> QED
  BY <1>1, InitRetryInv, PTL DEF RetrySpec

\* The caller sees the events after the lastEventId of its call, each of them
\* once and in order, however often the stream is opened again.
THEOREM StreamsResume == RetrySpec => []NothingLostOrRepeated
<1>1. RetryInv => NothingLostOrRepeated
  BY DEF RetryInv
<1> QED
  BY <1>1, RetryInvariant, PTL

\* No stream is open but the one that the caller's live iterator reads.
THEOREM NoLeaks == RetrySpec => []NoStreamIsLeaked
<1>1. RetryInv => NoStreamIsLeaked
  BY DEF RetryInv
<1> QED
  BY <1>1, RetryInvariant, PTL

\* The call and all reconnects of its iterator together make at most
\* MaxAttempts + 1 calls of the wrapped link, and none once the signal is aborted.
THEOREM Bounded == RetrySpec => RetriesAreBounded
<1>1. RetryInv /\ [RetryNext]_retryVars
        => [tries' # tries => ~aborted /\ tries' <= MaxAttempts + 1]_retryVars
  <2> SUFFICES ASSUME RetryInv, RetryNext, tries' # tries
               PROVE  ~aborted /\ tries' <= MaxAttempts + 1
    BY DEF retryVars
  <2>1. CallAgain
    BY DEF RetryNext, Continue, GiveUp, Delay, DelayFails, CallFails, CallReturnsValue, CallReturnsStream,
           ReturnedNext, NextCalled, Event, Ends, Fails, Return, Abort
  <2> QED
    BY <2>1, RetryAssumption DEF CallAgain, RetryInv, RetryTypeOK, Counted, Tries
<1> QED
  BY <1>1, RetryInvariant, PTL DEF RetrySpec, RetriesAreBounded

-----------------------------------------------------------------------------
(* Sequences and numbers *)

LEMMA ToSetFacts ==
  ASSUME NEW S, NEW s \in Seq(S)
  PROVE  /\ Len(s) \in Nat
         /\ \A i \in 1..Len(s) : s[i] \in ToSet(s) /\ s[i] \in S
         /\ \A x \in ToSet(s) : x \in S /\ \E i \in 1..Len(s) : s[i] = x
<1>1. DOMAIN s = 1..Len(s) /\ Len(s) \in Nat /\ \A i \in 1..Len(s) : s[i] \in S
  OBVIOUS
<1> QED BY <1>1 DEF ToSet

LEMMA ToSetOfAppend ==
  ASSUME NEW S, NEW s \in Seq(S), NEW x \in S
  PROVE  ToSet(Append(s, x)) = ToSet(s) \cup {x}
<1>1. /\ Len(s) \in Nat /\ DOMAIN s = 1..Len(s)
      /\ DOMAIN Append(s, x) = 1..(Len(s) + 1)
      /\ \A i \in 1..Len(s) : Append(s, x)[i] = s[i]
      /\ Append(s, x)[Len(s) + 1] = x
  BY AppendProperties
<1> QED BY <1>1 DEF ToSet

\* There are not more callers of a flight than places in its list.
LEMMA ToSetIsSmall ==
  ASSUME NEW S, NEW s \in Seq(S)
  PROVE  IsFiniteSet(ToSet(s)) /\ Cardinality(ToSet(s)) <= Len(s)
<1>1. Len(s) \in Nat /\ DOMAIN s = 1..Len(s)
  OBVIOUS
<1>2. IsFiniteSet(1..Len(s)) /\ Cardinality(1..Len(s)) = Len(s)
  <2>1. PICK n \in Nat : n = Len(s)
    BY <1>1
  <2>2. IsFiniteSet(1..n) /\ Cardinality(1..n) = n
    BY FS_Interval
  <2> QED BY <2>1, <2>2
<1>3. ToSet(s) = {s[i] : i \in 1..Len(s)}
  BY <1>1 DEF ToSet
<1> DEFINE f == [i \in 1..Len(s) |-> s[i]]
<1>4. f \in Surjection(1..Len(s), ToSet(s))
  BY <1>3 DEF Surjection
<1> QED BY <1>2, <1>4, FS_Surjection

\* A set of numbers has a least one: induction over numbers, as a fact about sets.
LEMMA LeastElement ==
  ASSUME NEW T \in SUBSET Nat, T # {}
  PROVE  \E k \in T : \A j \in T : k <= j
<1> DEFINE R == OpToRel(<, Nat)
<1>1. \A i, j \in Nat : i < j => <<i, j>> \in R
  BY DEF OpToRel
<1>2. IsWellFoundedOn(R, Nat)
  BY NatLessThanWellFounded
<1> HIDE DEF R
<1>3. PICK k \in T : \A j \in T : ~(<<j, k>> \in R)
  BY <1>2, WFMin
<1>4. ASSUME NEW j \in T PROVE k <= j
  <2>1. j \in Nat /\ k \in Nat /\ ~(j < k)
    BY <1>1, <1>3
  <2> QED BY <2>1
<1> QED BY <1>4

-----------------------------------------------------------------------------
(* Calls that share a request *)

Answers == {"none", "pending", "response", "error"}

DedupeTypes ==
  /\ key \in [Callers -> Nat] /\ signalled \subseteq Callers
  /\ queue \in Seq(Seq(Callers)) /\ timers \in Nat
  /\ flight \in [Flights -> Seq(Callers)]
  /\ link \in [Flights -> {"none", "flying", "value", "stream", "failed"}]
  /\ cut \subseteq Flights /\ gaveUp \subseteq signalled
  /\ promise \in [Callers -> Answers]
  /\ body \in [Callers -> Int] /\ stock \in [Flights -> Int]

\* Who is queued waits, in one item of the queue: the items have different keys.
QueuedOnce ==
  /\ \A i \in 1..Len(queue) :
       /\ queue[i] # <<>>
       /\ \A c \in ToSet(queue[i]) : promise[c] = "pending"
  /\ \A i, j \in 1..Len(queue) : i # j =>
       /\ key[queue[i][1]] # key[queue[j][1]]
       /\ ToSet(queue[i]) \cap ToSet(queue[j]) = {}

\* Who flies has left the queue, and flies once.
FliesOnce ==
  /\ \A f \in Flights : \A c \in ToSet(flight[f]) :
       promise[c] # "none" /\ \A i \in 1..Len(queue) : c \notin ToSet(queue[i])
  /\ \A f, g \in Flights : f # g => ToSet(flight[f]) \cap ToSet(flight[g]) = {}

\* Flights start in their order.
StartInOrder == \E n \in 0..Cardinality(Callers) : \A f \in Flights : flight[f] # <<>> <=> f <= n

\* How far a flight is, for its callers and its replicas.
FlightsProceed ==
  /\ \A f \in Flights :
       /\ flight[f] = <<>> => link[f] = "none" /\ f \notin cut
       /\ flight[f] # <<>> => (f \in cut <=> ToSet(flight[f]) \subseteq gaveUp)
       /\ link[f] \in {"none", "flying"} =>
            stock[f] = Unmade /\ \A c \in ToSet(flight[f]) : promise[c] = "pending"
  /\ \A c \in Callers : promise[c] \in {"none", "pending"} => body[c] = NoBody

\* The callers of a shared stream who have not read it yet.
Unread(f) == {c \in ToSet(flight[f]) : body[c] = NoBody}

\* A replica is left for each of them, and those that were taken are others.
ReplicasLast ==
  \A f \in Flights : link[f] = "stream" /\ Len(flight[f]) > 1 =>
    /\ InStock(f) \in Nat /\ Cardinality(Unread(f)) <= InStock(f)
    /\ \A c \in ToSet(flight[f]) : body[c] # NoBody =>
         body[c] > InStock(f) /\ \A d \in ToSet(flight[f]) \ {c} : body[d] # body[c]

DedupeInv ==
  DedupeTypes /\ QueuedOnce /\ FliesOnce /\ StartInOrder /\ FlightsProceed /\ ReplicasLast

LEMMA CallersAreFinite == IsFiniteSet(Callers) /\ Cardinality(Callers) \in Nat
BY DedupeAssumption, FS_CardinalityType

LEMMA DedupeStarts == DedupeInit => DedupeInv
<1> SUFFICES ASSUME DedupeInit PROVE DedupeInv
  OBVIOUS
<1>1. /\ key \in [Callers -> Nat] /\ signalled \subseteq Callers
      /\ queue = <<>> /\ timers = 0 /\ cut = {} /\ gaveUp = {}
      /\ flight = [f \in Flights |-> <<>>] /\ link = [f \in Flights |-> "none"]
      /\ promise = [c \in Callers |-> "none"] /\ body = [c \in Callers |-> NoBody]
      /\ stock = [f \in Flights |-> Unmade]
  BY DedupeAssumption DEF DedupeInit
<1>2. <<>> \in Seq(Seq(Callers)) /\ Len(<<>>) = 0 /\ <<>> \in Seq(Callers) /\ ToSet(<<>>) = {}
  BY DEF ToSet
<1>3. DedupeTypes
  BY <1>1, <1>2 DEF DedupeTypes, Answers, NoBody, Unmade
<1>4. QueuedOnce
  BY <1>1, <1>2 DEF QueuedOnce
<1>5. \A f \in Flights : flight[f] = <<>> /\ link[f] = "none" /\ stock[f] = Unmade
  BY <1>1
<1>6. FliesOnce
  BY <1>2, <1>5 DEF FliesOnce
<1>7. StartInOrder
  <2>1. \A f \in Flights : ~(f <= 0)
    BY DEF Flights
  <2>2. 0 \in 0..Cardinality(Callers)
    BY CallersAreFinite
  <2> QED BY <1>5, <2>1, <2>2 DEF StartInOrder
<1>8. FlightsProceed
  BY <1>1, <1>2, <1>5 DEF FlightsProceed
<1>9. ReplicasLast
  BY <1>5 DEF ReplicasLast
<1> QED BY <1>3, <1>4, <1>6, <1>7, <1>8, <1>9 DEF DedupeInv

\* A call joins the item with its key, or is a new item.
LEMMA EnqueueFacts ==
  ASSUME DedupeInv, NEW c \in Callers, Enqueue(c)
  PROVE  /\ queue' \in Seq(Seq(Callers)) /\ Len(queue) \in Nat
         /\ \E k \in 1..Len(queue') :
              /\ queue'[k] # <<>> /\ key[queue'[k][1]] = key[c]
              /\ \/ k \in 1..Len(queue) /\ ToSet(queue'[k]) = ToSet(queue[k]) \cup {c}
                 \/ ToSet(queue'[k]) = {c}
              /\ \A i \in 1..Len(queue') : i # k =>
                   i \in 1..Len(queue) /\ queue'[i] = queue[i] /\ key[queue[i][1]] # key[c]
<1> DEFINE n == Len(queue)
<1>1. /\ queue \in Seq(Seq(Callers)) /\ n \in Nat /\ key \in [Callers -> Nat]
      /\ \A i \in 1..n : queue[i] \in Seq(Callers) /\ queue[i] # <<>>
      /\ \A i, j \in 1..n : i # j => key[queue[i][1]] # key[queue[j][1]]
  <2>1. queue \in Seq(Seq(Callers)) /\ key \in [Callers -> Nat]
    BY DEF DedupeInv, DedupeTypes
  <2>2. /\ \A i \in 1..n : queue[i] # <<>>
        /\ \A i, j \in 1..n : i # j => key[queue[i][1]] # key[queue[j][1]]
    <3>1. QueuedOnce
      BY DEF DedupeInv
    <3> QED BY <3>1 DEF QueuedOnce
  <2>3. n \in Nat /\ \A i \in 1..n : queue[i] \in Seq(Callers)
    BY <2>1
  <2> HIDE DEF n
  <2> QED BY <2>1, <2>2, <2>3
<1>2. CASE Matched(c) = {}
  <2>1. \A i \in 1..n : key[queue[i][1]] # key[c]
    BY <1>2 DEF Matched
  <2>2. <<c>> \in Seq(Callers) /\ <<c>> # <<>> /\ <<c>>[1] = c /\ ToSet(<<c>>) = {c}
    BY DEF ToSet
  <2>3. queue' = Append(queue, <<c>>)
    BY <1>2 DEF Enqueue
  <2>4. /\ queue' \in Seq(Seq(Callers)) /\ Len(queue') = n + 1 /\ queue'[n + 1] = <<c>>
        /\ \A i \in 1..n : queue'[i] = queue[i]
    BY <1>1, <2>2, <2>3, AppendProperties
  <2>5. n + 1 \in 1..(n + 1) /\ \A i \in 1..(n + 1) : i # n + 1 => i \in 1..n
    BY <1>1
  <2> QED BY <1>1, <2>1, <2>2, <2>4, <2>5
<1>3. CASE Matched(c) # {}
  <2>1. PICK k \in 1..n : key[queue[k][1]] = key[c]
    BY <1>3 DEF Matched
  <2>2. \A i \in 1..n : i \in Matched(c) <=> i = k
    BY <1>1, <2>1 DEF Matched
  <2>3. queue' = [i \in 1..n |-> IF i = k THEN Append(queue[k], c) ELSE queue[i]]
    <3>1. queue' = [i \in 1..n |-> IF i \in Matched(c) THEN Append(queue[i], c) ELSE queue[i]]
      BY <1>3 DEF Enqueue
    <3> QED BY <2>2, <3>1
  <2> DEFINE a == Append(queue[k], c)
  <2>4. /\ a \in Seq(Callers) /\ Len(a) = Len(queue[k]) + 1 /\ Len(queue[k]) \in Nat \ {0}
        /\ a[1] = queue[k][1] /\ a # <<>> /\ ToSet(a) = ToSet(queue[k]) \cup {c}
    <3>1. queue[k] \in Seq(Callers) /\ queue[k] # <<>>
      BY <1>1
    <3>2. Len(queue[k]) \in Nat \ {0} /\ 1 \in 1..Len(queue[k])
      BY <3>1, EmptySeq
    <3>3. /\ a \in Seq(Callers) /\ Len(a) = Len(queue[k]) + 1 /\ a[1] = queue[k][1]
          /\ ToSet(a) = ToSet(queue[k]) \cup {c}
      BY <3>1, <3>2, AppendProperties, ToSetOfAppend
    <3>4. a # <<>>
      BY <3>2, <3>3
    <3> QED BY <3>2, <3>3, <3>4
  <2>5. queue' = [i \in 1..n |-> IF i = k THEN a ELSE queue[i]]
    BY <2>3
  <2> HIDE DEF a
  <2>6. /\ queue' \in Seq(Seq(Callers)) /\ Len(queue') = n /\ queue'[k] = a
        /\ \A i \in 1..n : i # k => queue'[i] = queue[i]
    <3>1. \A i \in 1..n : (IF i = k THEN a ELSE queue[i]) \in Seq(Callers)
      BY <1>1, <2>4
    <3> QED BY <1>1, <2>5, <3>1
  <2>7. key[a[1]] = key[c] /\ \A i \in 1..n : i # k => key[queue[i][1]] # key[c]
    BY <2>1, <2>2, <2>4 DEF Matched
  <2> QED BY <1>1, <2>4, <2>6, <2>7
<1> QED BY <1>2, <1>3

LEMMA EnqueueKeeps ==
  ASSUME DedupeInv, NEW c \in Callers, Enqueue(c)
  PROVE  DedupeInv'
<1>1. /\ promise[c] = "none" /\ promise' = [promise EXCEPT ![c] = "pending"] /\ timers' = timers + 1
      /\ UNCHANGED <<key, signalled, flight, link, cut, gaveUp, body, stock>>
  BY DEF Enqueue
<1>2. promise \in [Callers -> Answers] /\ flight \in [Flights -> Seq(Callers)] /\ Len(queue) \in Nat
  BY DEF DedupeInv, DedupeTypes
<1>3. promise'[c] = "pending" /\ \A d \in Callers : d # c => promise'[d] = promise[d]
  BY <1>1, <1>2
<1>4. PICK k \in 1..Len(queue') :
        /\ queue'[k] # <<>> /\ key[queue'[k][1]] = key[c]
        /\ \/ k \in 1..Len(queue) /\ ToSet(queue'[k]) = ToSet(queue[k]) \cup {c}
           \/ ToSet(queue'[k]) = {c}
        /\ \A i \in 1..Len(queue') : i # k =>
             i \in 1..Len(queue) /\ queue'[i] = queue[i] /\ key[queue[i][1]] # key[c]
  BY EnqueueFacts
<1>5. DedupeTypes'
  BY <1>1, <1>2, EnqueueFacts DEF DedupeInv, DedupeTypes, Answers
<1>6. \A i \in 1..Len(queue) : /\ queue[i] # <<>>
                               /\ \A d \in ToSet(queue[i]) : d \in Callers /\ d # c /\ promise[d] = "pending"
  <2>1. \A i \in 1..Len(queue) : queue[i] \in Seq(Callers)
    BY DEF DedupeInv, DedupeTypes
  <2>2. QueuedOnce
    BY DEF DedupeInv
  <2>3. \A i \in 1..Len(queue) : \A d \in ToSet(queue[i]) : d \in Callers
    BY <2>1, ToSetFacts
  <2> QED BY <1>1, <2>2, <2>3 DEF QueuedOnce
<1>7. \A f \in Flights : \A d \in ToSet(flight[f]) : d \in Callers /\ d # c
  BY <1>1, <1>2, ToSetFacts DEF DedupeInv, FliesOnce
<1>8. QueuedOnce'
  <2>1. ASSUME NEW i \in 1..Len(queue')
        PROVE  queue'[i] # <<>> /\ \A d \in ToSet(queue'[i]) : promise'[d] = "pending"
    <3>1. CASE i = k
      <4>1. queue'[i] # <<>>
        BY <1>4, <3>1
      <4>2. ASSUME NEW d \in ToSet(queue'[i]) PROVE promise'[d] = "pending"
        <5>1. d = c \/ (k \in 1..Len(queue) /\ d \in ToSet(queue[k]))
          BY <1>4, <3>1, <4>2
        <5> QED BY <1>3, <1>6, <5>1
      <4> QED BY <4>1, <4>2
    <3>2. CASE i # k
      <4>1. i \in 1..Len(queue) /\ queue'[i] = queue[i]
        BY <1>4, <3>2
      <4> QED BY <1>3, <1>6, <4>1
    <3> QED BY <3>1, <3>2
  <2>2. ASSUME NEW i \in 1..Len(queue'), i # k
        PROVE  /\ key[queue'[i][1]] # key[queue'[k][1]] /\ key[queue'[k][1]] # key[queue'[i][1]]
               /\ ToSet(queue'[i]) \cap ToSet(queue'[k]) = {}
    <3>1. i \in 1..Len(queue) /\ queue'[i] = queue[i] /\ key[queue[i][1]] # key[c]
      BY <1>4, <2>2
    <3>2. k \in 1..Len(queue) => ToSet(queue[i]) \cap ToSet(queue[k]) = {}
      BY <2>2, <3>1 DEF DedupeInv, QueuedOnce
    <3> QED BY <1>4, <1>6, <3>1, <3>2
  <2>3. ASSUME NEW i \in 1..Len(queue'), NEW j \in 1..Len(queue'), i # j, i # k, j # k
        PROVE  key[queue'[i][1]] # key[queue'[j][1]] /\ ToSet(queue'[i]) \cap ToSet(queue'[j]) = {}
    <3>1. /\ i \in 1..Len(queue) /\ queue'[i] = queue[i]
          /\ j \in 1..Len(queue) /\ queue'[j] = queue[j]
      BY <1>4, <2>3
    <3> QED BY <2>3, <3>1 DEF DedupeInv, QueuedOnce
  <2>4. key' = key
    BY <1>1
  <2> QED BY <2>1, <2>2, <2>3, <2>4 DEF QueuedOnce
<1>9. FliesOnce'
  <2>1. ASSUME NEW f \in Flights, NEW d \in ToSet(flight[f])
        PROVE  promise'[d] # "none" /\ \A i \in 1..Len(queue') : d \notin ToSet(queue'[i])
    <3>1. d \in Callers /\ d # c /\ promise[d] # "none" /\ \A i \in 1..Len(queue) : d \notin ToSet(queue[i])
      BY <1>7 DEF DedupeInv, FliesOnce
    <3> QED BY <1>3, <1>4, <3>1
  <2> QED BY <1>1, <2>1 DEF DedupeInv, FliesOnce
<1>10. StartInOrder'
  BY <1>1 DEF DedupeInv, StartInOrder
<1>11. FlightsProceed'
  <2>1. \A d \in Callers : promise'[d] \in {"none", "pending"} => promise[d] \in {"none", "pending"}
    BY <1>1, <1>3
  <2> QED BY <1>1, <1>3, <1>7, <2>1 DEF DedupeInv, FlightsProceed
<1>12. ReplicasLast'
  BY <1>1 DEF DedupeInv, ReplicasLast, InStock, Unread, Replicas
<1> QED BY <1>5, <1>8, <1>9, <1>10, <1>11, <1>12 DEF DedupeInv

\* Flights that have started are 1..Started.
LEMMA StartedFacts ==
  ASSUME DedupeInv
  PROVE  /\ Started \in Nat
         /\ \A f \in Flights : flight[f] # <<>> <=> f <= Started
<1>1. PICK n \in 0..Cardinality(Callers) : \A f \in Flights : flight[f] # <<>> <=> f <= n
  BY DEF DedupeInv, StartInOrder
<1>2. n \in Nat /\ Flights = 1..Cardinality(Callers) /\ n <= Cardinality(Callers)
  BY CallersAreFinite DEF Flights
<1>3. {f \in Flights : flight[f] # <<>>} = 1..n
  BY <1>1, <1>2, CallersAreFinite
<1>4. Cardinality(1..n) = n
  BY <1>2, FS_Interval
<1> QED BY <1>1, <1>2, <1>3, <1>4 DEF Started

\* The whole queue flies.
LEMMA ProcessKeeps ==
  ASSUME DedupeInv, Process
  PROVE  DedupeInv'
<1>0. PICK n \in Nat : n = Started
  BY StartedFacts
<1>1. /\ timers \in Nat \ {0} /\ timers' = timers - 1 /\ queue' = <<>>
      /\ flight' = [f \in Flights |-> IF f - n \in 1..Len(queue) THEN queue[f - n] ELSE flight[f]]
      /\ link' = [f \in Flights |-> IF f - n \in 1..Len(queue) THEN "flying" ELSE link[f]]
      /\ cut' = cut \cup {f \in Flights : f - n \in 1..Len(queue) /\ Combined(queue[f - n], gaveUp)}
      /\ UNCHANGED <<key, signalled, gaveUp, promise, body, stock>>
  BY <1>0 DEF Process, Taken, DedupeInv, DedupeTypes
<1> DEFINE Starts(f) == f - n \in 1..Len(queue)
<1>2. /\ Len(queue) \in Nat /\ \A i \in 1..Len(queue) : queue[i] \in Seq(Callers) /\ queue[i] # <<>>
      /\ flight \in [Flights -> Seq(Callers)] /\ Flights \subseteq Nat
  BY DEF DedupeInv, DedupeTypes, QueuedOnce, Flights
<1>3. \A f \in Flights :
        /\ Starts(f) => flight'[f] = queue[f - n] /\ link'[f] = "flying"
        /\ ~Starts(f) => flight'[f] = flight[f] /\ link'[f] = link[f] /\ (f \in cut' <=> f \in cut)
  BY <1>1
<1>4. \A f \in Flights : Starts(f) => flight[f] = <<>> /\ f \notin cut /\ link[f] = "none" /\ stock[f] = Unmade
  <2>1. ASSUME NEW f \in Flights, Starts(f) PROVE flight[f] = <<>>
    <3>1. ~(f <= n)
      BY <1>2, <2>1
    <3> QED BY <1>0, <3>1, StartedFacts
  <2> QED BY <2>1 DEF DedupeInv, FlightsProceed
<1> HIDE DEF Starts
<1>5. DedupeTypes'
  <2>1. flight' \in [Flights -> Seq(Callers)]
    BY <1>1, <1>2
  <2>2. link' \in [Flights -> {"none", "flying", "value", "stream", "failed"}]
    BY <1>1 DEF DedupeInv, DedupeTypes
  <2>3. queue' \in Seq(Seq(Callers))
    BY <1>1
  <2> QED BY <1>1, <2>1, <2>2, <2>3 DEF DedupeInv, DedupeTypes
<1>6. Len(queue') = 0
  BY <1>1
<1>7. QueuedOnce'
  BY <1>6 DEF QueuedOnce
<1>8. FliesOnce'
  <2>1. ASSUME NEW f \in Flights, NEW c \in ToSet(flight'[f]) PROVE promise[c] # "none"
    <3>1. CASE Starts(f)
      <4>1. f - n \in 1..Len(queue)
        BY <3>1 DEF Starts
      <4>2. c \in ToSet(queue[f - n])
        BY <1>3, <2>1, <3>1
      <4> QED BY <4>1, <4>2 DEF DedupeInv, QueuedOnce
    <3>2. CASE ~Starts(f)
      BY <1>3, <2>1, <3>2 DEF DedupeInv, FliesOnce
    <3> QED BY <3>1, <3>2
  <2>2. ASSUME NEW f \in Flights, NEW g \in Flights, f # g
        PROVE  ToSet(flight'[f]) \cap ToSet(flight'[g]) = {}
    <3>1. CASE Starts(f) /\ Starts(g)
      <4>1. PICK i \in 1..Len(queue), j \in 1..Len(queue) : i = f - n /\ j = g - n /\ i # j
        BY <1>2, <2>2, <3>1 DEF Starts
      <4>2. flight'[f] = queue[i] /\ flight'[g] = queue[j]
        BY <1>3, <3>1, <4>1
      <4>3. ToSet(queue[i]) \cap ToSet(queue[j]) = {}
        BY <4>1 DEF DedupeInv, QueuedOnce
      <4> QED BY <4>2, <4>3
    <3>2. CASE Starts(f) /\ ~Starts(g)
      <4>1. f - n \in 1..Len(queue)
        BY <3>2 DEF Starts
      <4> QED BY <1>3, <3>2, <4>1 DEF DedupeInv, FliesOnce
    <3>3. CASE ~Starts(f) /\ Starts(g)
      <4>1. g - n \in 1..Len(queue)
        BY <3>3 DEF Starts
      <4> QED BY <1>3, <3>3, <4>1 DEF DedupeInv, FliesOnce
    <3>4. CASE ~Starts(f) /\ ~Starts(g)
      BY <1>3, <2>2, <3>4 DEF DedupeInv, FliesOnce
    <3> QED BY <3>1, <3>2, <3>3, <3>4
  <2> QED BY <1>1, <1>6, <2>1, <2>2 DEF FliesOnce
<1>9. StartInOrder'
  <2> DEFINE m == IF n + Len(queue) <= Cardinality(Callers) THEN n + Len(queue) ELSE Cardinality(Callers)
  <2>1. m \in 0..Cardinality(Callers)
    BY <1>2, CallersAreFinite
  <2>2. ASSUME NEW f \in Flights PROVE flight'[f] # <<>> <=> f <= m
    <3>1. f \in Nat \ {0} /\ f <= Cardinality(Callers)
      BY CallersAreFinite DEF Flights
    <3>2. flight[f] # <<>> <=> f <= n
      BY <1>0, StartedFacts
    <3>3. CASE Starts(f)
      <4>1. f - n \in 1..Len(queue)
        BY <3>3 DEF Starts
      <4>2. flight'[f] # <<>>
        BY <1>2, <1>3, <3>3, <4>1
      <4>3. f <= m
        BY <1>2, <3>1, <4>1
      <4> QED BY <4>2, <4>3
    <3>4. CASE ~Starts(f)
      <4>1. f <= n \/ f > n + Len(queue)
        BY <1>2, <3>1, <3>4 DEF Starts
      <4>2. f <= m <=> f <= n
        BY <1>2, <3>1, <4>1, CallersAreFinite
      <4> QED BY <1>3, <3>2, <3>4, <4>2
    <3> QED BY <3>3, <3>4
  <2> HIDE DEF m
  <2> QED BY <2>1, <2>2 DEF StartInOrder
<1>10. FlightsProceed'
  <2>1. ASSUME NEW f \in Flights
        PROVE  /\ flight'[f] = <<>> => link'[f] = "none" /\ f \notin cut'
               /\ flight'[f] # <<>> => (f \in cut' <=> ToSet(flight'[f]) \subseteq gaveUp)
               /\ link'[f] \in {"none", "flying"} =>
                    stock[f] = Unmade /\ \A c \in ToSet(flight'[f]) : promise[c] = "pending"
    <3>1. CASE Starts(f)
      <4>1. f - n \in 1..Len(queue)
        BY <3>1 DEF Starts
      <4>2. flight'[f] = queue[f - n] /\ queue[f - n] # <<>>
        BY <1>2, <1>3, <3>1, <4>1
      <4>3. f \in cut' <=> ToSet(queue[f - n]) \subseteq gaveUp
        BY <1>1, <1>4, <3>1, <4>1 DEF Combined
      <4>4. \A c \in ToSet(queue[f - n]) : promise[c] = "pending"
        BY <4>1 DEF DedupeInv, QueuedOnce
      <4> QED BY <1>4, <3>1, <4>2, <4>3, <4>4
    <3>2. CASE ~Starts(f)
      BY <1>3, <3>2 DEF DedupeInv, FlightsProceed
    <3> QED BY <3>1, <3>2
  <2> QED BY <1>1, <2>1 DEF DedupeInv, FlightsProceed
<1>11. ReplicasLast'
  <2>1. ASSUME NEW f \in Flights, link'[f] = "stream"
        PROVE  flight'[f] = flight[f] /\ link[f] = "stream"
    BY <1>3, <2>1
  <2>2. \A f \in Flights : link'[f] = "stream" => InStock(f)' = InStock(f) /\ Unread(f)' = Unread(f)
    BY <1>1, <2>1 DEF InStock, Replicas, Unread
  <2> QED BY <1>1, <2>1, <2>2 DEF DedupeInv, ReplicasLast
<1> QED BY <1>5, <1>7, <1>8, <1>9, <1>10, <1>11 DEF DedupeInv

\* A caller aborts.
LEMMA AbortCallerKeeps ==
  ASSUME DedupeInv, NEW c \in Callers, AbortCaller(c)
  PROVE  DedupeInv'
<1>1. /\ c \in signalled /\ gaveUp' = gaveUp \cup {c}
      /\ cut' = cut \cup {f \in Flights : flight[f] # <<>> /\ c \in ToSet(flight[f])
                                            /\ ToSet(flight[f]) \subseteq gaveUp'}
      /\ UNCHANGED <<key, signalled, queue, timers, flight, link, promise, body, stock>>
  BY DEF AbortCaller, Combined
<1>2. DedupeTypes'
  BY <1>1 DEF DedupeInv, DedupeTypes
<1>3. QueuedOnce' /\ FliesOnce' /\ StartInOrder'
  <2>1. QueuedOnce'
    BY <1>1 DEF DedupeInv, QueuedOnce
  <2>2. FliesOnce'
    BY <1>1 DEF DedupeInv, FliesOnce
  <2>3. StartInOrder'
    BY <1>1 DEF DedupeInv, StartInOrder
  <2> QED BY <2>1, <2>2, <2>3
<1>4. FlightsProceed'
  <2>1. ASSUME NEW f \in Flights, flight[f] # <<>>
        PROVE  f \in cut' <=> ToSet(flight[f]) \subseteq gaveUp'
    <3>1. f \in cut <=> ToSet(flight[f]) \subseteq gaveUp
      BY <2>1 DEF DedupeInv, FlightsProceed
    <3> QED BY <1>1, <2>1, <3>1
  <2>2. \A f \in Flights : flight[f] = <<>> => f \notin cut'
    BY <1>1 DEF DedupeInv, FlightsProceed
  <2> QED BY <1>1, <2>1, <2>2 DEF DedupeInv, FlightsProceed
<1>5. ReplicasLast'
  BY <1>1 DEF DedupeInv, ReplicasLast, InStock, Replicas, Unread
<1> QED BY <1>2, <1>3, <1>4, <1>5 DEF DedupeInv

\* The wrapped link settles a flight.
LEMMA AnswerKeeps ==
  ASSUME DedupeInv, NEW f \in Flights, NEW how \in {"value", "stream", "failed"}, Answer(f, how)
  PROVE  DedupeInv'
<1> DEFINE told == IF how = "failed" THEN "error" ELSE "response"
<1>1. /\ link[f] = "flying" /\ link' = [link EXCEPT ![f] = how]
      /\ promise' = [c \in Callers |-> IF c \in ToSet(flight[f]) THEN told ELSE promise[c]]
      /\ UNCHANGED <<key, signalled, queue, timers, flight, cut, gaveUp, body, stock>>
      /\ told \in {"error", "response"}
  BY DEF Answer
<1> HIDE DEF told
<1>2. /\ link \in [Flights -> {"none", "flying", "value", "stream", "failed"}]
      /\ promise \in [Callers -> Answers] /\ flight \in [Flights -> Seq(Callers)]
      /\ queue \in Seq(Seq(Callers)) /\ flight[f] \in Seq(Callers)
  BY DEF DedupeInv, DedupeTypes
<1>3. link'[f] = how /\ \A g \in Flights : g # f => link'[g] = link[g]
  BY <1>1, <1>2
<1>4. \A c \in Callers : IF c \in ToSet(flight[f]) THEN promise'[c] = told ELSE promise'[c] = promise[c]
  BY <1>1
<1>5. stock[f] = Unmade /\ flight[f] # <<>> /\ \A c \in ToSet(flight[f]) : c \in Callers /\ body[c] = NoBody
  <2>1. \A c \in ToSet(flight[f]) : c \in Callers
    BY <1>2, ToSetFacts
  <2> QED BY <1>1, <2>1 DEF DedupeInv, FlightsProceed
<1>6. DedupeTypes'
  BY <1>1, <1>2 DEF DedupeInv, DedupeTypes, Answers
<1>7. QueuedOnce'
  <2>1. ASSUME NEW i \in 1..Len(queue), NEW c \in ToSet(queue[i]) PROVE promise'[c] = "pending"
    <3>1. queue[i] \in Seq(Callers)
      BY <1>2
    <3>2. c \in Callers /\ promise[c] = "pending"
      <4>1. QueuedOnce
        BY DEF DedupeInv
      <4> QED BY <3>1, <4>1, ToSetFacts DEF QueuedOnce
    <3>3. c \notin ToSet(flight[f])
      <4>1. FliesOnce
        BY DEF DedupeInv
      <4> QED BY <4>1 DEF FliesOnce
    <3> QED BY <1>4, <3>2, <3>3
  <2>2. queue' = queue /\ key' = key /\ QueuedOnce
    BY <1>1 DEF DedupeInv
  <2>3. \A i \in 1..Len(queue) : queue[i] # <<>> /\ \A c \in ToSet(queue[i]) : promise'[c] = "pending"
    BY <2>1, <2>2 DEF QueuedOnce
  <2> QED BY <2>2, <2>3 DEF QueuedOnce
<1>8. FliesOnce'
  <2>1. ASSUME NEW g \in Flights, NEW c \in ToSet(flight[g]) PROVE promise'[c] # "none"
    <3>1. flight[g] \in Seq(Callers)
      BY <1>2
    <3>2. c \in Callers /\ promise[c] # "none"
      BY <3>1, ToSetFacts DEF DedupeInv, FliesOnce
    <3> QED BY <1>1, <1>4, <3>2
  <2> QED BY <1>1, <2>1 DEF DedupeInv, FliesOnce
<1>9. StartInOrder'
  BY <1>1 DEF DedupeInv, StartInOrder
<1>10. FlightsProceed'
  <2>1. ASSUME NEW g \in Flights, link'[g] \in {"none", "flying"}
        PROVE  stock[g] = Unmade /\ \A c \in ToSet(flight[g]) : promise'[c] = "pending"
    <3>1. g # f /\ link[g] = link'[g]
      BY <1>3, <2>1
    <3>2. ASSUME NEW c \in ToSet(flight[g]) PROVE promise'[c] = "pending"
      <4>1. flight[g] \in Seq(Callers)
        BY <1>2
      <4>2. c \in Callers /\ c \notin ToSet(flight[f])
        BY <3>1, <4>1, ToSetFacts DEF DedupeInv, FliesOnce
      <4>3. promise[c] = "pending"
        BY <2>1, <3>1 DEF DedupeInv, FlightsProceed
      <4> QED BY <1>4, <4>2, <4>3
    <3> QED BY <2>1, <3>1, <3>2 DEF DedupeInv, FlightsProceed
  <2>2. \A g \in Flights : flight[g] = <<>> => link'[g] = "none"
    BY <1>3, <1>5 DEF DedupeInv, FlightsProceed
  <2>3. \A c \in Callers : promise'[c] \in {"none", "pending"} => promise[c] \in {"none", "pending"}
    BY <1>1, <1>4
  <2> QED BY <1>1, <2>1, <2>2, <2>3 DEF DedupeInv, FlightsProceed
<1>11. ReplicasLast'
  <2>1. \A g \in Flights : InStock(g)' = InStock(g) /\ Unread(g)' = Unread(g)
    BY <1>1 DEF InStock, Replicas, Unread
  <2>2. InStock(f) = Len(flight[f]) /\ Unread(f) = ToSet(flight[f])
    BY <1>5 DEF InStock, Replicas, Unread
  <2>3. Cardinality(Unread(f)) <= InStock(f) /\ InStock(f) \in Nat
    BY <1>2, <2>2, ToSetIsSmall
  <2>4. ASSUME NEW g \in Flights, link'[g] = "stream", Len(flight[g]) > 1
        PROVE  /\ InStock(g) \in Nat /\ Cardinality(Unread(g)) <= InStock(g)
               /\ \A c \in ToSet(flight[g]) : body[c] # NoBody =>
                    body[c] > InStock(g) /\ \A d \in ToSet(flight[g]) \ {c} : body[d] # body[c]
    <3>1. CASE g = f
      BY <1>5, <2>3, <3>1
    <3>2. CASE g # f
      BY <1>3, <2>4, <3>2 DEF DedupeInv, ReplicasLast
    <3> QED BY <3>1, <3>2
  <2> QED BY <1>1, <2>1, <2>4 DEF ReplicasLast
<1> QED BY <1>6, <1>7, <1>8, <1>9, <1>10, <1>11 DEF DedupeInv

\* A caller resolves the body of its response.
LEMMA ResolveBodyKeeps ==
  ASSUME DedupeInv, NEW f \in Flights, NEW c \in Callers, ResolveBody(f, c)
  PROVE  DedupeInv'
<1>1. /\ c \in ToSet(flight[f]) /\ promise[c] = "response" /\ body[c] = NoBody
      /\ UNCHANGED <<key, signalled, queue, timers, flight, link, cut, gaveUp, promise>>
  BY DEF ResolveBody
<1>2. /\ flight \in [Flights -> Seq(Callers)] /\ body \in [Callers -> Int] /\ stock \in [Flights -> Int]
      /\ \A g \in Flights : flight[g] \in Seq(Callers) /\ Len(flight[g]) \in Nat
  BY DEF DedupeInv, DedupeTypes
<1>3. \A g \in Flights : g # f => c \notin ToSet(flight[g])
  BY <1>1 DEF DedupeInv, FliesOnce
<1>4. link[f] \notin {"none", "flying"}
  BY <1>1 DEF DedupeInv, FlightsProceed
<1>5. /\ body' \in [Callers -> Int] /\ stock' \in [Flights -> Int]
      /\ \A d \in Callers : d # c => body'[d] = body[d]
      /\ \A g \in Flights : g # f => stock'[g] = stock[g]
  <2>1. InStock(f) \in Int
    BY <1>2 DEF InStock, Replicas
  <2> HIDE DEF InStock
  <2>2. CASE link[f] = "stream" /\ Len(flight[f]) > 1
    <3>1. /\ body' = [body EXCEPT ![c] = InStock(f)]
          /\ stock' = [stock EXCEPT ![f] = IF InStock(f) = 0 THEN 0 ELSE InStock(f) - 1]
      BY <2>2 DEF ResolveBody
    <3>2. (IF InStock(f) = 0 THEN 0 ELSE InStock(f) - 1) \in Int
      BY <2>1
    <3> QED BY <1>2, <2>1, <3>1, <3>2
  <2>3. CASE ~(link[f] = "stream" /\ Len(flight[f]) > 1)
    <3>1. body' = [body EXCEPT ![c] = Shared] /\ stock' = stock /\ Shared \in Int
      BY <2>3 DEF ResolveBody, Shared
    <3> QED BY <1>2, <3>1
  <2> QED BY <2>2, <2>3
<1>6. DedupeTypes'
  BY <1>1, <1>5 DEF DedupeInv, DedupeTypes
<1>7. QueuedOnce' /\ FliesOnce' /\ StartInOrder'
  <2>1. QueuedOnce'
    BY <1>1 DEF DedupeInv, QueuedOnce
  <2>2. FliesOnce'
    BY <1>1 DEF DedupeInv, FliesOnce
  <2>3. StartInOrder'
    BY <1>1 DEF DedupeInv, StartInOrder
  <2> QED BY <2>1, <2>2, <2>3
<1>8. FlightsProceed'
  <2>1. \A g \in Flights : link[g] \in {"none", "flying"} => stock'[g] = stock[g]
    BY <1>4, <1>5
  <2>2. \A d \in Callers : promise[d] \in {"none", "pending"} => body'[d] = body[d]
    BY <1>1, <1>5
  <2> QED BY <1>1, <2>1, <2>2 DEF DedupeInv, FlightsProceed
<1>9. ReplicasLast'
  <2>1. ASSUME NEW g \in Flights, link[g] = "stream", Len(flight[g]) > 1, g # f
        PROVE  /\ InStock(g)' \in Nat /\ Cardinality(Unread(g)') <= InStock(g)'
               /\ \A d \in ToSet(flight[g]) : body'[d] # NoBody =>
                    body'[d] > InStock(g)' /\ \A e \in ToSet(flight[g]) \ {d} : body'[e] # body'[d]
    <3>1. \A d \in ToSet(flight[g]) : body'[d] = body[d]
      <4>1. \A d \in ToSet(flight[g]) : d \in Callers /\ d # c
        BY <1>2, <1>3, <2>1, ToSetFacts
      <4> QED BY <1>5, <4>1
    <3>2. Unread(g)' = Unread(g)
      BY <1>1, <3>1 DEF Unread
    <3>3. InStock(g)' = InStock(g)
      BY <1>1, <1>5, <2>1 DEF InStock, Replicas
    <3> QED BY <2>1, <3>1, <3>2, <3>3 DEF DedupeInv, ReplicasLast
  <2>2. ASSUME link[f] = "stream", Len(flight[f]) > 1
        PROVE  /\ InStock(f)' \in Nat /\ Cardinality(Unread(f)') <= InStock(f)'
               /\ \A d \in ToSet(flight[f]) : body'[d] # NoBody =>
                    body'[d] > InStock(f)' /\ \A e \in ToSet(flight[f]) \ {d} : body'[e] # body'[d]
    <3>1. /\ InStock(f) \in Nat /\ Cardinality(Unread(f)) <= InStock(f)
          /\ \A d \in ToSet(flight[f]) : body[d] # NoBody =>
               body[d] > InStock(f) /\ \A e \in ToSet(flight[f]) \ {d} : body[e] # body[d]
      BY <2>2 DEF DedupeInv, ReplicasLast
    <3>2. PICK s \in Nat : s = InStock(f)
      BY <3>1
    <3>3. \A d \in ToSet(flight[f]) : d \in Callers /\ body[d] \in Int
      BY <1>2, ToSetFacts
    <3>4. /\ IsFiniteSet(Unread(f)) /\ c \in Unread(f)
          /\ Cardinality(Unread(f)) \in Nat
      <4>1. Unread(f) \subseteq Callers
        BY <3>3 DEF Unread
      <4> QED BY <1>1, <4>1, CallersAreFinite, FS_Subset, FS_CardinalityType DEF Unread
    <3>5. Unread(f)' = Unread(f) \ {c}
      <4>1. body'[c] # NoBody
        <5>1. body'[c] = InStock(f)
          BY <1>2, <2>2 DEF ResolveBody
        <5> QED BY <3>1, <5>1 DEF NoBody
      <4> QED BY <1>1, <1>5, <3>3, <4>1 DEF Unread
    <3>6. Cardinality(Unread(f)') = Cardinality(Unread(f)) - 1
      BY <3>4, <3>5, FS_RemoveElement
    <3>7. s >= 1
      <4>1. Cardinality(Unread(f)) # 0
        BY <3>4, FS_EmptySet
      <4> QED BY <3>1, <3>2, <3>4, <4>1
    <3>8. body'[c] = s /\ stock'[f] = s - 1
      <4>1. body' = [body EXCEPT ![c] = s] /\ stock' = [stock EXCEPT ![f] = s - 1]
        BY <2>2, <3>2, <3>7 DEF ResolveBody
      <4> QED BY <1>2, <4>1
    <3>9. InStock(f)' = s - 1
      BY <3>7, <3>8 DEF InStock, Unmade
    <3>10. ASSUME NEW d \in ToSet(flight[f]), body'[d] # NoBody
           PROVE  body'[d] > s - 1 /\ \A e \in ToSet(flight[f]) \ {d} : body'[e] # body'[d]
      <4>1. CASE d = c
        <5>1. ASSUME NEW e \in ToSet(flight[f]), e # c PROVE body'[e] # s
          <6>1. body'[e] = body[e] /\ body[e] \in Int
            BY <1>5, <3>3, <5>1
          <6>2. body[e] # NoBody => body[e] > s
            BY <3>1, <3>2, <5>1
          <6> QED BY <3>7, <6>1, <6>2 DEF NoBody
        <5> QED BY <3>8, <4>1, <5>1
      <4>2. CASE d # c
        <5>1. body'[d] = body[d] /\ body[d] \in Int /\ body[d] > s
          BY <1>5, <3>1, <3>2, <3>3, <3>10, <4>2
        <5>2. ASSUME NEW e \in ToSet(flight[f]), e # d PROVE body'[e] # body'[d]
          <6>1. CASE e = c
            BY <3>8, <5>1, <6>1
          <6>2. CASE e # c
            <7>1. body'[e] = body[e]
              BY <1>5, <3>3, <6>2
            <7> QED BY <3>1, <3>10, <5>1, <5>2, <7>1
          <6> QED BY <6>1, <6>2
        <5> QED BY <5>1, <5>2
      <4> QED BY <4>1, <4>2
    <3>11. s - 1 \in Nat /\ Cardinality(Unread(f)') <= s - 1
      BY <3>1, <3>2, <3>4, <3>6, <3>7
    <3> QED BY <3>9, <3>10, <3>11
  <2>3. \A g \in Flights : link'[g] = link[g] /\ flight'[g] = flight[g]
    BY <1>1
  <2> QED BY <2>1, <2>2, <2>3 DEF ReplicasLast
<1> QED BY <1>6, <1>7, <1>8, <1>9 DEF DedupeInv

LEMMA DedupeStep == DedupeInv /\ [DedupeNext]_dedupeVars => DedupeInv'
<1> SUFFICES ASSUME DedupeInv, [DedupeNext]_dedupeVars PROVE DedupeInv'
  OBVIOUS
<1>1. ASSUME NEW c \in Callers, Enqueue(c) PROVE DedupeInv'
  BY <1>1, EnqueueKeeps
<1>2. ASSUME NEW c \in Callers, AbortCaller(c) PROVE DedupeInv'
  BY <1>2, AbortCallerKeeps
<1>3. CASE Process
  BY <1>3, ProcessKeeps
<1>4. ASSUME NEW f \in Flights, NEW how \in {"value", "stream", "failed"}, Answer(f, how) PROVE DedupeInv'
  BY <1>4, AnswerKeeps
<1>5. ASSUME NEW f \in Flights, NEW c \in Callers, ResolveBody(f, c) PROVE DedupeInv'
  BY <1>5, ResolveBodyKeeps
<1>6. CASE UNCHANGED dedupeVars
  <2>1. UNCHANGED <<key, signalled, queue, timers, flight, link, cut, gaveUp, promise, body, stock>>
    BY <1>6 DEF dedupeVars
  <2>2. DedupeTypes'
    BY <2>1 DEF DedupeInv, DedupeTypes
  <2>3. QueuedOnce'
    BY <2>1 DEF DedupeInv, QueuedOnce
  <2>4. FliesOnce'
    BY <2>1 DEF DedupeInv, FliesOnce
  <2>5. StartInOrder' /\ FlightsProceed'
    BY <2>1 DEF DedupeInv, StartInOrder, FlightsProceed
  <2>6. ReplicasLast'
    BY <2>1 DEF DedupeInv, ReplicasLast, InStock, Replicas, Unread
  <2> QED BY <2>2, <2>3, <2>4, <2>5, <2>6 DEF DedupeInv
<1> QED BY <1>1, <1>2, <1>3, <1>4, <1>5, <1>6 DEF DedupeNext, Settle

LEMMA DedupeInvIsEnough == DedupeInv => SharersStayApart
<1> SUFFICES ASSUME DedupeInv, NEW f \in Flights, flight[f] # <<>>
             PROVE  /\ f \in cut <=> ToSet(flight[f]) \subseteq signalled \cap gaveUp
                    /\ link[f] = "stream" /\ Len(flight[f]) > 1 =>
                         \A c \in ToSet(flight[f]) : body[c] # NoBody =>
                           body[c] # 0 /\ \A d \in ToSet(flight[f]) \ {c} : body[d] # body[c]
  BY DEF SharersStayApart
<1>1. f \in cut <=> ToSet(flight[f]) \subseteq signalled \cap gaveUp
  BY DEF DedupeInv, DedupeTypes, FlightsProceed
<1>2. ASSUME link[f] = "stream", Len(flight[f]) > 1, NEW c \in ToSet(flight[f]), body[c] # NoBody
      PROVE  body[c] # 0 /\ \A d \in ToSet(flight[f]) \ {c} : body[d] # body[c]
  <2>1. /\ InStock(f) \in Nat /\ body[c] > InStock(f)
        /\ \A d \in ToSet(flight[f]) \ {c} : body[d] # body[c]
    BY <1>2 DEF DedupeInv, ReplicasLast
  <2> QED BY <2>1
<1> QED BY <1>1, <1>2

-----------------------------------------------------------------------------
(* Members of a batch *)

Batch == [items : Seq(Requests), cut : BOOLEAN,
          phase : {"preparing", "starved", "checking", "split", "sent", "reading", "done"}]

BatchTypes ==
  /\ method \in [Requests -> {"GET", "QUERY", "POST"}]
  /\ waiting \in Seq(Requests) /\ deferred \in Nat
  /\ batches \in Seq(Batch)
  /\ given \subseteq Requests
  /\ answer \in [Requests -> {"none", "pending", "response", "error"}]
  /\ sent \in [Requests -> Nat]

Distinct(s) == \A i, j \in 1..Len(s) : i # j => s[i] # s[j]

\* Who is queued waits, has one place, and was not sent.
WaitingOnce ==
  /\ Distinct(waiting)
  /\ \A r \in ToSet(waiting) : answer[r] = "pending" /\ sent[r] = 0

\* Whether the members of a batch in this phase have been sent.
IsSent(phase) == IF phase \in {"preparing", "starved", "checking"} THEN 0 ELSE 1

\* A batch that was not split is of several requests, that left the queue and were sent
\* with it, and with no other.
BatchesAgree ==
  \A b \in 1..Len(batches) : batches[b].phase # "split" =>
    /\ Items(b) # <<>> /\ Distinct(Items(b))
    /\ \A r \in ToSet(Items(b)) :
         answer[r] # "none" /\ r \notin ToSet(waiting) /\ sent[r] = IsSent(batches[b].phase)

BatchesAreApart ==
  \A b, c \in 1..Len(batches) :
    b # c /\ batches[b].phase # "split" /\ batches[c].phase # "split" =>
      ToSet(Items(b)) \cap ToSet(Items(c)) = {}

\* Who was not called was not sent; who was answered was sent, or aborted.
AnswersAreSent ==
  \A r \in Requests :
    /\ sent[r] \in {0, 1}
    /\ answer[r] = "none" => sent[r] = 0
    /\ answer[r] \in {"response", "error"} /\ r \notin given => sent[r] = 1

CutIsAgreed == \A b \in 1..Len(batches) : batches[b].cut => ToSet(Items(b)) \subseteq given

BatchInv ==
  BatchTypes /\ WaitingOnce /\ BatchesAgree /\ BatchesAreApart /\ AnswersAreSent /\ CutIsAgreed

\* Runs that begin with members of S: each is of several of them, and no two of one.
AreRuns(runs, S) ==
  /\ runs \in Seq(Batch)
  /\ \A i \in 1..Len(runs) :
       /\ runs[i].items # <<>> /\ Distinct(runs[i].items)
       /\ ToSet(runs[i].items) \subseteq S
       /\ ~runs[i].cut
       /\ runs[i].phase = IF Len(runs[i].items) = 1 THEN "sent" ELSE "preparing"
  /\ \A i, j \in 1..Len(runs) : i # j => ToSet(runs[i].items) \cap ToSet(runs[j].items) = {}

LEMMA RunIsRuns ==
  ASSUME NEW items \in Seq(Requests), Distinct(items)
  PROVE  AreRuns(Run(items), ToSet(items))
<1>1. CASE items = <<>>
  <2>1. Run(items) = <<>> /\ Len(<<>>) = 0 /\ <<>> \in Seq(Batch)
    BY <1>1 DEF Run
  <2> QED BY <2>1 DEF AreRuns
<1>2. CASE items # <<>>
  <2>1. Run(items) = <<Execute(items)>>
    BY <1>2 DEF Run
  <2>2. /\ Execute(items) \in Batch
        /\ Execute(items).items = items /\ ~Execute(items).cut
        /\ Execute(items).phase = IF Len(items) = 1 THEN "sent" ELSE "preparing"
    BY DEF Execute, Batch
  <2> DEFINE e == Execute(items)
  <2> HIDE DEF e
  <2>3. /\ <<e>> \in Seq(Batch) /\ Len(<<e>>) = 1 /\ <<e>>[1] = e
        /\ \A i \in 1..Len(<<e>>) : i = 1
    BY <2>2 DEF e
  <2> QED BY <1>2, <2>1, <2>2, <2>3 DEF AreRuns, e
<1> QED BY <1>1, <1>2

Joined(c, a, b) ==
  /\ c \in Seq(Batch) /\ Len(c) = Len(a) + Len(b)
  /\ \A i \in 1..(Len(a) + Len(b)) : c[i] = IF i <= Len(a) THEN a[i] ELSE b[i - Len(a)]

LEMMA JoinedFacts ==
  ASSUME NEW a \in Seq(Batch), NEW b \in Seq(Batch)
  PROVE  Joined(a \o b, a, b)
BY ConcatProperties DEF Joined

LEMMA ConcatRuns ==
  ASSUME NEW S, NEW T, NEW a, NEW b, AreRuns(a, S), AreRuns(b, T), S \cap T = {}
  PROVE  AreRuns(a \o b, S \cup T)
<1>1. a \in Seq(Batch) /\ b \in Seq(Batch)
  BY DEF AreRuns
<1>2. PICK m \in Nat, n \in Nat : m = Len(a) /\ n = Len(b)
  BY <1>1
<1> DEFINE c == a \o b
<1>3. /\ c \in Seq(Batch) /\ Len(c) = m + n
      /\ \A i \in 1..(m + n) : c[i] = IF i <= m THEN a[i] ELSE b[i - m]
  BY <1>1, <1>2, JoinedFacts DEF Joined
<1> HIDE DEF c
<1>4. \A i \in 1..(m + n) : \/ i \in 1..m /\ c[i] = a[i]
                            \/ i - m \in 1..n /\ c[i] = b[i - m]
  BY <1>2, <1>3
<1>5. ASSUME NEW i \in 1..Len(c)
      PROVE  /\ c[i].items # <<>> /\ Distinct(c[i].items)
             /\ ToSet(c[i].items) \subseteq S \cup T
             /\ ~c[i].cut
             /\ c[i].phase = IF Len(c[i].items) = 1 THEN "sent" ELSE "preparing"
  <2>1. CASE i \in 1..m /\ c[i] = a[i]
    BY <1>2, <2>1 DEF AreRuns
  <2>2. CASE i - m \in 1..n /\ c[i] = b[i - m]
    <3>1. PICK k \in 1..Len(b) : c[i] = b[k]
      BY <1>2, <2>2
    <3> QED BY <3>1 DEF AreRuns
  <2> QED BY <1>3, <1>4, <2>1, <2>2
<1>6. ASSUME NEW i \in 1..Len(c), NEW j \in 1..Len(c), i # j
      PROVE  ToSet(c[i].items) \cap ToSet(c[j].items) = {}
  <2>0. i \in 1..(m + n) /\ j \in 1..(m + n)
    BY <1>3
  <2>1. CASE i \in 1..m /\ c[i] = a[i] /\ j \in 1..m /\ c[j] = a[j]
    BY <1>2, <1>6, <2>1 DEF AreRuns
  <2>2. CASE i - m \in 1..n /\ c[i] = b[i - m] /\ j - m \in 1..n /\ c[j] = b[j - m]
    <3>1. PICK k \in 1..Len(b) : k = i - m /\ c[i] = b[k]
      BY <1>2, <2>2
    <3>2. PICK l \in 1..Len(b) : l = j - m /\ c[j] = b[l]
      BY <1>2, <2>2
    <3>3. k # l
      BY <1>2, <1>6, <2>0, <3>1, <3>2
    <3> QED BY <3>1, <3>2, <3>3 DEF AreRuns
  <2>3. CASE i \in 1..m /\ c[i] = a[i] /\ j - m \in 1..n /\ c[j] = b[j - m]
    <3>1. ToSet(c[i].items) \subseteq S
      BY <1>2, <2>3 DEF AreRuns
    <3>2. PICK l \in 1..Len(b) : c[j] = b[l]
      BY <1>2, <2>3
    <3>3. ToSet(c[j].items) \subseteq T
      BY <3>2 DEF AreRuns
    <3> QED BY <3>1, <3>3
  <2>4. CASE i - m \in 1..n /\ c[i] = b[i - m] /\ j \in 1..m /\ c[j] = a[j]
    <3>1. ToSet(c[j].items) \subseteq S
      BY <1>2, <2>4 DEF AreRuns
    <3>2. PICK k \in 1..Len(b) : c[i] = b[k]
      BY <1>2, <2>4
    <3>3. ToSet(c[i].items) \subseteq T
      BY <3>2 DEF AreRuns
    <3> QED BY <3>1, <3>3
  <2> QED BY <1>4, <2>0, <2>1, <2>2, <2>3, <2>4
<1> QED BY <1>3, <1>5, <1>6 DEF AreRuns, c

\* Runs of some of the members are runs of more.
LEMMA MoreMembers ==
  ASSUME NEW S, NEW T, S \subseteq T, NEW a, AreRuns(a, S)
  PROVE  AreRuns(a, T)
BY DEF AreRuns

\* A stretch of a list has other members than one that ends before it.
LEMMA StretchFacts ==
  ASSUME NEW items \in Seq(Requests), Distinct(items),
         NEW k \in 1..(Len(items) + 1), NEW n \in 0..Len(items)
  PROVE  /\ SubSeq(items, k, n) \in Seq(Requests) /\ Distinct(SubSeq(items, k, n))
         /\ ToSet(SubSeq(items, k, n)) = {items[i] : i \in k..n}
<1> DEFINE s == SubSeq(items, k, n)
<1>1. PICK l \in Nat : l = Len(items)
  OBVIOUS
<1>2. \A i \in k..n : i \in 1..l /\ items[i] \in Requests
  BY <1>1
<1>3. /\ s \in Seq(Requests)
      /\ Len(s) = IF k <= n THEN n - k + 1 ELSE 0
      /\ \A i \in 1..n - k + 1 : s[i] = items[k + i - 1]
  <2>1. k \in Int /\ n \in Int /\ \A i \in k..n : items[i] \in Requests
    BY <1>1, <1>2
  <2> QED BY <2>1, SubSeqProperties
<1> HIDE DEF s
<1>4. \A i \in 1..Len(s) : k + i - 1 \in k..n /\ s[i] = items[k + i - 1]
  <2>1. k \in Nat /\ n \in Nat
    BY <1>1
  <2>2. \A i \in 1..Len(s) : i \in 1..n - k + 1 /\ k + i - 1 \in k..n
    BY <1>3, <2>1
  <2> QED BY <1>3, <2>2
<1>5. Distinct(s)
  <2>1. \A i, j \in 1..Len(s) : i # j => k + i - 1 # k + j - 1
    BY <1>1, <1>3
  <2> QED BY <1>1, <1>2, <1>4, <2>1 DEF Distinct
<1>6. \A r \in ToSet(s) : \E i \in k..n : items[i] = r
  <2>1. ASSUME NEW r \in ToSet(s) PROVE \E i \in k..n : items[i] = r
    <3>1. PICK j \in 1..Len(s) : s[j] = r
      BY <1>3, ToSetFacts
    <3> QED BY <1>4, <3>1
  <2> QED BY <2>1
<1>7. \A i \in k..n : items[i] \in ToSet(s)
  <2>1. ASSUME NEW i \in k..n PROVE items[i] \in ToSet(s)
    <3>1. PICK j \in 1..Len(s) : k + j - 1 = i
      <4>1. i - k + 1 \in 1..Len(s) /\ k + (i - k + 1) - 1 = i
        BY <1>1, <1>3
      <4> QED BY <4>1
    <3>2. s[j] = items[i]
      BY <1>4, <3>1
    <3> QED BY <1>3, <3>2, ToSetFacts
  <2> QED BY <2>1
<1> QED BY <1>3, <1>5, <1>6, <1>7 DEF s

LEMMA HalvesAreRuns ==
  ASSUME NEW items \in Seq(Requests), Distinct(items)
  PROVE  AreRuns(RunHalves(items), ToSet(items))
<1>1. PICK n \in Nat : n = Len(items)
  OBVIOUS
<1>2. PICK h \in Nat : h = (n + 1) \div 2
  BY <1>1
<1>3. h \in 0..n /\ h + 1 \in 1..(n + 1)
  BY <1>1, <1>2
<1> DEFINE a == SubSeq(items, 1, h)
<1> DEFINE b == SubSeq(items, h + 1, n)
<1>4. RunHalves(items) = Run(a) \o Run(b)
  BY <1>1, <1>2 DEF RunHalves
<1>5. /\ a \in Seq(Requests) /\ Distinct(a) /\ ToSet(a) = {items[i] : i \in 1..h}
      /\ b \in Seq(Requests) /\ Distinct(b) /\ ToSet(b) = {items[i] : i \in (h + 1)..n}
  <2>1. 1 \in 1..(n + 1) /\ n \in 0..n
    BY <1>1
  <2> QED BY <1>1, <1>3, <2>1, StretchFacts
<1> HIDE DEF a, b
<1>6. ToSet(a) \cap ToSet(b) = {}
  <2>1. \A i \in 1..h, j \in (h + 1)..n : i \in 1..n /\ j \in 1..n /\ i # j
    BY <1>1, <1>3
  <2> QED BY <1>1, <1>5, <2>1 DEF Distinct
<1>7. ToSet(a) \cup ToSet(b) \subseteq ToSet(items)
  <2>1. \A i \in (1..h) \cup ((h + 1)..n) : i \in 1..n
    BY <1>1, <1>3
  <2> QED BY <1>1, <1>5, <2>1, ToSetFacts
<1>8. AreRuns(Run(a) \o Run(b), ToSet(a) \cup ToSet(b))
  BY <1>5, <1>6, RunIsRuns, ConcatRuns
<1> QED BY <1>4, <1>7, <1>8, MoreMembers

\* The loop that leaves the requests of method m gives a sequence.
IsLoop(g, s, m, n) ==
  g = [i \in 0..n |-> IF i = 0 THEN <<>>
                      ELSE IF method[s[i]] = m THEN Append(g[i - 1], s[i]) ELSE g[i - 1]]

LEMMA LoopExists ==
  ASSUME NEW s, NEW m, NEW n \in Nat
  PROVE  \E g : IsLoop(g, s, m, n)
<1> DEFINE T == {l \in Nat : ~ \E g : IsLoop(g, s, m, l)}
<1>1. SUFFICES ASSUME T # {} PROVE FALSE
  OBVIOUS
<1>2. PICK k \in T : \A j \in T : k <= j
  BY <1>1, LeastElement
<1>3. CASE k = 0
  <2> DEFINE g == [i \in 0..0 |-> <<>>]
  <2>1. IsLoop(g, s, m, 0)
    BY DEF IsLoop
  <2> QED BY <1>2, <1>3, <2>1
<1>4. CASE k # 0
  <2>1. k \in Nat /\ k - 1 \in Nat /\ ~(k <= k - 1)
    BY <1>2, <1>4
  <2>2. k - 1 \notin T
    BY <1>2, <2>1
  <2>3. PICK g : IsLoop(g, s, m, k - 1)
    BY <2>1, <2>2
  <2> DEFINE h == [i \in 0..k |->
                     IF i = k THEN IF method[s[k]] = m THEN Append(g[k - 1], s[k]) ELSE g[k - 1]
                     ELSE g[i]]
  <2>4. \A i \in 0..(k - 1) : h[i] = g[i] /\ i # k /\ i \in 0..k
    BY <2>1
  <2>5. h = [i \in 0..k |-> IF i = 0 THEN <<>>
                            ELSE IF method[s[i]] = m THEN Append(h[i - 1], s[i]) ELSE h[i - 1]]
    <3>1. SUFFICES ASSUME NEW i \in 0..k
                   PROVE  h[i] = IF i = 0 THEN <<>>
                                 ELSE IF method[s[i]] = m THEN Append(h[i - 1], s[i]) ELSE h[i - 1]
      <4>1. h = [i \in 0..k |-> h[i]]
        OBVIOUS
      <4> HIDE DEF h
      <4> QED BY <3>1, <4>1
    <3>2. CASE i = k
      <4>1. h[i] = IF method[s[k]] = m THEN Append(g[k - 1], s[k]) ELSE g[k - 1]
        BY <3>2
      <4>2. h[k - 1] = g[k - 1]
        BY <2>1, <2>4
      <4> HIDE DEF h
      <4> QED BY <1>4, <3>2, <4>1, <4>2
    <3>3. CASE i # k
      <4>1. i \in 0..(k - 1) /\ (i # 0 => i - 1 \in 0..(k - 1))
        BY <2>1, <3>3
      <4>2. g[i] = IF i = 0 THEN <<>>
                   ELSE IF method[s[i]] = m THEN Append(g[i - 1], s[i]) ELSE g[i - 1]
        BY <2>3, <4>1 DEF IsLoop
      <4>3. h[i] = g[i] /\ (i # 0 => h[i - 1] = g[i - 1])
        BY <2>4, <4>1
      <4> HIDE DEF h
      <4> QED BY <4>2, <4>3
    <3> QED BY <3>2, <3>3
  <2> HIDE DEF h
  <2>6. IsLoop(h, s, m, k)
    BY <2>5 DEF IsLoop
  <2> QED BY <1>2, <2>6
<1> QED BY <1>3, <1>4

\* The first n places of the queue, of which q is what has method m.
IsFiltered(q, m, n) ==
  /\ q \in Seq(Requests)
  /\ \A i \in 1..Len(q) : \E k \in 1..n : q[i] = waiting[k] /\ method[waiting[k]] = m
  /\ \A i, j \in 1..Len(q) : i < j =>
       \E k, l \in 1..n : k < l /\ q[i] = waiting[k] /\ q[j] = waiting[l]

LEMMA OneMoreFiltered ==
  ASSUME waiting \in Seq(Requests), NEW m, NEW n \in 1..Len(waiting),
         NEW q, IsFiltered(q, m, n - 1), method[waiting[n]] = m
  PROVE  IsFiltered(Append(q, waiting[n]), m, n)
<1> DEFINE a == Append(q, waiting[n])
<1>1. PICK r \in Nat : r = Len(q)
  BY DEF IsFiltered
<1>2. n \in Nat /\ waiting[n] \in Requests /\ n \in 1..n
  OBVIOUS
<1>3. /\ a \in Seq(Requests) /\ Len(a) = r + 1 /\ a[r + 1] = waiting[n]
      /\ \A i \in 1..r : a[i] = q[i]
  BY <1>1, <1>2, AppendProperties DEF IsFiltered
<1> HIDE DEF a
<1>4. \A i \in 1..(r + 1) : i \in 1..r \/ i = r + 1
  BY <1>1
<1>5. \A k \in 1..(n - 1) : k \in 1..n /\ k < n
  BY <1>2
<1>6. ASSUME NEW i \in 1..(r + 1)
      PROVE  \E k \in 1..n : a[i] = waiting[k] /\ method[waiting[k]] = m
  <2>1. CASE i = r + 1
    BY <1>2, <1>3, <2>1
  <2>2. CASE i \in 1..r
    <3>1. PICK k \in 1..(n - 1) : q[i] = waiting[k] /\ method[waiting[k]] = m
      BY <1>1, <2>2 DEF IsFiltered
    <3> QED BY <1>3, <1>5, <2>2, <3>1
  <2> QED BY <1>4, <2>1, <2>2
<1>7. ASSUME NEW i \in 1..(r + 1), NEW j \in 1..(r + 1), i < j
      PROVE  \E k, l \in 1..n : k < l /\ a[i] = waiting[k] /\ a[j] = waiting[l]
  <2>1. i \in 1..r
    BY <1>1, <1>7
  <2>2. CASE j = r + 1
    <3>1. PICK k \in 1..(n - 1) : q[i] = waiting[k]
      BY <1>1, <2>1 DEF IsFiltered
    <3> QED BY <1>2, <1>3, <1>5, <2>1, <2>2, <3>1
  <2>3. CASE j \in 1..r
    <3>1. PICK k \in 1..(n - 1), l \in 1..(n - 1) : k < l /\ q[i] = waiting[k] /\ q[j] = waiting[l]
      BY <1>1, <1>7, <2>1, <2>3 DEF IsFiltered
    <3> QED BY <1>3, <1>5, <2>1, <2>3, <3>1
  <2> QED BY <1>4, <2>2, <2>3
<1>8. IsFiltered(a, m, n)
  BY <1>3, <1>6, <1>7 DEF IsFiltered
<1> QED BY <1>8 DEF a

\* What processPendingBatches takes of each method: no request twice.
LEMMA OfMethodFacts ==
  ASSUME waiting \in Seq(Requests), Distinct(waiting), NEW m
  PROVE  /\ OfMethod(m) \in Seq(Requests) /\ Distinct(OfMethod(m))
         /\ ToSet(OfMethod(m)) \subseteq {r \in ToSet(waiting) : method[r] = m}
<1>0. PICK n \in Nat : n = Len(waiting)
  OBVIOUS
<1> DEFINE g == CHOOSE f : IsLoop(f, waiting, m, n)
<1>1. OfMethod(m) = g[n]
  BY <1>0 DEF OfMethod, IsLoop
<1>2. IsLoop(g, waiting, m, n)
  BY <1>0, LoopExists
<1> HIDE DEF g
<1>3. g[0] = <<>>
  <2>1. 0 \in 0..n
    BY <1>0
  <2> QED BY <1>2, <2>1 DEF IsLoop
<1>4. \A i \in 1..n : g[i] = IF method[waiting[i]] = m THEN Append(g[i - 1], waiting[i]) ELSE g[i - 1]
  <2>1. \A i \in 1..n : i \in 0..n /\ i # 0
    BY <1>0
  <2> QED BY <1>2, <2>1 DEF IsLoop
<1>5. IsFiltered(g[0], m, 0)
  <2>1. g[0] \in Seq(Requests) /\ Len(g[0]) = 0
    BY <1>3
  <2> QED BY <2>1 DEF IsFiltered
<1>6. ASSUME NEW k \in 1..n, IsFiltered(g[k - 1], m, k - 1) PROVE IsFiltered(g[k], m, k)
  <2>1. CASE method[waiting[k]] = m
    BY <1>0, <1>4, <1>6, <2>1, OneMoreFiltered
  <2>2. CASE method[waiting[k]] # m
    <3>1. g[k] = g[k - 1]
      BY <1>4, <2>2
    <3>2. \A l \in 1..(k - 1) : l \in 1..k
      BY <1>0
    <3> QED BY <1>6, <3>1, <3>2 DEF IsFiltered
  <2> QED BY <2>1, <2>2
<1>7. IsFiltered(g[n], m, n)
  <2> DEFINE T == {k \in 0..n : ~IsFiltered(g[k], m, k)}
  <2>1. SUFFICES ASSUME T # {} PROVE FALSE
    BY <1>0
  <2>2. T \in SUBSET Nat
    BY <1>0
  <2>3. PICK k \in T : \A j \in T : k <= j
    BY <2>1, <2>2, LeastElement
  <2>4. k \in 1..n /\ k - 1 \in 0..n /\ ~(k <= k - 1)
    BY <1>0, <1>5, <2>3
  <2> QED BY <1>6, <2>3, <2>4
<1> DEFINE q == g[n]
<1>8. IsFiltered(q, m, n)
  BY <1>7
<1> HIDE DEF q
<1>9. q \in Seq(Requests)
  BY <1>8 DEF IsFiltered
<1>10. Distinct(q)
  <2>1. ASSUME NEW i \in 1..Len(q), NEW j \in 1..Len(q), i < j PROVE q[i] # q[j]
    <3>1. PICK k \in 1..n, l \in 1..n : k < l /\ q[i] = waiting[k] /\ q[j] = waiting[l]
      BY <1>8, <2>1 DEF IsFiltered
    <3>2. k # l
      BY <3>1
    <3> QED BY <1>0, <3>1, <3>2 DEF Distinct
  <2>2. \A i, j \in 1..Len(q) : i # j => i < j \/ j < i
    OBVIOUS
  <2> QED BY <2>1, <2>2 DEF Distinct
<1>11. ASSUME NEW r \in ToSet(q) PROVE r \in ToSet(waiting) /\ method[r] = m
  <2>1. PICK i \in 1..Len(q) : q[i] = r
    BY <1>9, ToSetFacts
  <2>2. PICK k \in 1..n : r = waiting[k] /\ method[waiting[k]] = m
    BY <1>8, <2>1 DEF IsFiltered
  <2> QED BY <1>0, <2>2, ToSetFacts
<1> QED BY <1>1, <1>9, <1>10, <1>11 DEF q

\* The runs of processPendingBatches.
LEMMA PendingRuns ==
  ASSUME waiting \in Seq(Requests), Distinct(waiting)
  PROVE  AreRuns(Run(OfMethod("GET")) \o Run(OfMethod("QUERY")) \o Run(OfMethod("POST")),
                 ToSet(waiting))
<1> DEFINE Q(m) == {r \in ToSet(waiting) : method[r] = m}
<1>1. \A m \in {"GET", "QUERY", "POST"} : AreRuns(Run(OfMethod(m)), Q(m))
  <2>1. ASSUME NEW m \in {"GET", "QUERY", "POST"} PROVE AreRuns(Run(OfMethod(m)), Q(m))
    <3>1. /\ OfMethod(m) \in Seq(Requests) /\ Distinct(OfMethod(m))
          /\ ToSet(OfMethod(m)) \subseteq Q(m)
      BY OfMethodFacts
    <3> QED BY <3>1, RunIsRuns, MoreMembers
  <2> QED BY <2>1
<1>2. Q("GET") \cap Q("QUERY") = {} /\ (Q("GET") \cup Q("QUERY")) \cap Q("POST") = {}
  OBVIOUS
<1>3. Q("GET") \cup Q("QUERY") \cup Q("POST") \subseteq ToSet(waiting)
  OBVIOUS
<1> HIDE DEF Q
<1>4. AreRuns(Run(OfMethod("GET")) \o Run(OfMethod("QUERY")), Q("GET") \cup Q("QUERY"))
  BY <1>1, <1>2, ConcatRuns
<1>5. AreRuns(Run(OfMethod("GET")) \o Run(OfMethod("QUERY")) \o Run(OfMethod("POST")),
              (Q("GET") \cup Q("QUERY")) \cup Q("POST"))
  BY <1>1, <1>2, <1>4, ConcatRuns
<1> QED BY <1>3, <1>5, MoreMembers

\* The runs that begin with the members of S send those that are alone.
Begun(S, runs) ==
  /\ sent' \in [Requests -> Nat]
  /\ \A r \in Requests : r \notin S => sent'[r] = sent[r]
  /\ \A r \in Requests : r \in S => sent'[r] \in {0, 1}
  /\ \A i \in 1..Len(runs) : \A r \in ToSet(runs[i].items) : sent'[r] = IsSent(runs[i].phase)

LEMMA BeginFacts ==
  ASSUME NEW S, NEW runs, AreRuns(runs, S), Begin(runs),
         sent \in [Requests -> Nat], \A r \in S : sent[r] = 0
  PROVE  Begun(S, runs)
<1> DEFINE Alone(r) == {i \in 1..Len(runs) : runs[i].items = <<r>>}
<1>1. sent' = [r \in Requests |-> sent[r] + Cardinality(Alone(r))]
  BY DEF Begin
<1>2. Cardinality({}) = 0 /\ \A i : Cardinality({i}) = 1
  BY FS_EmptySet, FS_Singleton
<1>3. \A r, i : i \in Alone(r) <=> i \in 1..Len(runs) /\ runs[i].items = <<r>>
  OBVIOUS
<1> HIDE DEF Alone
<1>4. \A i \in 1..Len(runs) : runs[i].items \in Seq(Requests)
  <2>1. runs \in Seq(Batch)
    BY DEF AreRuns
  <2>2. \A i \in 1..Len(runs) : runs[i] \in Batch
    BY <2>1
  <2> QED BY <2>2 DEF Batch
<1>5. \A r : ToSet(<<r>>) = {r} /\ Len(<<r>>) = 1
  BY DEF ToSet
<1>6. ASSUME NEW r \in Requests, r \notin S PROVE Alone(r) = {}
  <2>1. ASSUME NEW i \in Alone(r) PROVE FALSE
    <3>1. i \in 1..Len(runs) /\ runs[i].items = <<r>>
      BY <1>3
    <3>2. r \in ToSet(runs[i].items)
      BY <1>5, <3>1
    <3> QED BY <1>6, <3>1, <3>2 DEF AreRuns
  <2> QED BY <2>1
<1>7. ASSUME NEW i \in 1..Len(runs), NEW r \in ToSet(runs[i].items)
      PROVE  r \in S /\ r \in Requests /\ Alone(r) = IF runs[i].phase = "sent" THEN {i} ELSE {}
  <2>1. r \in S /\ r \in Requests
    BY <1>4, ToSetFacts DEF AreRuns
  <2>2. ASSUME NEW j \in Alone(r) PROVE j = i /\ runs[i].items = <<r>>
    <3>1. j \in 1..Len(runs) /\ r \in ToSet(runs[j].items) /\ runs[j].items = <<r>>
      <4>1. j \in 1..Len(runs) /\ runs[j].items = <<r>>
        BY <1>3
      <4> QED BY <1>5, <4>1
    <3>2. j = i
      BY <3>1 DEF AreRuns
    <3> QED BY <3>1, <3>2
  <2>3. CASE Len(runs[i].items) = 1
    <3>1. runs[i].items = <<r>>
      <4>1. PICK x \in Requests : runs[i].items = <<x>>
        <5>1. runs[i].items[1] \in Requests /\ runs[i].items = <<runs[i].items[1]>>
          BY <1>4, <2>3
        <5> QED BY <5>1
      <4> QED BY <1>5, <4>1
    <3>2. runs[i].phase = "sent"
      BY <2>3 DEF AreRuns
    <3> QED BY <1>3, <2>1, <2>2, <3>1, <3>2
  <2>4. CASE Len(runs[i].items) # 1
    <3>1. Alone(r) = {}
      BY <1>5, <2>2, <2>4
    <3>2. runs[i].phase = "preparing"
      BY <2>4 DEF AreRuns
    <3> QED BY <2>1, <3>1, <3>2
  <2> QED BY <2>3, <2>4
<1>8. ASSUME NEW r \in Requests, r \in S PROVE Cardinality(Alone(r)) \in {0, 1}
  <2>1. CASE Alone(r) = {}
    BY <1>2, <2>1
  <2>2. CASE Alone(r) # {}
    <3>1. PICK i \in Alone(r) : TRUE
      BY <2>2
    <3>2. i \in 1..Len(runs) /\ runs[i].items = <<r>>
      BY <1>3, <3>1
    <3>3. r \in ToSet(runs[i].items)
      BY <1>5, <3>2
    <3> QED BY <1>2, <1>7, <3>2, <3>3
  <2> QED BY <2>1, <2>2
<1>9. \A r \in Requests : Cardinality(Alone(r)) \in {0, 1}
  BY <1>2, <1>6, <1>8
<1>10. \A r \in Requests : sent'[r] = sent[r] + Cardinality(Alone(r))
  BY <1>1
<1>11. sent' \in [Requests -> Nat]
  BY <1>1, <1>9
<1>12. ASSUME NEW r \in Requests, r \notin S PROVE sent'[r] = sent[r]
  BY <1>2, <1>6, <1>10, <1>12
<1>13. ASSUME NEW r \in Requests, r \in S PROVE sent'[r] \in {0, 1}
  BY <1>8, <1>10, <1>13
<1>14. ASSUME NEW i \in 1..Len(runs), NEW r \in ToSet(runs[i].items)
       PROVE  sent'[r] = IsSent(runs[i].phase)
  <2>1. r \in Requests /\ sent[r] = 0
    BY <1>7
  <2>2. runs[i].phase \in {"sent", "preparing"}
    BY DEF AreRuns
  <2>3. CASE runs[i].phase = "sent"
    <3>1. Cardinality(Alone(r)) = 1
      BY <1>2, <1>7, <2>3
    <3> QED BY <1>10, <2>1, <2>3, <3>1 DEF IsSent
  <2>4. CASE runs[i].phase = "preparing"
    <3>1. Cardinality(Alone(r)) = 0
      BY <1>2, <1>7, <2>4
    <3>2. sent'[r] = 0
      <4>1. sent'[r] = sent[r] + Cardinality(Alone(r))
        BY <1>10, <2>1
      <4> QED BY <2>1, <3>1, <4>1
    <3>3. IsSent(runs[i].phase) = 0
      BY <2>4 DEF IsSent
    <3> QED BY <3>2, <3>3
  <2> QED BY <2>2, <2>3, <2>4
<1> QED BY <1>11, <1>12, <1>13, <1>14 DEF Begun

LEMMA ItemsFacts ==
  ASSUME BatchInv
  PROVE  \A b \in 1..Len(batches) : batches[b] \in Batch /\ Items(b) \in Seq(Requests)
<1>1. batches \in Seq(Batch)
  BY DEF BatchInv, BatchTypes
<1>2. \A b \in 1..Len(batches) : batches[b] \in Batch
  BY <1>1
<1> QED BY <1>2 DEF Batch, Items

\* The runs of S are added to batches that have none of it left, in the queue neither.
LEMMA AddRunsKeeps ==
  ASSUME BatchInv, NEW S \in SUBSET Requests, NEW old \in Seq(Batch), NEW runs, AreRuns(runs, S),
         Begin(runs), batches' = old \o runs,
         Len(old) = Len(batches),
         \A b \in 1..Len(old) :
           /\ old[b].items = Items(b) /\ old[b].cut = batches[b].cut
           /\ old[b].phase # "split" =>
                old[b].phase = batches[b].phase /\ ToSet(Items(b)) \cap S = {},
         \A r \in S : sent[r] = 0 /\ answer[r] # "none" /\ r \notin ToSet(waiting'),
         waiting' = waiting \/ waiting' = <<>>,
         deferred' \in Nat, UNCHANGED <<method, given, answer>>
  PROVE  BatchInv'
<1>1. PICK m \in Nat, n \in Nat : m = Len(old) /\ n = Len(runs)
  BY DEF AreRuns
<1>2. /\ batches' \in Seq(Batch) /\ Len(batches') = m + n
      /\ \A i \in 1..(m + n) : batches'[i] = IF i <= m THEN old[i] ELSE runs[i - m]
  <2>1. runs \in Seq(Batch)
    BY DEF AreRuns
  <2>2. Joined(old \o runs, old, runs)
    BY <2>1, JoinedFacts
  <2> QED BY <1>1, <2>2 DEF Joined
<1>3. \A i \in 1..(m + n) : \/ i \in 1..m /\ batches'[i] = old[i]
                            \/ i - m \in 1..n /\ batches'[i] = runs[i - m]
  BY <1>1, <1>2
<1>4. /\ method \in [Requests -> {"GET", "QUERY", "POST"}]
      /\ waiting \in Seq(Requests) /\ given \subseteq Requests
      /\ answer \in [Requests -> {"none", "pending", "response", "error"}]
      /\ sent \in [Requests -> Nat]
      /\ \A b \in 1..Len(batches) : Items(b) \in Seq(Requests)
  BY ItemsFacts DEF BatchInv, BatchTypes
<1>5. /\ sent' \in [Requests -> Nat]
      /\ \A r \in Requests : r \notin S => sent'[r] = sent[r]
      /\ \A r \in Requests : r \in S => sent'[r] \in {0, 1}
      /\ \A i \in 1..Len(runs) : \A r \in ToSet(runs[i].items) : sent'[r] = IsSent(runs[i].phase)
  <2>1. Begun(S, runs)
    BY <1>4, BeginFacts
  <2> QED BY <2>1 DEF Begun
<1>6. ToSet(waiting') \subseteq ToSet(waiting) /\ waiting' \in Seq(Requests)
  <2>1. ToSet(<<>>) = {} /\ <<>> \in Seq(Requests)
    BY DEF ToSet
  <2> QED BY <1>4, <2>1
<1>7. BatchTypes'
  BY <1>2, <1>4, <1>5, <1>6 DEF BatchTypes
<1>8. WaitingOnce'
  <2>1. Distinct(waiting')
    <3>1. Distinct(<<>>)
      BY DEF Distinct
    <3> QED BY <3>1 DEF BatchInv, WaitingOnce
  <2>2. ASSUME NEW r \in ToSet(waiting') PROVE answer'[r] = "pending" /\ sent'[r] = 0
    <3>1. r \in ToSet(waiting) /\ r \notin S /\ r \in Requests
      BY <1>6, <2>2, ToSetFacts
    <3>2. answer[r] = "pending" /\ sent[r] = 0
      BY <3>1 DEF BatchInv, WaitingOnce
    <3> QED BY <1>5, <3>1, <3>2
  <2> QED BY <2>1, <2>2 DEF WaitingOnce, Distinct
<1>9. ASSUME NEW i \in 1..(m + n), batches'[i].phase # "split", i \in 1..m, batches'[i] = old[i]
      PROVE  /\ batches'[i].items = Items(i) /\ batches'[i].phase = batches[i].phase
             /\ i \in 1..Len(batches) /\ batches[i].phase # "split"
             /\ ToSet(Items(i)) \cap S = {}
  BY <1>1, <1>9
<1>10. ASSUME NEW i \in 1..(m + n), i - m \in 1..n, batches'[i] = runs[i - m]
       PROVE  \E k \in 1..Len(runs) : k = i - m /\ batches'[i] = runs[k]
  BY <1>1, <1>10
<1>11. BatchesAgree'
  <2>1. ASSUME NEW i \in 1..(m + n), batches'[i].phase # "split"
        PROVE  /\ batches'[i].items # <<>> /\ Distinct(batches'[i].items)
               /\ \A r \in ToSet(batches'[i].items) :
                    answer[r] # "none" /\ r \notin ToSet(waiting') /\ sent'[r] = IsSent(batches'[i].phase)
    <3>1. CASE i \in 1..m /\ batches'[i] = old[i]
      <4>1. /\ batches'[i].items = Items(i) /\ batches'[i].phase = batches[i].phase
            /\ i \in 1..Len(batches) /\ batches[i].phase # "split"
            /\ ToSet(Items(i)) \cap S = {}
        BY <1>9, <2>1, <3>1
      <4>2. /\ Items(i) # <<>> /\ Distinct(Items(i))
            /\ \A r \in ToSet(Items(i)) :
                 answer[r] # "none" /\ r \notin ToSet(waiting) /\ sent[r] = IsSent(batches[i].phase)
        BY <4>1 DEF BatchInv, BatchesAgree
      <4>3. \A r \in ToSet(Items(i)) : r \in Requests /\ r \notin S
        BY <1>4, <4>1, ToSetFacts
      <4>4. \A r \in ToSet(Items(i)) : sent'[r] = sent[r]
        BY <1>5, <4>3
      <4> QED BY <1>6, <4>1, <4>2, <4>4
    <3>2. CASE i - m \in 1..n /\ batches'[i] = runs[i - m]
      <4>1. PICK k \in 1..Len(runs) : batches'[i] = runs[k]
        BY <1>10, <3>2
      <4>2. runs[k].items # <<>> /\ Distinct(runs[k].items) /\ ToSet(runs[k].items) \subseteq S
        BY DEF AreRuns
      <4>3. \A r \in ToSet(runs[k].items) : sent'[r] = IsSent(runs[k].phase)
        BY <1>1, <1>5
      <4> QED BY <4>1, <4>2, <4>3
    <3> QED BY <1>3, <3>1, <3>2
  <2>2. answer' = answer
    OBVIOUS
  <2> QED BY <1>2, <2>1, <2>2 DEF BatchesAgree, Items, Distinct
<1>12. BatchesAreApart'
  <2>1. ASSUME NEW i \in 1..(m + n), NEW j \in 1..(m + n), i # j,
               batches'[i].phase # "split", batches'[j].phase # "split"
        PROVE  ToSet(batches'[i].items) \cap ToSet(batches'[j].items) = {}
    <3>1. CASE i \in 1..m /\ batches'[i] = old[i] /\ j \in 1..m /\ batches'[j] = old[j]
      BY <1>9, <2>1, <3>1 DEF BatchInv, BatchesAreApart
    <3>2. CASE i \in 1..m /\ batches'[i] = old[i] /\ j - m \in 1..n /\ batches'[j] = runs[j - m]
      <4>1. batches'[i].items = Items(i) /\ ToSet(Items(i)) \cap S = {}
        BY <1>9, <2>1, <3>2
      <4>2. ToSet(batches'[j].items) \subseteq S
        BY <1>10, <3>2 DEF AreRuns
      <4> QED BY <4>1, <4>2
    <3>3. CASE i - m \in 1..n /\ batches'[i] = runs[i - m] /\ j \in 1..m /\ batches'[j] = old[j]
      <4>1. batches'[j].items = Items(j) /\ ToSet(Items(j)) \cap S = {}
        BY <1>9, <2>1, <3>3
      <4>2. ToSet(batches'[i].items) \subseteq S
        BY <1>10, <3>3 DEF AreRuns
      <4> QED BY <4>1, <4>2
    <3>4. CASE i - m \in 1..n /\ batches'[i] = runs[i - m] /\ j - m \in 1..n /\ batches'[j] = runs[j - m]
      <4>1. PICK k \in 1..Len(runs) : k = i - m /\ batches'[i] = runs[k]
        BY <1>10, <3>4
      <4>2. PICK l \in 1..Len(runs) : l = j - m /\ batches'[j] = runs[l]
        BY <1>10, <3>4
      <4>3. k # l
        BY <1>1, <2>1, <4>1, <4>2
      <4> QED BY <4>1, <4>2, <4>3 DEF AreRuns
    <3> QED BY <1>3, <3>1, <3>2, <3>3, <3>4
  <2> QED BY <1>2, <2>1 DEF BatchesAreApart, Items
<1>13. AnswersAreSent'
  <2>1. ASSUME NEW r \in Requests
        PROVE  /\ sent'[r] \in {0, 1}
               /\ answer[r] = "none" => sent'[r] = 0
               /\ answer[r] \in {"response", "error"} /\ r \notin given => sent'[r] = 1
    <3>1. /\ sent[r] \in {0, 1}
          /\ answer[r] = "none" => sent[r] = 0
          /\ answer[r] \in {"response", "error"} /\ r \notin given => sent[r] = 1
      BY DEF BatchInv, AnswersAreSent
    <3>2. CASE r \in S
      BY <1>5, <3>1, <3>2
    <3>3. CASE r \notin S
      BY <1>5, <3>1, <3>3
    <3> QED BY <3>2, <3>3
  <2>2. answer' = answer /\ given' = given
    OBVIOUS
  <2> QED BY <2>1, <2>2 DEF AnswersAreSent
<1>14. CutIsAgreed'
  <2>1. ASSUME NEW i \in 1..(m + n), batches'[i].cut PROVE ToSet(batches'[i].items) \subseteq given
    <3>1. CASE i \in 1..m /\ batches'[i] = old[i]
      <4>1. i \in 1..Len(batches) /\ batches'[i].items = Items(i) /\ batches[i].cut
        BY <1>1, <2>1, <3>1
      <4> QED BY <4>1 DEF BatchInv, CutIsAgreed
    <3>2. CASE i - m \in 1..n /\ batches'[i] = runs[i - m]
      BY <1>10, <2>1, <3>2 DEF AreRuns
    <3> QED BY <1>3, <3>1, <3>2
  <2> QED BY <1>2, <2>1 DEF CutIsAgreed, Items
<1> QED BY <1>7, <1>8, <1>11, <1>12, <1>13, <1>14 DEF BatchInv

\* A batch moves on, and it is sent or answered with it: nothing else changes.
LEMMA MoveKeeps ==
  ASSUME BatchInv, NEW b \in 1..Len(batches), batches[b].phase # "split",
         NEW phase \in {"preparing", "starved", "checking", "sent", "reading", "done"},
         batches' = Moved(b, phase),
         sent' \in [Requests -> Nat],
         answer' \in [Requests -> {"none", "pending", "response", "error"}],
         \A r \in Requests : r \notin ToSet(Items(b)) => sent'[r] = sent[r] /\ answer'[r] = answer[r],
         \A r \in ToSet(Items(b)) :
           /\ sent'[r] = IsSent(phase) /\ answer'[r] # "none"
           /\ answer'[r] \in {"response", "error"} /\ r \notin given => sent'[r] = 1,
         UNCHANGED <<method, waiting, deferred, given>>
  PROVE  BatchInv'
<1>1. /\ batches \in Seq(Batch) /\ waiting \in Seq(Requests)
      /\ \A c \in 1..Len(batches) : batches[c] \in Batch /\ Items(c) \in Seq(Requests)
  BY ItemsFacts DEF BatchInv, BatchTypes
<1>2. PICK n \in Nat : n = Len(batches)
  BY <1>1
<1>3. [batches[b] EXCEPT !.phase = phase] \in Batch
  BY <1>1 DEF Batch
<1>4. /\ batches' \in Seq(Batch) /\ Len(batches') = n
      /\ batches'[b] = [batches[b] EXCEPT !.phase = phase]
      /\ \A c \in 1..n : c # b => batches'[c] = batches[c]
  BY <1>1, <1>2, <1>3 DEF Moved
<1>5. /\ batches'[b].items = Items(b) /\ batches'[b].cut = batches[b].cut
      /\ batches'[b].phase = phase /\ phase # "split"
  BY <1>1, <1>4 DEF Batch, Items
<1>6. \A c \in 1..n : batches'[c].items = Items(c) /\ batches'[c].cut = batches[c].cut
  BY <1>4, <1>5 DEF Items
<1>7. \A r \in ToSet(waiting) : r \in Requests /\ r \notin ToSet(Items(b))
  BY <1>1, ToSetFacts DEF BatchInv, BatchesAgree
<1>8. \A c \in 1..n : c # b /\ batches[c].phase # "split" =>
        \A r \in ToSet(Items(c)) : r \in Requests /\ r \notin ToSet(Items(b))
  <2>1. ASSUME NEW c \in 1..n, c # b, batches[c].phase # "split", NEW r \in ToSet(Items(c))
        PROVE  r \in Requests /\ r \notin ToSet(Items(b))
    <3>1. ToSet(Items(c)) \cap ToSet(Items(b)) = {}
      BY <1>2, <2>1 DEF BatchInv, BatchesAreApart
    <3> QED BY <1>1, <1>2, <2>1, <3>1, ToSetFacts
  <2> QED BY <2>1
<1>9. BatchTypes'
  BY <1>4 DEF BatchInv, BatchTypes
<1>10. WaitingOnce'
  <2>1. \A r \in ToSet(waiting) : answer'[r] = "pending" /\ sent'[r] = 0
    BY <1>7 DEF BatchInv, WaitingOnce
  <2> QED BY <2>1 DEF BatchInv, WaitingOnce, Distinct
<1>11. BatchesAgree'
  <2>1. ASSUME NEW c \in 1..n, batches'[c].phase # "split"
        PROVE  /\ Items(c) # <<>> /\ Distinct(Items(c))
               /\ \A r \in ToSet(Items(c)) :
                    answer'[r] # "none" /\ r \notin ToSet(waiting) /\ sent'[r] = IsSent(batches'[c].phase)
    <3>1. batches[c].phase # "split"
      BY <1>4, <2>1
    <3>2. /\ Items(c) # <<>> /\ Distinct(Items(c))
          /\ \A r \in ToSet(Items(c)) :
               answer[r] # "none" /\ r \notin ToSet(waiting) /\ sent[r] = IsSent(batches[c].phase)
      BY <1>2, <3>1 DEF BatchInv, BatchesAgree
    <3>3. CASE c = b
      BY <1>5, <3>2, <3>3
    <3>4. CASE c # b
      BY <1>4, <1>8, <3>1, <3>2, <3>4
    <3> QED BY <3>3, <3>4
  <2>2. waiting' = waiting
    OBVIOUS
  <2>3. \A c \in 1..n : Items(c)' = Items(c)
    BY <1>6 DEF Items
  <2> QED BY <1>4, <2>1, <2>2, <2>3 DEF BatchesAgree, Distinct
<1>12. BatchesAreApart'
  <2>1. \A c \in 1..n : batches'[c].phase # "split" => batches[c].phase # "split"
    BY <1>4
  <2>2. \A c \in 1..n : Items(c)' = Items(c)
    BY <1>6 DEF Items
  <2> QED BY <1>2, <1>4, <2>1, <2>2 DEF BatchInv, BatchesAreApart
<1>13. AnswersAreSent'
  <2>1. ASSUME NEW r \in Requests
        PROVE  /\ sent'[r] \in {0, 1}
               /\ answer'[r] = "none" => sent'[r] = 0
               /\ answer'[r] \in {"response", "error"} /\ r \notin given => sent'[r] = 1
    <3>1. CASE r \in ToSet(Items(b))
      BY <3>1 DEF IsSent
    <3>2. CASE r \notin ToSet(Items(b))
      BY <3>2 DEF BatchInv, AnswersAreSent
    <3> QED BY <3>1, <3>2
  <2> QED BY <2>1 DEF AnswersAreSent
<1>14. CutIsAgreed'
  <2>1. given' = given
    OBVIOUS
  <2> QED BY <1>2, <1>4, <1>6, <2>1 DEF BatchInv, CutIsAgreed, Items
<1> QED BY <1>9, <1>10, <1>11, <1>12, <1>13, <1>14 DEF BatchInv

\* What is known of a batch that was not split.
LEMMA LiveFacts ==
  ASSUME BatchInv, NEW b \in 1..Len(batches), batches[b].phase # "split"
  PROVE  \A r \in ToSet(Items(b)) :
           /\ r \in Requests /\ answer[r] \in {"pending", "response", "error"}
           /\ sent[r] = IsSent(batches[b].phase)
           /\ answer[r] \in {"response", "error"} /\ r \notin given => sent[r] = 1
<1>1. ASSUME NEW r \in ToSet(Items(b))
      PROVE  /\ r \in Requests /\ answer[r] \in {"pending", "response", "error"}
             /\ sent[r] = IsSent(batches[b].phase)
             /\ answer[r] \in {"response", "error"} /\ r \notin given => sent[r] = 1
  <2>1. r \in Requests
    BY ItemsFacts, ToSetFacts
  <2>2. answer[r] \in {"none", "pending", "response", "error"}
    BY <2>1 DEF BatchInv, BatchTypes
  <2>3. answer[r] # "none" /\ sent[r] = IsSent(batches[b].phase)
    BY DEF BatchInv, BatchesAgree
  <2> QED BY <2>1, <2>2, <2>3 DEF BatchInv, AnswersAreSent
<1> QED BY <1>1

LEMMA SettledFacts ==
  ASSUME BatchTypes, NEW requests, NEW how \in {"response", "error"}, answer' = Settled(requests, how)
  PROVE  /\ answer' \in [Requests -> {"none", "pending", "response", "error"}]
         /\ \A r \in Requests : /\ r \in requests => answer'[r] = how
                                /\ r \notin requests => answer'[r] = answer[r]
BY DEF BatchTypes, Settled

LEMMA CalledFacts ==
  ASSUME BatchInv, NEW b \in 1..Len(batches), batches[b].phase # "split", sent' = Called(b),
         IsSent(batches[b].phase) = 0
  PROVE  /\ sent' \in [Requests -> Nat]
         /\ \A r \in Requests : r \notin ToSet(Items(b)) => sent'[r] = sent[r]
         /\ \A r \in ToSet(Items(b)) : sent'[r] = 1
<1>1. sent \in [Requests -> Nat]
  BY DEF BatchInv, BatchTypes
<1>2. \A r \in ToSet(Items(b)) : r \in Requests /\ sent[r] = 0
  BY LiveFacts
<1> QED BY <1>1, <1>2 DEF Called

LEMMA RequestKeeps ==
  ASSUME BatchInv, NEW r \in Requests, Request(r)
  PROVE  BatchInv'
<1>1. /\ answer[r] = "none" /\ answer' = [answer EXCEPT ![r] = "pending"]
      /\ waiting' = Append(waiting, r) /\ deferred' = deferred + 1
      /\ UNCHANGED <<method, batches, given, sent>>
  BY DEF Request
<1>2. /\ waiting \in Seq(Requests) /\ answer \in [Requests -> {"none", "pending", "response", "error"}]
  BY DEF BatchInv, BatchTypes
<1>3. answer'[r] = "pending" /\ \A q \in Requests : q # r => answer'[q] = answer[q]
  BY <1>1, <1>2
<1>4. PICK n \in Nat : n = Len(waiting)
  BY <1>2
<1>5. /\ waiting' \in Seq(Requests) /\ Len(waiting') = n + 1 /\ waiting'[n + 1] = r
      /\ \A i \in 1..n : waiting'[i] = waiting[i]
  BY <1>1, <1>2, <1>4, AppendProperties
<1>6. ToSet(waiting') = ToSet(waiting) \cup {r}
  BY <1>1, <1>2, ToSetOfAppend
<1>7. r \notin ToSet(waiting) /\ sent[r] = 0
  <2>1. r \notin ToSet(waiting)
    BY <1>1 DEF BatchInv, WaitingOnce
  <2> QED BY <1>1, <2>1 DEF BatchInv, AnswersAreSent
<1>8. \A i \in 1..n : waiting[i] # r
  BY <1>2, <1>4, <1>7, ToSetFacts
<1>9. BatchTypes'
  <2>1. answer' \in [Requests -> {"none", "pending", "response", "error"}]
    BY <1>1, <1>2
  <2> QED BY <1>1, <1>5, <2>1 DEF BatchInv, BatchTypes
<1>10. WaitingOnce'
  <2>1. Distinct(waiting')
    <3>1. \A i \in 1..(n + 1) : i \in 1..n \/ i = n + 1
      BY <1>4
    <3>2. \A i, j \in 1..n : i # j => waiting[i] # waiting[j]
      BY <1>4 DEF BatchInv, WaitingOnce, Distinct
    <3> QED BY <1>5, <1>8, <3>1, <3>2 DEF Distinct
  <2>2. ASSUME NEW q \in ToSet(waiting') PROVE answer'[q] = "pending" /\ sent[q] = 0
    <3>1. CASE q = r
      BY <1>3, <1>7, <3>1
    <3>2. CASE q # r
      <4>1. q \in ToSet(waiting) /\ q \in Requests
        BY <1>2, <1>6, <3>2, ToSetFacts
      <4> QED BY <1>3, <3>2, <4>1 DEF BatchInv, WaitingOnce
    <3> QED BY <3>1, <3>2
  <2> QED BY <1>1, <2>1, <2>2 DEF WaitingOnce, Distinct
<1>11. BatchesAgree'
  <2>1. ASSUME NEW b \in 1..Len(batches), batches[b].phase # "split"
        PROVE  /\ Items(b) # <<>> /\ Distinct(Items(b))
               /\ \A q \in ToSet(Items(b)) :
                    answer'[q] # "none" /\ q \notin ToSet(waiting') /\ sent[q] = IsSent(batches[b].phase)
    <3>1. /\ Items(b) # <<>> /\ Distinct(Items(b))
          /\ \A q \in ToSet(Items(b)) :
               answer[q] # "none" /\ q \notin ToSet(waiting) /\ sent[q] = IsSent(batches[b].phase)
      BY <2>1 DEF BatchInv, BatchesAgree
    <3>2. \A q \in ToSet(Items(b)) : q \in Requests /\ q # r
      BY <1>1, <2>1, LiveFacts
    <3> QED BY <1>3, <1>6, <3>1, <3>2
  <2> QED BY <1>1, <2>1 DEF BatchesAgree, Items, Distinct
<1>12. BatchesAreApart'
  BY <1>1 DEF BatchInv, BatchesAreApart, Items
<1>13. AnswersAreSent'
  <2>1. ASSUME NEW q \in Requests
        PROVE  /\ sent[q] \in {0, 1}
               /\ answer'[q] = "none" => sent[q] = 0
               /\ answer'[q] \in {"response", "error"} /\ q \notin given => sent[q] = 1
    BY <1>3 DEF BatchInv, AnswersAreSent
  <2> QED BY <1>1, <2>1 DEF AnswersAreSent
<1>14. CutIsAgreed'
  BY <1>1 DEF BatchInv, CutIsAgreed, Items
<1> QED BY <1>9, <1>10, <1>11, <1>12, <1>13, <1>14 DEF BatchInv

\* The queue is processed.
LEMMA ProcessPendingKeeps ==
  ASSUME BatchInv, ProcessPending
  PROVE  BatchInv'
<1> DEFINE runs == Run(OfMethod("GET")) \o Run(OfMethod("QUERY")) \o Run(OfMethod("POST"))
<1>1. /\ deferred > 0 /\ deferred' = deferred - 1 /\ waiting' = <<>>
      /\ batches' = batches \o runs /\ Begin(runs)
      /\ UNCHANGED <<method, given, answer>>
  BY DEF ProcessPending
<1>2. /\ waiting \in Seq(Requests) /\ Distinct(waiting) /\ deferred \in Nat
      /\ batches \in Seq(Batch)
  BY DEF BatchInv, BatchTypes, WaitingOnce
<1> DEFINE S == ToSet(waiting)
<1>3. AreRuns(runs, S)
  BY <1>2, PendingRuns
<1> HIDE DEF runs
<1>4. S \in SUBSET Requests
  BY <1>2, ToSetFacts
<1>5. \A b \in 1..Len(batches) :
        /\ batches[b].items = Items(b) /\ batches[b].cut = batches[b].cut
        /\ batches[b].phase # "split" =>
             batches[b].phase = batches[b].phase /\ ToSet(Items(b)) \cap S = {}
  <2>1. ASSUME NEW b \in 1..Len(batches), batches[b].phase # "split" PROVE ToSet(Items(b)) \cap S = {}
    BY <2>1 DEF BatchInv, BatchesAgree
  <2> QED BY <2>1 DEF Items
<1>6. \A r \in S : sent[r] = 0 /\ answer[r] # "none" /\ r \notin ToSet(waiting')
  <2>1. ToSet(waiting') = {}
    BY <1>1 DEF ToSet
  <2>2. \A r \in S : sent[r] = 0 /\ answer[r] = "pending"
    BY DEF BatchInv, WaitingOnce
  <2> QED BY <2>1, <2>2
<1>7. deferred' \in Nat
  BY <1>1, <1>2
<1> HIDE DEF S
<1> QED BY <1>1, <1>2, <1>3, <1>4, <1>5, <1>6, <1>7, AddRunsKeeps

\* A batch that is not sent yet is split in halves.
LEMMA SplitKeeps ==
  ASSUME BatchInv, NEW b \in 1..Len(batches), batches[b].phase \in {"preparing", "checking"},
         Split(b), UNCHANGED <<method, waiting, deferred, given, answer>>
  PROVE  BatchInv'
<1> DEFINE runs == RunHalves(Items(b))
<1> DEFINE old == Moved(b, "split")
<1> DEFINE S == ToSet(Items(b))
<1>1. batches' = old \o runs /\ Begin(runs)
  BY DEF Split
<1>2. /\ batches \in Seq(Batch) /\ deferred \in Nat
      /\ \A c \in 1..Len(batches) : batches[c] \in Batch /\ Items(c) \in Seq(Requests)
  BY ItemsFacts DEF BatchInv, BatchTypes
<1>3. batches[b].phase # "split" /\ IsSent(batches[b].phase) = 0
  BY DEF IsSent
<1>4. AreRuns(runs, S)
  <2>1. Distinct(Items(b))
    BY <1>3 DEF BatchInv, BatchesAgree
  <2> QED BY <1>2, <2>1, HalvesAreRuns
<1>5. S \in SUBSET Requests
  BY <1>2, ToSetFacts
<1>6. /\ old \in Seq(Batch) /\ Len(old) = Len(batches)
      /\ old[b] = [batches[b] EXCEPT !.phase = "split"]
      /\ \A c \in 1..Len(batches) : c # b => old[c] = batches[c]
  <2>1. [batches[b] EXCEPT !.phase = "split"] \in Batch
    BY <1>2 DEF Batch
  <2> QED BY <1>2, <2>1 DEF Moved
<1> HIDE DEF old, runs
<1>7. old[b].items = Items(b) /\ old[b].cut = batches[b].cut /\ old[b].phase = "split"
  BY <1>2, <1>6 DEF Batch, Items
<1>8. \A c \in 1..Len(old) :
        /\ old[c].items = Items(c) /\ old[c].cut = batches[c].cut
        /\ old[c].phase # "split" =>
             old[c].phase = batches[c].phase /\ ToSet(Items(c)) \cap S = {}
  <2>1. ASSUME NEW c \in 1..Len(batches), c # b, batches[c].phase # "split"
        PROVE  ToSet(Items(c)) \cap S = {}
    BY <1>3, <2>1 DEF BatchInv, BatchesAreApart
  <2> QED BY <1>6, <1>7, <2>1 DEF Items
<1>9. \A r \in S : sent[r] = 0 /\ answer[r] # "none" /\ r \notin ToSet(waiting')
  <2>1. \A r \in S : answer[r] # "none" /\ r \notin ToSet(waiting) /\ sent[r] = 0
    BY <1>3 DEF BatchInv, BatchesAgree
  <2> QED BY <2>1
<1>10. deferred' \in Nat
  BY <1>2
<1> HIDE DEF S
<1> QED BY <1>1, <1>4, <1>5, <1>6, <1>8, <1>9, <1>10, AddRunsKeeps

LEMMA OpenPeerKeeps ==
  ASSUME BatchInv, NEW b \in 1..Len(batches), OpenPeer(b)
  PROVE  BatchInv'
<1>1. /\ batches[b].phase = "preparing"
      /\ answer' = Settled(Unsettled(b) \cap given, "error")
      /\ UNCHANGED <<method, waiting, deferred, given>>
  BY DEF OpenPeer, InPhase
<1>2. \A r \in ToSet(Items(b)) :
        /\ r \in Requests /\ answer[r] \in {"pending", "response", "error"} /\ sent[r] = 0
        /\ answer[r] \in {"response", "error"} /\ r \notin given => sent[r] = 1
  BY <1>1, LiveFacts DEF IsSent
<1>3. /\ answer' \in [Requests -> {"none", "pending", "response", "error"}]
      /\ \A r \in Requests : /\ r \in Unsettled(b) \cap given => answer'[r] = "error"
                             /\ r \notin Unsettled(b) \cap given => answer'[r] = answer[r]
  BY <1>1, SettledFacts DEF BatchInv
<1>4. \A r \in Requests : r \notin ToSet(Items(b)) => answer'[r] = answer[r]
  BY <1>3 DEF Unsettled
<1>5. \A r \in ToSet(Items(b)) : answer'[r] # "none" /\ (answer'[r] \in {"response", "error"} => r \in given)
  BY <1>2, <1>3
<1>6. sent \in [Requests -> Nat]
  BY DEF BatchInv, BatchTypes
<1>7. \/ batches' = Moved(b, "starved") /\ UNCHANGED sent
      \/ batches' = Moved(b, "checking") /\ UNCHANGED sent
      \/ batches' = Moved(b, "sent") /\ sent' = Called(b)
  BY DEF OpenPeer
<1>8. CASE batches' = Moved(b, "starved") /\ UNCHANGED sent
  <2>1. \A r \in ToSet(Items(b)) : sent'[r] = IsSent("starved")
    BY <1>2, <1>8 DEF IsSent
  <2> QED BY <1>1, <1>3, <1>4, <1>5, <1>6, <1>8, <2>1, MoveKeeps
<1>9. CASE batches' = Moved(b, "checking") /\ UNCHANGED sent
  <2>1. \A r \in ToSet(Items(b)) : sent'[r] = IsSent("checking")
    BY <1>2, <1>9 DEF IsSent
  <2> QED BY <1>1, <1>3, <1>4, <1>5, <1>6, <1>9, <2>1, MoveKeeps
<1>10. CASE batches' = Moved(b, "sent") /\ sent' = Called(b)
  <2>1. /\ sent' \in [Requests -> Nat]
        /\ \A r \in Requests : r \notin ToSet(Items(b)) => sent'[r] = sent[r]
        /\ \A r \in ToSet(Items(b)) : sent'[r] = 1
    BY <1>1, <1>10, CalledFacts DEF IsSent
  <2>2. \A r \in ToSet(Items(b)) : sent'[r] = IsSent("sent")
    BY <2>1 DEF IsSent
  <2> QED BY <1>1, <1>3, <1>4, <1>5, <1>10, <2>1, <2>2, MoveKeeps
<1> QED BY <1>7, <1>8, <1>9, <1>10

LEMMA SendKeeps ==
  ASSUME BatchInv, NEW b \in 1..Len(batches), Send(b)
  PROVE  BatchInv'
<1>1. /\ batches[b].phase = "checking"
      /\ batches' = Moved(b, "sent") /\ sent' = Called(b)
      /\ UNCHANGED <<method, waiting, deferred, given, answer>>
  BY DEF Send, MaySend, InPhase
<1>2. /\ sent' \in [Requests -> Nat]
      /\ \A r \in Requests : r \notin ToSet(Items(b)) => sent'[r] = sent[r]
      /\ \A r \in ToSet(Items(b)) : sent'[r] = 1
  BY <1>1, CalledFacts DEF IsSent
<1>3. \A r \in ToSet(Items(b)) : sent'[r] = IsSent("sent")
  BY <1>2 DEF IsSent
<1>4. answer \in [Requests -> {"none", "pending", "response", "error"}]
  BY DEF BatchInv, BatchTypes
<1>5. \A r \in ToSet(Items(b)) : answer[r] # "none"
  BY <1>1, LiveFacts
<1> QED BY <1>1, <1>2, <1>3, <1>4, <1>5, MoveKeeps

\* What was sent is answered, all of it or one member.
LEMMA AnsweredKeeps ==
  ASSUME BatchInv, NEW b \in 1..Len(batches), batches[b].phase \in {"sent", "reading"},
         NEW phase \in {"reading", "done"}, batches' = Moved(b, phase),
         answer' \in [Requests -> {"none", "pending", "response", "error"}],
         \A r \in Requests : r \notin ToSet(Items(b)) => answer'[r] = answer[r],
         \A r \in ToSet(Items(b)) : answer'[r] # "none",
         UNCHANGED <<method, waiting, deferred, given, sent>>
  PROVE  BatchInv'
<1>1. batches[b].phase # "split" /\ IsSent(batches[b].phase) = 1 /\ IsSent(phase) = 1
  BY DEF IsSent
<1>2. \A r \in ToSet(Items(b)) : r \in Requests /\ sent[r] = 1
  BY <1>1, LiveFacts
<1>3. sent \in [Requests -> Nat]
  BY DEF BatchInv, BatchTypes
<1>4. \A r \in ToSet(Items(b)) : sent'[r] = IsSent(phase) /\ sent'[r] = 1
  BY <1>1, <1>2
<1> QED BY <1>1, <1>3, <1>4, MoveKeeps

LEMMA FailKeeps ==
  ASSUME BatchInv, NEW b \in 1..Len(batches), Fail(b)
  PROVE  BatchInv'
<1>1. /\ batches[b].phase \in {"sent", "reading"} /\ batches' = Moved(b, "done")
      /\ answer' = Settled(Unsettled(b), "error")
      /\ UNCHANGED <<method, waiting, deferred, given, sent>>
  BY DEF Fail, InPhase
<1>2. /\ answer' \in [Requests -> {"none", "pending", "response", "error"}]
      /\ \A r \in Requests : /\ r \in Unsettled(b) => answer'[r] = "error"
                             /\ r \notin Unsettled(b) => answer'[r] = answer[r]
  BY <1>1, SettledFacts DEF BatchInv
<1>3. \A r \in ToSet(Items(b)) : r \in Requests /\ answer[r] # "none"
  BY <1>1, LiveFacts
<1>4. \A r \in Requests : r \notin ToSet(Items(b)) => answer'[r] = answer[r]
  BY <1>2 DEF Unsettled
<1>5. \A r \in ToSet(Items(b)) : answer'[r] # "none"
  BY <1>2, <1>3
<1> QED BY <1>1, <1>2, <1>4, <1>5, AnsweredKeeps

LEMMA RespondKeeps ==
  ASSUME BatchInv, NEW b \in 1..Len(batches), Respond(b)
  PROVE  BatchInv'
<1>1. /\ batches[b].phase = "sent" /\ batches' = Moved(b, "done")
      /\ answer' = Settled(Unsettled(b), "response")
      /\ UNCHANGED <<method, waiting, deferred, given, sent>>
  BY DEF Respond, InPhase
<1>2. /\ answer' \in [Requests -> {"none", "pending", "response", "error"}]
      /\ \A r \in Requests : /\ r \in Unsettled(b) => answer'[r] = "response"
                             /\ r \notin Unsettled(b) => answer'[r] = answer[r]
  BY <1>1, SettledFacts DEF BatchInv
<1>3. \A r \in ToSet(Items(b)) : r \in Requests /\ answer[r] # "none"
  BY <1>1, LiveFacts
<1>4. \A r \in Requests : r \notin ToSet(Items(b)) => answer'[r] = answer[r]
  BY <1>2 DEF Unsettled
<1>5. \A r \in ToSet(Items(b)) : answer'[r] # "none"
  BY <1>2, <1>3
<1> QED BY <1>1, <1>2, <1>4, <1>5, AnsweredKeeps

LEMMA DealKeeps ==
  ASSUME BatchInv, NEW b \in 1..Len(batches), NEW r \in Requests, Deal(b, r)
  PROVE  BatchInv'
<1>1. /\ batches[b].phase \in {"sent", "reading"} /\ batches' = Moved(b, "reading")
      /\ r \in ToSet(Items(b)) /\ answer' = [answer EXCEPT ![r] = "response"]
      /\ UNCHANGED <<method, waiting, deferred, given, sent>>
  BY DEF Deal, InPhase, Unsettled
<1>2. answer \in [Requests -> {"none", "pending", "response", "error"}]
  BY DEF BatchInv, BatchTypes
<1>3. /\ answer' \in [Requests -> {"none", "pending", "response", "error"}]
      /\ answer'[r] = "response" /\ \A q \in Requests : q # r => answer'[q] = answer[q]
  BY <1>1, <1>2
<1>4. \A q \in ToSet(Items(b)) : q \in Requests /\ answer[q] # "none"
  BY <1>1, LiveFacts
<1>5. \A q \in ToSet(Items(b)) : answer'[q] # "none"
  BY <1>3, <1>4
<1>6. \A q \in Requests : q \notin ToSet(Items(b)) => answer'[q] = answer[q]
  BY <1>1, <1>3
<1> QED BY <1>1, <1>3, <1>5, <1>6, AnsweredKeeps

\* A caller aborts.
LEMMA AbortRequestKeeps ==
  ASSUME BatchInv, NEW r \in Requests, AbortRequest(r)
  PROVE  BatchInv'
<1> DEFINE mine  == {b \in 1..Len(batches) : r \in ToSet(Items(b)) /\ batches[b].phase # "split"}
<1> DEFINE peers == {b \in mine : HasPeer(b)}
<1> DEFINE cuts  == {b \in peers : Abandoned(b, r)} \cup {b \in mine : Len(Items(b)) = 1}
<1>1. /\ given' = given \cup {r}
      /\ batches' = [b \in 1..Len(batches) |-> [batches[b] EXCEPT !.cut = @ \/ b \in cuts]]
      /\ answer' = IF peers # {} THEN [answer EXCEPT ![r] = "error"] ELSE answer
      /\ UNCHANGED <<method, waiting, deferred, sent>>
  BY DEF AbortRequest
<1>2. /\ batches \in Seq(Batch) /\ waiting \in Seq(Requests) /\ given \subseteq Requests
      /\ answer \in [Requests -> {"none", "pending", "response", "error"}]
      /\ \A b \in 1..Len(batches) : batches[b] \in Batch /\ Items(b) \in Seq(Requests)
  BY ItemsFacts DEF BatchInv, BatchTypes
<1>3. \A b \in cuts : b \in 1..Len(batches) /\ ToSet(Items(b)) \subseteq given \cup {r}
  <2>1. ASSUME NEW b \in peers, Abandoned(b, r) PROVE ToSet(Items(b)) \subseteq given \cup {r}
    BY <2>1 DEF Abandoned
  <2>2. ASSUME NEW b \in mine, Len(Items(b)) = 1 PROVE ToSet(Items(b)) \subseteq given \cup {r}
    <3>1. Items(b) \in Seq(Requests) /\ r \in ToSet(Items(b))
      BY <1>2
    <3>2. \A q \in ToSet(Items(b)) : q = Items(b)[1]
      BY <2>2, <3>1, ToSetFacts
    <3>3. r = Items(b)[1]
      BY <3>1, <3>2
    <3> QED BY <3>2, <3>3
  <2> QED BY <2>1, <2>2
<1>4. r \in ToSet(waiting) => peers = {}
  BY DEF BatchInv, BatchesAgree
<1> HIDE DEF mine, peers, cuts
<1>5. PICK n \in Nat : n = Len(batches)
  BY <1>2
<1>6. \A b \in 1..n : [batches[b] EXCEPT !.cut = @ \/ b \in cuts] \in Batch
  <2>1. ASSUME NEW b \in 1..n PROVE [batches[b] EXCEPT !.cut = @ \/ b \in cuts] \in Batch
    <3>1. batches[b] \in Batch
      BY <1>2, <1>5
    <3>2. (batches[b].cut \/ b \in cuts) \in BOOLEAN
      OBVIOUS
    <3> DEFINE isCut == batches[b].cut \/ b \in cuts
    <3> HIDE DEF isCut
    <3>3. [batches[b] EXCEPT !.cut = isCut] \in Batch
      BY <3>1, <3>2 DEF Batch, isCut
    <3> QED BY <3>3 DEF isCut
  <2> QED BY <2>1
<1>7. batches' \in Seq(Batch) /\ Len(batches') = n
  BY <1>1, <1>5, <1>6
<1>8. ASSUME NEW b \in 1..n
      PROVE  /\ batches'[b].items = Items(b) /\ batches'[b].phase = batches[b].phase
             /\ batches'[b].cut => batches[b].cut \/ b \in cuts
  <2>1. batches'[b] = [batches[b] EXCEPT !.cut = @ \/ b \in cuts]
    BY <1>1, <1>5
  <2>2. batches[b] \in Batch
    BY <1>2, <1>5
  <2> DEFINE isCut == batches[b].cut \/ b \in cuts
  <2>3. batches'[b] = [batches[b] EXCEPT !.cut = isCut]
    BY <2>1
  <2> HIDE DEF isCut
  <2>4. batches'[b].items = batches[b].items /\ batches'[b].phase = batches[b].phase /\ batches'[b].cut = isCut
    BY <2>2, <2>3 DEF Batch
  <2> QED BY <2>4 DEF isCut, Items
<1>9. /\ answer' \in [Requests -> {"none", "pending", "response", "error"}]
      /\ \A q \in Requests : answer'[q] = answer[q] \/ (q = r /\ answer'[q] = "error" /\ peers # {})
  BY <1>1, <1>2
<1>10. \A b \in 1..n : Items(b)' = Items(b)
  BY <1>8 DEF Items
<1>11. BatchTypes'
  <2>1. given' \subseteq Requests
    BY <1>1, <1>2
  <2> QED BY <1>1, <1>7, <1>9, <2>1 DEF BatchInv, BatchTypes
<1>12. WaitingOnce'
  <2>1. ASSUME NEW q \in ToSet(waiting) PROVE answer'[q] = "pending" /\ sent[q] = 0
    <3>1. q \in Requests /\ (q = r => peers = {})
      BY <1>2, <1>4, ToSetFacts
    <3>2. answer[q] = "pending" /\ sent[q] = 0
      BY DEF BatchInv, WaitingOnce
    <3> QED BY <1>9, <3>1, <3>2
  <2> QED BY <1>1, <2>1 DEF BatchInv, WaitingOnce, Distinct
<1>13. BatchesAgree'
  <2>1. ASSUME NEW b \in 1..n, batches[b].phase # "split"
        PROVE  /\ Items(b) # <<>> /\ Distinct(Items(b))
               /\ \A q \in ToSet(Items(b)) :
                    answer'[q] # "none" /\ q \notin ToSet(waiting) /\ sent[q] = IsSent(batches[b].phase)
    <3>1. /\ Items(b) # <<>> /\ Distinct(Items(b))
          /\ \A q \in ToSet(Items(b)) :
               answer[q] # "none" /\ q \notin ToSet(waiting) /\ sent[q] = IsSent(batches[b].phase)
      BY <1>5, <2>1 DEF BatchInv, BatchesAgree
    <3>2. \A q \in ToSet(Items(b)) : q \in Requests
      BY <1>2, <1>5, ToSetFacts
    <3> QED BY <1>9, <3>1, <3>2
  <2> QED BY <1>1, <1>7, <1>8, <1>10, <2>1 DEF BatchesAgree, Distinct
<1>14. BatchesAreApart'
  BY <1>5, <1>7, <1>8, <1>10 DEF BatchInv, BatchesAreApart
<1>15. AnswersAreSent'
  <2>1. ASSUME NEW q \in Requests
        PROVE  /\ sent[q] \in {0, 1}
               /\ answer'[q] = "none" => sent[q] = 0
               /\ answer'[q] \in {"response", "error"} /\ q \notin given' => sent[q] = 1
    <3>1. /\ sent[q] \in {0, 1}
          /\ answer[q] = "none" => sent[q] = 0
          /\ answer[q] \in {"response", "error"} /\ q \notin given => sent[q] = 1
      BY DEF BatchInv, AnswersAreSent
    <3> QED BY <1>1, <1>9, <3>1
  <2> QED BY <1>1, <2>1 DEF AnswersAreSent
<1>16. CutIsAgreed'
  <2>1. ASSUME NEW b \in 1..n, batches'[b].cut PROVE ToSet(Items(b)) \subseteq given'
    <3>1. CASE batches[b].cut
      BY <1>1, <1>5, <3>1 DEF BatchInv, CutIsAgreed
    <3>2. CASE b \in cuts
      BY <1>1, <1>3, <3>2
    <3> QED BY <1>8, <2>1, <3>1, <3>2
  <2> QED BY <1>7, <1>10, <2>1 DEF CutIsAgreed
<1> QED BY <1>11, <1>12, <1>13, <1>14, <1>15, <1>16 DEF BatchInv

LEMMA BatchStarts == BatchInit => BatchInv
<1> SUFFICES ASSUME BatchInit PROVE BatchInv
  OBVIOUS
<1>1. /\ method \in [Requests -> {"GET", "QUERY", "POST"}]
      /\ waiting = <<>> /\ deferred = 0 /\ batches = <<>> /\ given = {}
      /\ answer = [r \in Requests |-> "none"] /\ sent = [r \in Requests |-> 0]
  BY BatchAssumption DEF BatchInit
<1>2. <<>> \in Seq(Requests) /\ <<>> \in Seq(Batch) /\ Len(<<>>) = 0 /\ ToSet(<<>>) = {}
  BY DEF ToSet
<1>3. BatchTypes
  BY <1>1, <1>2 DEF BatchTypes
<1>4. WaitingOnce
  BY <1>1, <1>2 DEF WaitingOnce, Distinct
<1>5. BatchesAgree /\ BatchesAreApart /\ CutIsAgreed
  BY <1>1, <1>2 DEF BatchesAgree, BatchesAreApart, CutIsAgreed
<1>6. AnswersAreSent
  BY <1>1 DEF AnswersAreSent
<1> QED BY <1>3, <1>4, <1>5, <1>6 DEF BatchInv

LEMMA BatchStep == BatchInv /\ [BatchNext]_batchVars => BatchInv'
<1> SUFFICES ASSUME BatchInv, [BatchNext]_batchVars PROVE BatchInv'
  OBVIOUS
<1>1. ASSUME NEW r \in Requests, Request(r) PROVE BatchInv'
  BY <1>1, RequestKeeps
<1>2. ASSUME NEW r \in Requests, AbortRequest(r) PROVE BatchInv'
  BY <1>2, AbortRequestKeeps
<1>3. CASE ProcessPending
  BY <1>3, ProcessPendingKeeps
<1>4. ASSUME NEW b \in 1..Len(batches), Step(b) PROVE BatchInv'
  <2>1. CASE SplitLarge(b)
    BY <2>1, SplitKeeps DEF SplitLarge, InPhase
  <2>2. CASE OpenPeer(b)
    BY <2>2, OpenPeerKeeps
  <2>3. CASE SplitLong(b)
    BY <2>3, SplitKeeps DEF SplitLong, InPhase
  <2>4. CASE Send(b)
    BY <2>4, SendKeeps
  <2>5. CASE Fail(b)
    BY <2>5, FailKeeps
  <2>6. CASE Respond(b)
    BY <2>6, RespondKeeps
  <2>7. ASSUME NEW r \in Requests, Deal(b, r) PROVE BatchInv'
    BY <2>7, DealKeeps
  <2> QED BY <1>4, <2>1, <2>2, <2>3, <2>4, <2>5, <2>6, <2>7 DEF Step
<1>5. CASE UNCHANGED batchVars
  <2> USE <1>5 DEF batchVars
  <2>1. BatchTypes'
    BY DEF BatchInv, BatchTypes
  <2>2. WaitingOnce'
    BY DEF BatchInv, WaitingOnce, Distinct
  <2>3. BatchesAgree'
    BY DEF BatchInv, BatchesAgree, Items, Distinct
  <2>4. BatchesAreApart'
    BY DEF BatchInv, BatchesAreApart, Items
  <2>5. AnswersAreSent'
    BY DEF BatchInv, AnswersAreSent
  <2>6. CutIsAgreed'
    BY DEF BatchInv, CutIsAgreed, Items
  <2> QED BY <2>1, <2>2, <2>3, <2>4, <2>5, <2>6 DEF BatchInv
<1> QED BY <1>1, <1>2, <1>3, <1>4, <1>5 DEF BatchNext

LEMMA BatchInvIsEnough == BatchInv => MembersStayApart
BY DEF BatchInv, AnswersAreSent, CutIsAgreed, MembersStayApart

-----------------------------------------------------------------------------
(* What the two promise *)

\* The inductive invariant of the dedupe plugin: who is queued waits in one item, who
\* flies has left the queue and flies once, and a shared stream has a replica left for
\* everyone who has not read it.
THEOREM DedupeInvariant == DedupeSpec => []DedupeInv
<1> QED BY DedupeStarts, DedupeStep, PTL DEF DedupeSpec

\* The inductive invariant of the batch plugin: who is queued waits in one place, the
\* batches that were not split share no member, and the phase of a batch tells whether
\* its members were sent.
THEOREM BatchInvariant == BatchSpec => []BatchInv
<1> QED BY BatchStarts, BatchStep, PTL DEF BatchSpec

\* A shared request is aborted only when all who share it have aborted, and no two of
\* them read the same copy of a stream (DedupeLinkPlugin).
THEOREM SharersAreApart == DedupeSpec => []SharersStayApart
<1> QED BY DedupeInvIsEnough, DedupeInvariant, PTL

\* However a batch is split, each request is sent at most once, nobody is answered by a
\* batch that was not sent, and a batch is aborted only when all members have aborted
\* (BatchLinkPlugin).
THEOREM MembersAreApart == BatchSpec => []MembersStayApart
<1> QED BY BatchInvIsEnough, BatchInvariant, PTL

\* Both, where the four parts of the client are at work.
THEOREM CallersAreApart == Spec => []CallersStayApart
<1>1. Init => DedupeInv /\ BatchInv
  BY DedupeStarts, BatchStarts DEF Init
<1>2. DedupeInv /\ [Next]_vars => DedupeInv'
  <2>1. [Next]_vars => [DedupeNext]_dedupeVars
    BY DEF Next, vars, RetryOnly, DedupeOnly, BatchOnly, TransportOnly
  <2> QED BY <2>1, DedupeStep
<1>3. BatchInv /\ [Next]_vars => BatchInv'
  <2>1. [Next]_vars => [BatchNext]_batchVars
    BY DEF Next, vars, RetryOnly, DedupeOnly, BatchOnly, TransportOnly
  <2> QED BY <2>1, BatchStep
<1>4. DedupeInv /\ BatchInv => CallersStayApart
  BY DedupeInvIsEnough, BatchInvIsEnough DEF CallersStayApart
<1> QED BY <1>1, <1>2, <1>3, <1>4, PTL DEF Spec
=============================================================================
