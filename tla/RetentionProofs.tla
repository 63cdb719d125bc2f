---------------------------- MODULE RetentionProofs ----------------------------
(***************************************************************************)
(* What the publishers keep for those who resume: that the binary searches  *)
(* find where to cut a bucket, that the memory adapter serves everyone the   *)
(* log of its event, and that a Redis stream keeps events for resumeSeconds, *)
(* for buckets of any length, any number of events, subscribers and         *)
(* processes, and any window.                                              *)
(***************************************************************************)
EXTENDS BinarySearch, MemoryPublisher, ResumeWindow,
        SequenceTheorems, FiniteSetTheorems, WellFoundedInduction, TLAPS

-----------------------------------------------------------------------------
(* The binary searches.                                                    *)

\* A bucket of the instance is a sorted sequence of keys.
LEMMA BucketFacts ==
  ASSUME NEW b \in Buckets
  PROVE  b \in Seq(Keys) /\ Ascending(b) /\ Len(b) \in Nat
<1>1. PICK n \in 0..MaxLength : b \in [1..n -> Keys]
  BY SearchAssumption DEF Buckets
<1>2. b \in Seq(Keys)
  BY <1>1, SearchAssumption
<1> QED BY <1>2 DEF Buckets

\* The middle of a proper interval lies in it.
LEMMA MiddleFacts ==
  ASSUME NEW l \in Nat, NEW h \in Nat, l < h
  PROVE  /\ (l + h) \div 2 \in l..(h - 1)
         /\ 2 * ((l + h) \div 2 - l) <= h - l
         /\ 2 * (h - ((l + h) \div 2 + 1)) <= h - l
OBVIOUS

\* A turn of the loop keeps the loop invariant and halves the interval.
LEMMA StepKeeps ==
  ASSUME LoopInv, Step
  PROVE  LoopInv' /\ 2 * (hi' - lo') <= hi - lo
<1> DEFINE m == Middle
<1>1. /\ lo \in Nat /\ hi \in Nat /\ Len(sorted) \in Nat
      /\ lo < hi /\ hi <= Len(sorted)
  BY DEF LoopInv, Step
<1>2. m \in lo..(hi - 1) /\ 2 * (m - lo) <= hi - lo /\ 2 * (hi - (m + 1)) <= hi - lo
  BY <1>1, MiddleFacts DEF Middle
<1>3. sorted' = sorted /\ limit' = limit
  BY DEF Step
<1>4. \A i \in 1..Len(sorted) : sorted[i] \in Int /\ limit \in Int
  <2>1. Keys \subseteq Int /\ sorted \in Seq(Keys) /\ limit \in Keys
    BY SearchAssumption DEF LoopInv, Keys
  <2>2. \A i \in 1..Len(sorted) : sorted[i] \in Keys
    BY <2>1
  <2> QED BY <2>1, <2>2
<1> HIDE DEF m
<1>5. CASE sorted[m + 1] > limit
  <2>1. hi' = m /\ lo' = lo
    BY <1>5 DEF Step, IsLater, m
  <2>2. \A i \in 1..Len(sorted) : i > m => sorted[i] > limit
    <3>1. SUFFICES ASSUME NEW i \in 1..Len(sorted), i > m PROVE sorted[i] > limit
      OBVIOUS
    <3>2. sorted[m + 1] <= sorted[i]
      BY <1>1, <1>2, <3>1 DEF LoopInv, Ascending
    <3> QED BY <1>1, <1>2, <1>4, <1>5, <3>2
  <2> QED BY <1>1, <1>2, <1>3, <2>1, <2>2 DEF LoopInv
<1>6. CASE ~(sorted[m + 1] > limit)
  <2>1. lo' = m + 1 /\ hi' = hi
    BY <1>6 DEF Step, IsLater, AboveMiddle, m
  <2>2. \A i \in 1..Len(sorted) : i <= m + 1 => ~(sorted[i] > limit)
    <3>1. SUFFICES ASSUME NEW i \in 1..Len(sorted), i <= m + 1 PROVE ~(sorted[i] > limit)
      OBVIOUS
    <3>2. sorted[i] <= sorted[m + 1]
      BY <1>1, <1>2, <3>1 DEF LoopInv, Ascending
    <3> QED BY <1>1, <1>2, <1>4, <1>6, <3>2
  <2> QED BY <1>1, <1>2, <1>3, <2>1, <2>2 DEF LoopInv
<1> QED BY <1>5, <1>6

\* The loop invariant holds throughout (findResumeStartIndex,
\* findFirstUnexpiredIndex).
THEOREM LoopInvariant == SearchSpec => []LoopInv
<1>1. SearchInit => LoopInv
  BY BucketFacts DEF SearchInit, LoopInv
<1>2. LoopInv /\ [SearchNext]_searchVars => LoopInv'
  BY StepKeeps DEF SearchNext, searchVars, LoopInv
<1> QED BY <1>1, <1>2, PTL DEF SearchSpec

\* When the loop ends, the returned index splits the bucket exactly.
THEOREM SearchIsCorrect == SearchSpec => []FindsTheFirstLater
<1>1. LoopInv => FindsTheFirstLater
  BY DEF LoopInv, FindsTheFirstLater
<1> QED BY <1>1, LoopInvariant, PTL

\* Every turn halves the interval, so a search of n entries takes at most about
\* log2(n) turns.
THEOREM SearchIsLogarithmic == SearchSpec => HalvesTheInterval
<1>1. LoopInv /\ [SearchNext]_searchVars => [2 * (hi' - lo') <= hi - lo]_searchVars
  BY StepKeeps DEF SearchNext
<1> QED BY <1>1, LoopInvariant, PTL DEF SearchSpec, HalvesTheInterval

-----------------------------------------------------------------------------
(* What the memory adapter keeps, and what its subscribers get of it.       *)

\* The forEach of the running publish has still to come to the subscriber, as a
\* fact about its place among the listeners.
Owed(s) ==
  /\ publishing # <<>> /\ publishing[1].event = Topic[s]
  /\ \E i \in 1..Len(listeners[Topic[s]]) :
       listeners[Topic[s]][i] = s /\ i >= publishing[1].next

\* Nobody is registered twice, nor for another event than its own.
RegisteredOnce ==
  \A e \in Events : \A i \in 1..Len(listeners[e]) :
    /\ Topic[listeners[e][i]] = e
    /\ \A j \in 1..Len(listeners[e]) : listeners[e][i] = listeners[e][j] => i = j

\* Ids and times of expiry rise along a log.
LogIsOrdered ==
  \A e \in Events : \A i \in 1..Len(log[e]) :
    /\ log[e][i].id <= lastId /\ log[e][i].expiresAt <= clock + ResumeSeconds
    /\ \A j \in 1..Len(log[e]) : i < j =>
         log[e][i].id < log[e][j].id /\ log[e][i].expiresAt <= log[e][j].expiresAt

\* b is the end of the log l and holds all that has not expired at time t.
IsEndOf(b, l, t) ==
  /\ Len(b) <= Len(l)
  /\ \A i \in 1..Len(b) : b[i] = l[Len(l) - Len(b) + i]
  /\ \A i \in 1..Len(l) : l[i].expiresAt > t => i > Len(l) - Len(b)

\* What is kept is the end of the log, from after the last clean-up.
BucketsAreEnds ==
  \A e \in Events :
    /\ IsEndOf(bucket[e], log[e], clock)
    /\ \A i \in 1..Len(bucket[e]) : bucket[e][i].expiresAt > lastCleanup

\* A publish that runs is of the last event of its log and visits everyone.
WalkCoversAll ==
  publishing # <<>> =>
    LET p == publishing[1]
        l == log[p.event]
    IN  /\ p.next <= p.len /\ Len(listeners[p.event]) <= p.len
        /\ Len(l) > 0 /\ l[Len(l)].id = lastId

\* What a subscriber has seen is a stretch of its log, which ends with the last
\* event if it is registered, or with the one before while that is on its way.
IsServed(s) ==
  LET l == log[Topic[s]]
      last == from[s] + Len(seen[s]) - 1
  IN  /\ from[s] \in 1..Len(l) + 1
      /\ \A i \in 1..Len(seen[s]) : seen[s][i] <= lastId
      /\ Owed(s) => \A i \in 1..Len(seen[s]) : seen[s][i] < lastId
      /\ s \in skipped => \A i \in 1..Len(seen[s]) - 1 : seen[s][i] < seen[s][i + 1]
      /\ s \notin skipped =>
           /\ last <= Len(l)
           /\ Active(s) => last = IF Owed(s) THEN Len(l) - 1 ELSE Len(l)
           /\ \A i \in 1..Len(seen[s]) : seen[s][i] = l[from[s] + i - 1].id

MemoryInv ==
  /\ MemoryTypeOK /\ lastCleanup <= clock
  /\ RegisteredOnce /\ LogIsOrdered /\ BucketsAreEnds /\ WalkCoversAll
  /\ \A s \in Subs : IsServed(s)

\* A set of natural numbers that is not empty has a least element.
LEMMA LeastElement ==
  ASSUME NEW T \in SUBSET Nat, T # {}
  PROVE  \E k \in T : \A j \in T : k <= j
<1> DEFINE R == OpToRel(<, Nat)
<1>1. \A i, j \in Nat : i < j => <<i, j>> \in R
  BY DEF OpToRel
<1>2. IsWellFoundedOn(R, Nat)
  BY NatLessThanWellFounded
<1> HIDE DEF R
<1>3. PICK k \in T : \A j \in T : ~(<<j, k>> \in R)
  BY <1>2, WFMin
<1>4. ASSUME NEW j \in T PROVE k <= j
  <2>1. j \in Nat /\ k \in Nat /\ ~(j < k)
    BY <1>1, <1>3
  <2> QED BY <2>1
<1> QED BY <1>4

LEMMA StoredFacts ==
  ASSUME NEW b \in Seq(Stored)
  PROVE  /\ Len(b) \in Nat
         /\ \A i \in 1..Len(b) : b[i] \in Stored /\ b[i].id \in Nat /\ b[i].expiresAt \in Nat
<1>1. Len(b) \in Nat /\ \A i \in 1..Len(b) : b[i] \in Stored
  OBVIOUS
<1>2. \A x \in Stored : x.id \in Nat /\ x.expiresAt \in Nat
  BY DEF Stored
<1> QED BY <1>1, <1>2

\* The end of b from n on.
LEMMA RestFacts ==
  ASSUME NEW b \in Seq(Stored), NEW n \in 1..Len(b) + 1
  PROVE  /\ SubSeq(b, n, Len(b)) \in Seq(Stored)
         /\ Len(SubSeq(b, n, Len(b))) = Len(b) - n + 1
         /\ \A i \in 1..Len(b) - n + 1 : SubSeq(b, n, Len(b))[i] = b[n + i - 1]
<1>1. n \in Int /\ Len(b) \in Int /\ n <= Len(b) + 1 /\ \A i \in n..Len(b) : b[i] \in Stored
  OBVIOUS
<1>2. /\ SubSeq(b, n, Len(b)) \in Seq(Stored)
      /\ Len(SubSeq(b, n, Len(b))) = IF n <= Len(b) THEN Len(b) - n + 1 ELSE 0
      /\ \A i \in 1..Len(b) - n + 1 : SubSeq(b, n, Len(b))[i] = b[n + i - 1]
  BY <1>1, SubSeqProperties
<1> QED BY <1>1, <1>2

\* What findFirstUnexpiredIndex leaves of the end of an ordered log.
LEMMA UnexpiredIsEnd ==
  ASSUME NEW b \in Seq(Stored), NEW l \in Seq(Stored), NEW t \in Nat, clock \in Nat,
         IsEndOf(b, l, clock),
         \A i, j \in 1..Len(l) : i < j => l[i].expiresAt <= l[j].expiresAt
  PROVE  /\ UnexpiredOf(b) \in Seq(Stored)
         /\ IsEndOf(UnexpiredOf(b), l, clock)
         /\ \A i \in 1..Len(UnexpiredOf(b)) : UnexpiredOf(b)[i].expiresAt > clock
<1> DEFINE IsStart(k) == /\ k \in 1..Len(b) + 1
                         /\ \A j \in 1..k - 1 : ~(b[j].expiresAt > clock)
                         /\ \A j \in k..Len(b) : b[j].expiresAt > clock
           n == CHOOSE k \in 1..Len(b) + 1 :
                  /\ \A j \in 1..k - 1 : ~(b[j].expiresAt > clock)
                  /\ \A j \in k..Len(b) : b[j].expiresAt > clock
           T == {i \in 1..Len(b) + 1 : i = Len(b) + 1 \/ b[i].expiresAt > clock}
<1>1. Len(b) \in Nat /\ Len(l) \in Nat
  OBVIOUS
<1>2. \A i \in 1..Len(b) : b[i].expiresAt \in Nat
  BY StoredFacts
<1>3. ASSUME NEW i \in 1..Len(b), NEW j \in 1..Len(b), i < j
      PROVE  b[i].expiresAt <= b[j].expiresAt
  <2> DEFINE k == Len(l) - Len(b)
  <2>1. k + i \in 1..Len(l) /\ k + j \in 1..Len(l) /\ k + i < k + j
    BY <1>1, <1>3 DEF IsEndOf
  <2>2. b[i] = l[k + i] /\ b[j] = l[k + j]
    BY DEF IsEndOf
  <2> HIDE DEF k
  <2> QED BY <2>1, <2>2
<1>4. PICK k \in T : \A j \in T : k <= j
  <2>1. T \in SUBSET Nat /\ Len(b) + 1 \in T
    BY <1>1
  <2> HIDE DEF T
  <2> QED BY <2>1, LeastElement
<1>5. IsStart(k)
  <2>1. k \in 1..Len(b) + 1 /\ (k = Len(b) + 1 \/ b[k].expiresAt > clock)
    BY <1>4
  <2>2. ASSUME NEW j \in 1..k - 1 PROVE ~(b[j].expiresAt > clock)
    <3>1. j \in 1..Len(b) + 1 /\ ~(k <= j)
      BY <2>1, <1>1
    <3> QED BY <3>1, <1>4
  <2>3. ASSUME NEW j \in k..Len(b) PROVE b[j].expiresAt > clock
    <3>1. j \in 1..Len(b) /\ k \in 1..Len(b) /\ b[k].expiresAt > clock
      BY <2>1, <1>1
    <3> QED BY <3>1, <1>2, <1>3, <2>1
  <2> QED BY <2>1, <2>2, <2>3
<1>6. IsStart(n)
  BY <1>5
<1>7. UnexpiredOf(b) = SubSeq(b, n, Len(b))
  BY DEF UnexpiredOf, StartOf
<1> HIDE DEF n
<1> DEFINE u == UnexpiredOf(b)
<1>8. /\ u \in Seq(Stored) /\ Len(u) = Len(b) - n + 1
      /\ \A i \in 1..Len(u) : u[i] = b[n + i - 1]
  BY <1>1, <1>6, <1>7, RestFacts
<1> HIDE DEF u
<1>9. \A i \in 1..Len(u) : u[i].expiresAt > clock
  <2>1. ASSUME NEW i \in 1..Len(u) PROVE n + i - 1 \in n..Len(b)
    BY <1>1, <1>6, <1>8
  <2> QED BY <2>1, <1>6, <1>8
<1>10. Len(u) <= Len(l) /\ \A i \in 1..Len(u) : u[i] = l[Len(l) - Len(u) + i]
  <2>1. Len(u) <= Len(b)
    BY <1>1, <1>6, <1>8
  <2>2. ASSUME NEW i \in 1..Len(u) PROVE u[i] = l[Len(l) - Len(u) + i]
    <3>1. n + i - 1 \in 1..Len(b) /\ Len(l) - Len(b) + (n + i - 1) = Len(l) - Len(u) + i
      BY <1>1, <1>6, <1>8
    <3> QED BY <3>1, <1>8 DEF IsEndOf
  <2>3. Len(b) <= Len(l) /\ Len(u) \in Nat
    BY <1>8 DEF IsEndOf
  <2> QED BY <1>1, <2>1, <2>2, <2>3
<1>11. ASSUME NEW i \in 1..Len(l), l[i].expiresAt > clock PROVE i > Len(l) - Len(u)
  <2>1. i > Len(l) - Len(b) /\ Len(b) <= Len(l)
    BY <1>11 DEF IsEndOf
  <2> DEFINE j == i - (Len(l) - Len(b))
  <2>2. j \in 1..Len(b) /\ b[j] = l[i]
    BY <2>1, <1>1 DEF IsEndOf
  <2>3. j >= n
    BY <2>2, <1>6, <1>11
  <2> QED BY <2>1, <2>3, <1>1, <1>6, <1>8
<1> QED BY <1>8, <1>9, <1>10, <1>11 DEF IsEndOf, u

\* What findResumeStartIndex finds in the end b of an ordered log.
LEMMA AfterIsEnd ==
  ASSUME NEW b \in Seq(Stored), NEW last \in Nat,
         \A i, j \in 1..Len(b) : i < j => b[i].id < b[j].id
  PROVE  \E n \in 1..Len(b) + 1 :
           /\ After(b, last) \in Seq(Stored) /\ Len(After(b, last)) = Len(b) - n + 1
           /\ \A i \in 1..Len(After(b, last)) : After(b, last)[i] = b[n + i - 1]
           /\ \A j \in 1..n - 1 : b[j].id <= last
           /\ \A j \in n..Len(b) : b[j].id > last
<1> DEFINE IsStart(k) == /\ k \in 1..Len(b) + 1
                         /\ \A j \in 1..k - 1 : ~(b[j].id > last)
                         /\ \A j \in k..Len(b) : b[j].id > last
           n == CHOOSE k \in 1..Len(b) + 1 :
                  /\ \A j \in 1..k - 1 : ~(b[j].id > last)
                  /\ \A j \in k..Len(b) : b[j].id > last
           T == {i \in 1..Len(b) + 1 : i = Len(b) + 1 \/ b[i].id > last}
<1>1. Len(b) \in Nat
  OBVIOUS
<1>2. \A i \in 1..Len(b) : b[i].id \in Nat
  BY StoredFacts
<1>4. PICK k \in T : \A j \in T : k <= j
  <2>1. T \in SUBSET Nat /\ Len(b) + 1 \in T
    BY <1>1
  <2> HIDE DEF T
  <2> QED BY <2>1, LeastElement
<1>5. IsStart(k)
  <2>1. k \in 1..Len(b) + 1 /\ (k = Len(b) + 1 \/ b[k].id > last)
    BY <1>4
  <2>2. ASSUME NEW j \in 1..k - 1 PROVE ~(b[j].id > last)
    <3>1. j \in 1..Len(b) + 1 /\ ~(k <= j)
      BY <2>1, <1>1
    <3> QED BY <3>1, <1>4
  <2>3. ASSUME NEW j \in k..Len(b) PROVE b[j].id > last
    <3>1. j \in 1..Len(b) /\ k \in 1..Len(b) /\ b[k].id > last
      BY <2>1, <1>1
    <3> QED BY <3>1, <1>2, <2>1
  <2> QED BY <2>1, <2>2, <2>3
<1>6. IsStart(n)
  BY <1>5
<1>7. After(b, last) = SubSeq(b, n, Len(b))
  BY DEF After, StartOf
<1> HIDE DEF n
<1>8. /\ After(b, last) \in Seq(Stored) /\ Len(After(b, last)) = Len(b) - n + 1
      /\ \A i \in 1..Len(After(b, last)) : After(b, last)[i] = b[n + i - 1]
  BY <1>1, <1>6, <1>7, RestFacts
<1>9. \A j \in 1..n - 1 : b[j].id <= last
  BY <1>1, <1>2, <1>6
<1> QED BY <1>6, <1>8, <1>9

\* The buckets after the clean-up that publish and subscribe start with.
LEMMA CleanupKeeps ==
  ASSUME MemoryInv, Cleanup, NEW e \in Events
  PROVE  /\ BucketsAfterCleanup[e] \in Seq(Stored)
         /\ IsEndOf(BucketsAfterCleanup[e], log[e], clock)
         /\ lastCleanup' \in Nat /\ lastCleanup' <= clock
         /\ \A i \in 1..Len(BucketsAfterCleanup[e]) :
              BucketsAfterCleanup[e][i].expiresAt > lastCleanup'
<1>1. /\ bucket[e] \in Seq(Stored) /\ log[e] \in Seq(Stored) /\ clock \in Nat
      /\ lastCleanup \in Nat /\ lastCleanup <= clock /\ IsEndOf(bucket[e], log[e], clock)
  BY DEF MemoryInv, MemoryTypeOK, BucketsAreEnds
<1>2. CASE CleanupDue
  <2>1. BucketsAfterCleanup[e] = UnexpiredOf(bucket[e]) /\ lastCleanup' = clock
    BY <1>2 DEF BucketsAfterCleanup, Cleaned, Cleanup
  <2>2. \A i, j \in 1..Len(log[e]) : i < j => log[e][i].expiresAt <= log[e][j].expiresAt
    BY DEF MemoryInv, LogIsOrdered
  <2>3. /\ UnexpiredOf(bucket[e]) \in Seq(Stored)
        /\ IsEndOf(UnexpiredOf(bucket[e]), log[e], clock)
        /\ \A i \in 1..Len(UnexpiredOf(bucket[e])) : UnexpiredOf(bucket[e])[i].expiresAt > clock
    BY <1>1, <2>2, UnexpiredIsEnd
  <2> QED BY <1>1, <2>1, <2>3
<1>3. CASE ~CleanupDue
  BY <1>1, <1>3 DEF BucketsAfterCleanup, Cleanup, MemoryInv, BucketsAreEnds
<1> QED BY <1>2, <1>3

\* A subscriber is registered at one place, where Position finds it.
LEMMA Places ==
  ASSUME MemoryInv, NEW s \in Subs, NEW i \in 1..Len(listeners[Topic[s]]),
         listeners[Topic[s]][i] = s
  PROVE  Active(s) /\ Position(s) = i
         /\ \A j \in 1..Len(listeners[Topic[s]]) : listeners[Topic[s]][j] = s => j = i
<1>1. Topic[s] \in Events
  BY PublisherAssumption
<1>2. \A j \in 1..Len(listeners[Topic[s]]) : listeners[Topic[s]][j] = s => j = i
  BY <1>1 DEF MemoryInv, RegisteredOnce
<1> QED BY <1>2 DEF Active, Position

\* Owed says the same as IsOwed of the subscribers that are registered.
LEMMA OwedIsIsOwed ==
  ASSUME MemoryInv, NEW s \in Subs
  PROVE  Active(s) => (Owed(s) <=> IsOwed(s))
<1> SUFFICES ASSUME Active(s) PROVE Owed(s) <=> IsOwed(s)
  OBVIOUS
<1>1. PICK i \in 1..Len(listeners[Topic[s]]) : listeners[Topic[s]][i] = s
  BY DEF Active
<1>2. Position(s) = i /\ \A j \in 1..Len(listeners[Topic[s]]) : listeners[Topic[s]][j] = s => j = i
  BY <1>1, Places
<1> QED BY <1>1, <1>2 DEF Owed, IsOwed

LEMMA OwedAreActive == \A s \in Subs : Owed(s) => Active(s)
BY DEF Owed, Active

\* The listeners of an event without the one at place k.
LEMMA WithoutFacts ==
  ASSUME MemoryInv, NEW s \in Subs, NEW k \in 1..Len(listeners[Topic[s]]),
         listeners[Topic[s]][k] = s
  PROVE  LET l == listeners[Topic[s]]
             w == Without(s)[Topic[s]]
         IN  /\ Without(s) \in [Events -> Seq(Subs)]
             /\ \A e \in Events : e # Topic[s] => Without(s)[e] = listeners[e]
             /\ Len(w) = Len(l) - 1
             /\ \A i \in 1..Len(w) : w[i] = IF i < k THEN l[i] ELSE l[i + 1]
<1> DEFINE l == listeners[Topic[s]]
           a == SubSeq(l, 1, k - 1)
           b == SubSeq(l, k + 1, Len(l))
<1>1. /\ Topic[s] \in Events /\ listeners \in [Events -> Seq(Subs)] /\ l \in Seq(Subs)
      /\ Len(l) \in Nat /\ k \in 1..Len(l)
  <2>1. Topic[s] \in Events /\ listeners \in [Events -> Seq(Subs)]
    BY PublisherAssumption DEF MemoryInv, MemoryTypeOK
  <2>2. l \in Seq(Subs)
    BY <2>1
  <2> HIDE DEF l
  <2>3. Len(l) \in Nat
    BY <2>2
  <2> QED BY <2>1, <2>2, <2>3 DEF l
<1>2. Without(s) = [listeners EXCEPT ![Topic[s]] = a \o b]
  BY Places DEF Without
<1> HIDE DEF l
<1>3. a \in Seq(Subs) /\ Len(a) = k - 1 /\ \A i \in 1..k - 1 : a[i] = l[i]
  <2>1. \A i \in 1..k - 1 : l[i] \in Subs
    BY <1>1
  <2> QED BY <1>1, <2>1, SubSeqProperties
<1>4. b \in Seq(Subs) /\ Len(b) = Len(l) - k /\ \A i \in 1..Len(l) - k : b[i] = l[k + i]
  <2>1. \A i \in k + 1..Len(l) : l[i] \in Subs
    BY <1>1
  <2>2. /\ b \in Seq(Subs)
        /\ Len(b) = IF k + 1 <= Len(l) THEN Len(l) - (k + 1) + 1 ELSE 0
        /\ \A i \in 1..Len(l) - (k + 1) + 1 : b[i] = l[k + 1 + i - 1]
    BY <1>1, <2>1, SubSeqProperties
  <2> QED BY <1>1, <2>2
<1> HIDE DEF a, b
<1>5. /\ a \o b \in Seq(Subs) /\ Len(a \o b) = Len(l) - 1
      /\ \A i \in 1..Len(l) - 1 : (a \o b)[i] = IF i < k THEN l[i] ELSE l[i + 1]
  <2>1. /\ a \o b \in Seq(Subs) /\ Len(a \o b) = Len(a) + Len(b)
        /\ \A i \in 1..Len(a) + Len(b) : (a \o b)[i] = IF i <= Len(a) THEN a[i] ELSE b[i - Len(a)]
    BY <1>3, <1>4, ConcatProperties
  <2>2. ASSUME NEW i \in 1..Len(l) - 1
        PROVE  (a \o b)[i] = IF i < k THEN l[i] ELSE l[i + 1]
    <3>1. CASE i < k
      <4>1. i \in 1..k - 1 /\ i <= Len(a) /\ i \in 1..Len(a) + Len(b)
        BY <1>1, <1>3, <1>4, <3>1
      <4> QED BY <1>3, <2>1, <3>1, <4>1
    <3>2. CASE ~(i < k)
      <4>1. i - (k - 1) \in 1..Len(l) - k /\ k + (i - (k - 1)) = i + 1
        BY <1>1, <3>2
      <4> QED BY <1>1, <1>3, <1>4, <2>1, <3>2, <4>1
    <3> QED BY <3>1, <3>2
  <2> QED BY <1>1, <1>3, <1>4, <2>1, <2>2
<1> QED BY <1>1, <1>2, <1>5 DEF l

\* Whom a step does not concern is served as before.
LEMMA ServedAsBefore ==
  ASSUME NEW s \in Subs, IsServed(s), lastId' = lastId,
         log'[Topic[s]] = log[Topic[s]], seen'[s] = seen[s], from'[s] = from[s],
         s \in skipped' <=> s \in skipped, Active(s)' <=> Active(s), Owed(s)' <=> Owed(s)
  PROVE  IsServed(s)'
BY DEF IsServed

LEMMA MemoryStarts == MemoryInit => MemoryInv
<1> SUFFICES ASSUME MemoryInit PROVE MemoryInv
  OBVIOUS
<1>1. MemoryTypeOK /\ lastCleanup <= clock
  BY PublisherAssumption DEF MemoryInit, MemoryTypeOK
<1>2. RegisteredOnce /\ LogIsOrdered /\ BucketsAreEnds /\ WalkCoversAll
  BY DEF MemoryInit, RegisteredOnce, LogIsOrdered, BucketsAreEnds, WalkCoversAll, IsEndOf
<1>3. ASSUME NEW s \in Subs PROVE IsServed(s)
  <2>1. Topic[s] \in Events
    BY PublisherAssumption
  <2>2. /\ log[Topic[s]] = <<>> /\ seen[s] = <<>> /\ from[s] = 1 /\ skipped = {}
        /\ ~Active(s) /\ ~Owed(s)
    BY <2>1 DEF MemoryInit, Active, Owed
  <2> QED BY <2>2 DEF IsServed
<1> QED BY <1>1, <1>2, <1>3 DEF MemoryInv

\* publish(event) up to its walk over the listeners keeps the invariant.
LEMMA PublishEventKeeps ==
  ASSUME MemoryInv, NEW e \in Events, PublishEvent(e)
  PROVE  MemoryInv'
<1> DEFINE x == [id |-> lastId + 1, expiresAt |-> clock + ResumeSeconds]
           l == log[e]
           b == BucketsAfterCleanup[e]
<1>1. /\ clock \in Nat /\ lastId \in Nat /\ ResumeSeconds \in Nat \ {0} /\ x \in Stored
      /\ x.id = lastId + 1 /\ x.expiresAt = clock + ResumeSeconds
      /\ log \in [Events -> Seq(Stored)] /\ listeners \in [Events -> Seq(Subs)]
      /\ seen \in [Subs -> Seq(Nat)] /\ from \in [Subs -> Nat] /\ publishing = <<>>
  BY PublisherAssumption DEF MemoryInv, MemoryTypeOK, Stored, PublishEvent
<1>2. /\ bucket' = [BucketsAfterCleanup EXCEPT ![e] = Append(b, x)]
      /\ log' = [log EXCEPT ![e] = Append(l, x)]
      /\ lastId' = lastId + 1 /\ Cleanup
      /\ publishing' = IF listeners[e] = <<>> THEN <<>>
                       ELSE <<[event |-> e, next |-> 1, len |-> Len(listeners[e])]>>
      /\ UNCHANGED <<clock, listeners, seen, from, skipped>>
  BY DEF PublishEvent
<1> HIDE DEF x
<1>3. BucketsAfterCleanup \in [Events -> Seq(Stored)]
  <2>1. \A f \in Events : BucketsAfterCleanup[f] \in Seq(Stored)
    BY <1>2, CleanupKeeps
  <2>2. bucket \in [Events -> Seq(Stored)] /\ BucketsAfterCleanup = [f \in Events |-> BucketsAfterCleanup[f]]
    BY DEF MemoryInv, MemoryTypeOK, BucketsAfterCleanup, Cleaned
  <2> QED BY <2>1, <2>2
<1>4. /\ IsEndOf(b, l, clock) /\ b \in Seq(Stored)
      /\ lastCleanup' \in Nat /\ lastCleanup' <= clock
      /\ \A i \in 1..Len(b) : b[i].expiresAt > lastCleanup'
  BY <1>2, CleanupKeeps
<1>5. /\ log'[e] = Append(l, x) /\ \A f \in Events : f # e => log'[f] = log[f]
      /\ bucket'[e] = Append(b, x) /\ \A f \in Events : f # e => bucket'[f] = BucketsAfterCleanup[f]
  BY <1>1, <1>2, <1>3
<1>6. /\ l \in Seq(Stored) /\ Len(l) \in Nat /\ Len(b) \in Nat
  BY <1>1, <1>4
<1> HIDE DEF l, b
<1>7. /\ Append(l, x) \in Seq(Stored) /\ Len(Append(l, x)) = Len(l) + 1
      /\ Append(l, x)[Len(l) + 1] = x /\ \A i \in 1..Len(l) : Append(l, x)[i] = l[i]
      /\ Append(b, x) \in Seq(Stored) /\ Len(Append(b, x)) = Len(b) + 1
      /\ Append(b, x)[Len(b) + 1] = x /\ \A i \in 1..Len(b) : Append(b, x)[i] = b[i]
  BY <1>1, <1>4, <1>6, AppendProperties
<1> DEFINE lx == Append(l, x)
           bx == Append(b, x)
<1>70. /\ lx \in Seq(Stored) /\ Len(lx) = Len(l) + 1 /\ lx[Len(l) + 1] = x
       /\ \A i \in 1..Len(l) : lx[i] = l[i]
       /\ bx \in Seq(Stored) /\ Len(bx) = Len(b) + 1 /\ bx[Len(b) + 1] = x
       /\ \A i \in 1..Len(b) : bx[i] = b[i]
       /\ log'[e] = lx /\ bucket'[e] = bx
  BY <1>5, <1>7
<1> HIDE DEF lx, bx
<1>71. /\ clock' = clock /\ lastId' = lastId + 1 /\ lastId \in Nat /\ clock + ResumeSeconds \in Nat
       /\ x.id = lastId + 1 /\ x.expiresAt = clock + ResumeSeconds
  BY <1>1, <1>2
<1>8. MemoryTypeOK'
  <2>1. log' \in [Events -> Seq(Stored)] /\ bucket' \in [Events -> Seq(Stored)]
    BY <1>1, <1>2, <1>3, <1>7
  <2>2. \/ publishing' = <<>>
        \/ /\ publishing' = <<publishing'[1]>>
           /\ publishing'[1] \in [event : Events, next : Nat \ {0}, len : Nat \ {0}]
    <3>1. CASE listeners[e] = <<>>
      BY <1>2, <3>1
    <3>2. CASE listeners[e] # <<>>
      <4>1. Len(listeners[e]) \in Nat \ {0}
        BY <1>1, <3>2, EmptySeq
      <4> DEFINE r == [event |-> e, next |-> 1, len |-> Len(listeners[e])]
      <4>2. publishing' = <<r>> /\ r \in [event : Events, next : Nat \ {0}, len : Nat \ {0}]
        BY <1>2, <3>2, <4>1
      <4> HIDE DEF r
      <4> QED BY <4>2
    <3> QED BY <3>1, <3>2
  <2> QED BY SMTT(20), <1>1, <1>2, <1>4, <2>1, <2>2 DEF MemoryInv, MemoryTypeOK
<1>9. RegisteredOnce'
  BY <1>2 DEF MemoryInv, RegisteredOnce
<1>10. LogIsOrdered'
  <2> SUFFICES ASSUME NEW f \in Events
               PROVE  \A i \in 1..Len(log'[f]) :
                        /\ log'[f][i].id <= lastId' /\ log'[f][i].expiresAt <= clock' + ResumeSeconds
                        /\ \A j \in 1..Len(log'[f]) : i < j =>
                             /\ log'[f][i].id < log'[f][j].id
                             /\ log'[f][i].expiresAt <= log'[f][j].expiresAt
    BY DEF LogIsOrdered
  <2>1. \A i \in 1..Len(log[f]) : log[f][i].id \in Nat /\ log[f][i].expiresAt \in Nat
    BY <1>1, StoredFacts
  <2>2. \A i \in 1..Len(log[f]) :
          /\ log[f][i].id <= lastId /\ log[f][i].expiresAt <= clock + ResumeSeconds
          /\ \A j \in 1..Len(log[f]) : i < j =>
               log[f][i].id < log[f][j].id /\ log[f][i].expiresAt <= log[f][j].expiresAt
    BY DEF MemoryInv, LogIsOrdered
  <2>3. CASE f # e
    <3>1. log'[f] = log[f]
      BY <1>5, <2>3
    <3>2. ASSUME NEW i \in 1..Len(log[f])
          PROVE  log[f][i].id <= lastId' /\ log[f][i].expiresAt <= clock' + ResumeSeconds
      BY <1>71, <2>1, <2>2
    <3> QED BY <2>2, <3>1, <3>2
  <2>4. CASE f = e
    <3>1. log[f] = l /\ log'[f] = lx
      BY <1>70, <2>4 DEF l
    <3>2. ASSUME NEW i \in 1..Len(lx)
          PROVE  /\ lx[i].id <= lastId' /\ lx[i].expiresAt <= clock' + ResumeSeconds
                 /\ \A j \in 1..Len(lx) : i < j =>
                      lx[i].id < lx[j].id /\ lx[i].expiresAt <= lx[j].expiresAt
      <4>1. CASE i = Len(l) + 1
        <5>1. lx[i] = x /\ \A j \in 1..Len(lx) : ~(i < j)
          BY <1>6, <1>70, <4>1
        <5> QED BY <1>71, <5>1
      <4>2. CASE i \in 1..Len(l)
        <5>1. /\ lx[i] = l[i] /\ l[i].id <= lastId /\ l[i].id \in Nat
              /\ l[i].expiresAt <= clock + ResumeSeconds /\ l[i].expiresAt \in Nat
          BY <1>70, <2>1, <2>2, <3>1, <4>2
        <5>2. ASSUME NEW j \in 1..Len(lx), i < j
              PROVE  lx[i].id < lx[j].id /\ lx[i].expiresAt <= lx[j].expiresAt
          <6>1. CASE j = Len(l) + 1
            <7>1. lx[j] = x
              BY <1>70, <6>1
            <7> QED BY <1>71, <5>1, <7>1
          <6>2. CASE j \in 1..Len(l)
            BY <1>70, <2>2, <3>1, <4>2, <5>1, <5>2, <6>2
          <6> QED BY <1>6, <1>70, <6>1, <6>2
        <5> QED BY <1>71, <5>1, <5>2
      <4> QED BY <1>6, <1>70, <4>1, <4>2
    <3> QED BY <3>1, <3>2
  <2> QED BY <2>3, <2>4
<1>11. BucketsAreEnds'
  <2> SUFFICES ASSUME NEW f \in Events
               PROVE  /\ IsEndOf(bucket'[f], log'[f], clock)
                      /\ \A i \in 1..Len(bucket'[f]) : bucket'[f][i].expiresAt > lastCleanup'
    BY <1>2 DEF BucketsAreEnds
  <2>1. CASE f # e
    BY <1>2, <1>5, <2>1, CleanupKeeps
  <2>2. CASE f = e
    <3>1. ASSUME NEW i \in 1..Len(bx) PROVE bx[i].expiresAt > lastCleanup'
      <4>1. CASE i \in 1..Len(b)
        BY <1>4, <1>70, <4>1
      <4>2. CASE i = Len(b) + 1
        BY <1>1, <1>4, <1>70, <4>2
      <4> QED BY <1>6, <1>70, <4>1, <4>2
    <3>2. ASSUME NEW i \in 1..Len(bx) PROVE bx[i] = lx[Len(lx) - Len(bx) + i]
      <4>1. CASE i \in 1..Len(b)
        <5>1. /\ Len(l) - Len(b) + i \in 1..Len(l)
              /\ Len(lx) - Len(bx) + i = Len(l) - Len(b) + i
          BY <1>4, <1>6, <1>70, <4>1 DEF IsEndOf
        <5>2. b[i] = l[Len(l) - Len(b) + i]
          BY <1>4, <4>1 DEF IsEndOf
        <5> QED BY <1>70, <4>1, <5>1, <5>2
      <4>2. CASE i = Len(b) + 1
        <5>1. Len(lx) - Len(bx) + i = Len(l) + 1
          BY <1>6, <1>70, <4>2
        <5> QED BY <1>70, <4>2, <5>1
      <4> QED BY <1>6, <1>70, <4>1, <4>2
    <3>3. ASSUME NEW i \in 1..Len(lx), lx[i].expiresAt > clock
          PROVE  i > Len(lx) - Len(bx)
      <4>1. CASE i \in 1..Len(l)
        BY <1>4, <1>6, <1>70, <3>3, <4>1 DEF IsEndOf
      <4>2. CASE i = Len(l) + 1
        BY <1>4, <1>6, <1>70, <4>2 DEF IsEndOf
      <4> QED BY <1>6, <1>70, <4>1, <4>2
    <3>4. Len(bx) <= Len(lx)
      BY <1>4, <1>6, <1>70 DEF IsEndOf
    <3>5. IsEndOf(bx, lx, clock)
      BY <3>2, <3>3, <3>4 DEF IsEndOf
    <3> QED BY <1>70, <2>2, <3>1, <3>5
  <2> QED BY <2>1, <2>2
<1>12. WalkCoversAll'
  <2> SUFFICES ASSUME listeners[e] # <<>>
               PROVE  WalkCoversAll'
    BY <1>2 DEF WalkCoversAll
  <2>1. Len(listeners[e]) \in Nat \ {0}
    BY <1>1, EmptySeq
  <2>2. /\ publishing'[1].event = e /\ publishing'[1].next = 1
        /\ publishing'[1].len = Len(listeners[e])
    BY <1>2
  <2>3. log'[e][Len(log'[e])].id = lastId' /\ Len(log'[e]) > 0
    BY <1>1, <1>2, <1>5, <1>6, <1>7
  <2> QED BY <1>2, <2>1, <2>2, <2>3 DEF WalkCoversAll
<1>13. ASSUME NEW s \in Subs PROVE IsServed(s)'
  <2>1. /\ Topic[s] \in Events /\ seen[s] \in Seq(Nat) /\ from[s] \in Nat /\ IsServed(s)
        /\ Len(seen[s]) \in Nat /\ \A i \in 1..Len(seen[s]) : seen[s][i] \in Nat
    <3>1. IsServed(s)
      BY DEF MemoryInv
    <3>2. Topic[s] \in Events /\ seen[s] \in Seq(Nat) /\ from[s] \in Nat
      BY <1>1, PublisherAssumption
    <3> QED BY <3>1, <3>2
  <2>2. ~Owed(s) /\ (Active(s)' <=> Active(s))
    <3>1. ~Owed(s)
      BY <1>1 DEF Owed
    <3>2. listeners' = listeners
      BY <1>2
    <3> QED BY <3>1, <3>2 DEF Active
  <2>3. ASSUME NEW i \in 1..Len(seen[s]) PROVE seen[s][i] < lastId' /\ seen[s][i] <= lastId'
    <3>1. PICK n \in Nat : n = seen[s][i] /\ n <= lastId
      BY <2>1 DEF IsServed
    <3> QED BY <1>71, <3>1
  <2>4. CASE Topic[s] # e
    <3>1. ~Owed(s)'
      <4>1. publishing' # <<>> => publishing'[1].event = e
        BY <1>2
      <4> QED BY <2>4, <4>1 DEF Owed
    <3> QED BY <1>1, <1>2, <1>5, <2>1, <2>2, <2>3, <2>4, <3>1 DEF IsServed
  <2>5. CASE Topic[s] = e
    <3>1. Owed(s)' <=> Active(s)
      <4>1. Active(s) => /\ publishing' # <<>> /\ publishing'[1].event = e /\ publishing'[1].next = 1
        BY <1>2, <2>5 DEF Active
      <4> QED BY <1>2, <2>2, <2>5, <4>1, OwedAreActive DEF Active, Owed
    <3>2. log'[Topic[s]] = lx /\ log[Topic[s]] = l
      BY <1>70, <2>5 DEF l
    <3>3. ASSUME s \notin skipped, NEW i \in 1..Len(seen[s])
          PROVE  from[s] + i - 1 \in 1..Len(l) /\ seen[s][i] = lx[from[s] + i - 1].id
      <4>1. /\ from[s] \in 1..Len(l) + 1 /\ from[s] + Len(seen[s]) - 1 <= Len(l)
            /\ seen[s][i] = l[from[s] + i - 1].id
        BY <2>1, <3>2, <3>3 DEF IsServed
      <4>2. from[s] + i - 1 \in 1..Len(l)
        <5>1. from[s] \in Nat /\ Len(seen[s]) \in Nat /\ i \in 1..Len(seen[s])
          BY <2>1
        <5> QED BY SMTT(20), <1>6, <4>1, <5>1
      <4> QED BY <1>70, <4>1, <4>2
    <3>4. from'[s] \in 1..Len(lx) + 1
      BY <1>2, <1>6, <1>70, <2>1, <3>2 DEF IsServed
    <3>5. s \notin skipped =>
            /\ from[s] + Len(seen[s]) - 1 <= Len(lx)
            /\ Active(s) => from[s] + Len(seen[s]) - 1 = Len(lx) - 1
      BY <1>6, <1>70, <2>1, <2>2, <3>2 DEF IsServed
    <3>6. s \in skipped => \A i \in 1..Len(seen[s]) - 1 : seen[s][i] < seen[s][i + 1]
      BY <2>1 DEF IsServed
    <3> QED BY <1>2, <2>2, <2>3, <3>1, <3>2, <3>3, <3>4, <3>5, <3>6, OwedAreActive DEF IsServed
  <2> QED BY <2>4, <2>5
<1> QED BY <1>2, <1>4, <1>8, <1>9, <1>10, <1>11, <1>12, <1>13 DEF MemoryInv

\* Whom the walk passes over, or leaves as it was, is served as before: a
\* listener that is passed over has seen its events in their order.
LEMMA OthersAreServed ==
  ASSUME MemoryInv, NEW s \in Subs, lastId' = lastId,
         log'[Topic[s]] = log[Topic[s]], seen'[s] = seen[s], from'[s] = from[s],
         Active(s)' <=> Active(s), Owed(s)' => Owed(s), s \in skipped => s \in skipped',
         s \notin skipped' => (Owed(s)' <=> Owed(s))
  PROVE  IsServed(s)'
<1> DEFINE l == log[Topic[s]]
<1>1. /\ Topic[s] \in Events /\ l \in Seq(Stored) /\ seen[s] \in Seq(Nat) /\ from[s] \in Nat
      /\ IsServed(s)
  BY PublisherAssumption DEF MemoryInv, MemoryTypeOK
<1>2. \A i, j \in 1..Len(l) : i < j => l[i].id < l[j].id
  BY <1>1 DEF MemoryInv, LogIsOrdered
<1> HIDE DEF l
<1>3. Len(l) \in Nat /\ Len(seen[s]) \in Nat
  BY <1>1
<1>4. s \in skipped' => \A i \in 1..Len(seen[s]) - 1 : seen[s][i] < seen[s][i + 1]
  <2>1. CASE s \in skipped
    BY <1>1, <2>1 DEF IsServed
  <2>2. ASSUME s \notin skipped, NEW i \in 1..Len(seen[s]) - 1
        PROVE  seen[s][i] < seen[s][i + 1]
    <3> DEFINE a == from[s] + i - 1
               b == from[s] + (i + 1) - 1
    <3>1. /\ from[s] \in 1..Len(l) + 1 /\ from[s] + Len(seen[s]) - 1 <= Len(l)
          /\ \A k \in 1..Len(seen[s]) : seen[s][k] = l[from[s] + k - 1].id
      BY <1>1, <2>2 DEF IsServed, l
    <3>2. PICK f \in Nat, n \in Nat, m \in Nat : f = from[s] /\ n = Len(seen[s]) /\ m = Len(l)
      BY <1>1, <1>3
    <3>3. /\ i \in 1..n /\ i + 1 \in 1..n
          /\ f + i - 1 \in 1..m /\ f + (i + 1) - 1 \in 1..m /\ f + i - 1 < f + (i + 1) - 1
      <4>1. f >= 1 /\ f + n - 1 <= m /\ i \in 1..n - 1
        BY <2>2, <3>1, <3>2
      <4> QED BY <4>1
    <3>4. seen[s][i] = l[a].id /\ seen[s][i + 1] = l[b].id
      BY <3>1, <3>2, <3>3
    <3>5. a \in 1..Len(l) /\ b \in 1..Len(l) /\ a < b
      BY <3>2, <3>3
    <3> HIDE DEF a, b
    <3> QED BY <1>2, <3>4, <3>5
  <2> QED BY <2>1, <2>2
<1>5. Owed(s)' => \A i \in 1..Len(seen[s]) : seen[s][i] < lastId
  BY <1>1 DEF IsServed
<1> QED BY <1>1, <1>4, <1>5 DEF IsServed

\* The listener at the place of the walk is called and has the event.
LEMMA CalledIsServed ==
  ASSUME MemoryInv, NEW s \in Subs, Owed(s), lastId' = lastId,
         log[Topic[s]][Len(log[Topic[s]])].id = lastId, Len(log[Topic[s]]) > 0,
         log'[Topic[s]] = log[Topic[s]], from'[s] = from[s],
         seen'[s] = Append(seen[s], lastId),
         ~Owed(s)', s \in skipped' <=> s \in skipped
  PROVE  IsServed(s)'
<1> DEFINE l == log[Topic[s]]
           n == seen'[s]
<1>1. /\ l \in Seq(Stored) /\ seen[s] \in Seq(Nat) /\ from[s] \in Nat /\ lastId \in Nat
      /\ IsServed(s) /\ Active(s)
  BY PublisherAssumption, OwedAreActive DEF MemoryInv, MemoryTypeOK
<1>2. Len(l) \in Nat /\ Len(seen[s]) \in Nat /\ \A i \in 1..Len(seen[s]) : seen[s][i] \in Nat
  BY SMTT(20), <1>1
<1>3. /\ Len(n) = Len(seen[s]) + 1 /\ n[Len(seen[s]) + 1] = lastId
      /\ \A i \in 1..Len(seen[s]) : n[i] = seen[s][i]
  BY <1>1, AppendProperties
<1>4. \A i \in 1..Len(seen[s]) : n[i] < lastId
  BY <1>1, <1>3 DEF IsServed
<1> HIDE DEF l, n
<1>5. \A i \in 1..Len(n) : i \in 1..Len(seen[s]) \/ i = Len(seen[s]) + 1
  BY <1>2, <1>3
<1>6. ASSUME NEW i \in 1..Len(n) PROVE n[i] <= lastId
  <2>1. CASE i \in 1..Len(seen[s])
    <3>1. n[i] \in Nat /\ n[i] < lastId
      BY <1>2, <1>3, <1>4, <2>1
    <3> QED BY <1>1, <3>1
  <2>2. CASE i = Len(seen[s]) + 1
    BY <1>1, <1>3, <2>2
  <2> QED BY <1>5, <2>1, <2>2
<1>7. ASSUME s \in skipped, NEW i \in 1..Len(n) - 1 PROVE n[i] < n[i + 1]
  <2>1. CASE i = Len(seen[s])
    <3>1. i \in 1..Len(seen[s])
      BY <1>2, <1>3, <2>1
    <3> QED BY <1>3, <1>4, <2>1, <3>1
  <2>2. CASE i # Len(seen[s])
    <3>1. i \in 1..Len(seen[s]) - 1 /\ i \in 1..Len(seen[s]) /\ i + 1 \in 1..Len(seen[s])
      BY <1>2, <1>3, <2>2
    <3>2. seen[s][i] < seen[s][i + 1]
      BY <1>1, <1>7, <3>1 DEF IsServed
    <3> QED BY <1>3, <3>1, <3>2
  <2> QED BY <2>1, <2>2
<1>8. ASSUME s \notin skipped
      PROVE  /\ from[s] + Len(n) - 1 = Len(l)
             /\ \A i \in 1..Len(n) : n[i] = l[from[s] + i - 1].id
  <2>1. /\ from[s] + Len(seen[s]) - 1 = Len(l) - 1
        /\ \A i \in 1..Len(seen[s]) : seen[s][i] = l[from[s] + i - 1].id
    BY <1>1, <1>8 DEF IsServed, l
  <2>2. from[s] + Len(n) - 1 = Len(l) /\ from[s] + (Len(seen[s]) + 1) - 1 = Len(l)
    BY <1>1, <1>2, <1>3, <2>1
  <2>3. l[Len(l)].id = lastId
    BY DEF l
  <2> QED BY <1>3, <1>5, <2>1, <2>2, <2>3
<1>9. log'[Topic[s]] = l /\ from'[s] = from[s] /\ from[s] \in 1..Len(l) + 1
  BY <1>1 DEF IsServed, l
<1> QED BY <1>2, <1>6, <1>7, <1>8, <1>9 DEF IsServed, n

\* What a step that only moves the walk, or changes whom it serves, must show.
LEMMA LogIsKept ==
  ASSUME MemoryInv, UNCHANGED <<clock, lastCleanup, lastId, bucket, log>>,
         MemoryTypeOK', RegisteredOnce', WalkCoversAll', \A s \in Subs : IsServed(s)'
  PROVE  MemoryInv'
<1>1. LogIsOrdered'
  BY DEF MemoryInv, LogIsOrdered
<1>2. BucketsAreEnds'
  BY DEF MemoryInv, BucketsAreEnds
<1> QED BY <1>1, <1>2 DEF MemoryInv

\* forEach has no more to visit once it is at the end.
LEMMA AdvanceFacts ==
  ASSUME MemoryInv, publishing # <<>>, Advance
  PROVE  LET p == publishing[1]
             q == publishing'[1]
         IN  /\ p \in [event : Events, next : Nat \ {0}, len : Nat \ {0}]
             /\ p.next = p.len => publishing' = <<>>
             /\ p.next # p.len => /\ publishing' = <<q>> /\ q.event = p.event
                                  /\ q.next = p.next + 1 /\ q.len = p.len
                                  /\ q \in [event : Events, next : Nat \ {0}, len : Nat \ {0}]
<1> DEFINE p == publishing[1]
           r == [p EXCEPT !.next = @ + 1]
<1>1. p \in [event : Events, next : Nat \ {0}, len : Nat \ {0}]
  BY DEF MemoryInv, MemoryTypeOK
<1>2. publishing' = IF p.next = p.len THEN <<>> ELSE <<r>>
  BY DEF Advance
<1> HIDE DEF p
<1>3. /\ r.event = p.event /\ r.next = p.next + 1 /\ r.len = p.len
      /\ r \in [event : Events, next : Nat \ {0}, len : Nat \ {0}]
  BY <1>1
<1> HIDE DEF r
<1> QED BY <1>1, <1>2, <1>3 DEF p

\* Steps of the walk keep the type of the publish that runs.
LEMMA AdvanceTypes ==
  ASSUME MemoryInv, publishing # <<>>, Advance \/ publishing' = <<>>
  PROVE  \/ publishing' = <<>>
         \/ /\ publishing' = <<publishing'[1]>>
            /\ publishing'[1] \in [event : Events, next : Nat \ {0}, len : Nat \ {0}]
BY AdvanceFacts

LEMMA SkipIndexKeeps ==
  ASSUME MemoryInv, SkipIndex
  PROVE  MemoryInv'
<1> DEFINE p == publishing[1]
<1>1. /\ publishing # <<>> /\ Advance /\ p.next > Len(listeners[p.event])
      /\ UNCHANGED <<clock, lastCleanup, lastId, listeners, bucket, log, seen, from, skipped>>
  BY DEF SkipIndex
<1>2. /\ p \in [event : Events, next : Nat \ {0}, len : Nat \ {0}] /\ p.next \in Nat
      /\ p.len \in Nat /\ p.event \in Events /\ Len(listeners[p.event]) \in Nat
      /\ p.next <= p.len
  <2>1. p \in [event : Events, next : Nat \ {0}, len : Nat \ {0}] /\ listeners \in [Events -> Seq(Subs)]
    BY <1>1 DEF MemoryInv, MemoryTypeOK
  <2> QED BY <1>1, <2>1 DEF MemoryInv, WalkCoversAll
<1>3. MemoryTypeOK'
  BY <1>1, AdvanceTypes DEF MemoryInv, MemoryTypeOK
<1>4. WalkCoversAll'
  BY <1>1, <1>2, AdvanceFacts DEF MemoryInv, WalkCoversAll
<1>5. ASSUME NEW s \in Subs PROVE ~Owed(s) /\ ~Owed(s)'
  BY <1>1, <1>2, AdvanceFacts DEF Owed
<1>6. ASSUME NEW s \in Subs PROVE IsServed(s)'
  BY <1>1, <1>5, OthersAreServed DEF Active
<1>7. RegisteredOnce'
  BY <1>1 DEF MemoryInv, RegisteredOnce
<1> QED BY <1>1, <1>3, <1>4, <1>6, <1>7, LogIsKept

LEMMA CallListenerKeeps ==
  ASSUME MemoryInv, NEW how \in Endings, CallListener(how)
  PROVE  MemoryInv'
<1> DEFINE p == publishing[1]
           l == listeners[p.event]
           lost == CASE how = "returns" -> {}
                     [] how = "leaves"  -> {p.next + 1} \cap 1..p.len
                     [] how = "throws"  -> p.next + 1..p.len
<1>1. /\ publishing # <<>> /\ p.next <= Len(l)
      /\ seen' = [seen EXCEPT ![l[p.next]] = Append(@, lastId)]
      /\ listeners' = IF how = "leaves" THEN Without(l[p.next]) ELSE listeners
      /\ skipped' = skipped \cup {l[i] : i \in lost \cap DOMAIN l}
      /\ IF how = "throws" THEN publishing' = <<>> ELSE Advance
      /\ UNCHANGED <<clock, lastCleanup, lastId, bucket, log, from>>
  BY DEF CallListener
<1>2. /\ p \in [event : Events, next : Nat \ {0}, len : Nat \ {0}]
      /\ listeners \in [Events -> Seq(Subs)] /\ lastId \in Nat
      /\ seen \in [Subs -> Seq(Nat)] /\ log \in [Events -> Seq(Stored)]
  BY <1>1 DEF MemoryInv, MemoryTypeOK
<1>3. /\ p.next \in Nat \ {0} /\ p.len \in Nat /\ p.event \in Events /\ Len(l) \in Nat
      /\ p.next <= p.len /\ Len(l) <= p.len /\ l \in Seq(Subs)
      /\ Len(log[p.event]) > 0 /\ log[p.event][Len(log[p.event])].id = lastId
  <2>1. p.event \in Events /\ p.next \in Nat \ {0} /\ p.len \in Nat
    BY <1>2
  <2>2. l \in Seq(Subs)
    BY <1>2, <2>1
  <2>3. /\ p.next <= p.len /\ Len(l) <= p.len
        /\ Len(log[p.event]) > 0 /\ log[p.event][Len(log[p.event])].id = lastId
    BY <1>1 DEF MemoryInv, WalkCoversAll
  <2>4. Len(l) \in Nat
    BY <2>2
  <2> QED BY <2>1, <2>2, <2>3, <2>4
<1>40. p.next \in 1..Len(l) /\ l[p.next] \in Subs
  <2> HIDE DEF p, l
  <2> QED BY <1>1, <1>3
<1>4. PICK s0 \in Subs : p.next \in 1..Len(l) /\ s0 = l[p.next]
  BY <1>40
<1>5. /\ \A i \in 1..Len(l) : Topic[l[i]] = p.event /\ l[i] \in Subs
      /\ \A i, j \in 1..Len(l) : l[i] = l[j] => i = j
  <2>1. RegisteredOnce
    BY DEF MemoryInv
  <2>2. \A i \in 1..Len(l) : l[i] \in Subs
    BY <1>3
  <2> QED BY <1>3, <2>1, <2>2 DEF RegisteredOnce
<1>6. Topic[s0] = p.event /\ Owed(s0) /\ Active(s0)
  <2>1. Topic[s0] = p.event
    BY <1>4, <1>5
  <2>2. p.next \in 1..Len(listeners[Topic[s0]]) /\ listeners[Topic[s0]][p.next] = s0
    BY <1>4, <2>1
  <2> HIDE DEF l
  <2>3. Owed(s0)
    BY <1>1, <1>3, <2>1, <2>2 DEF Owed
  <2> QED BY <2>1, <2>3, OwedAreActive, <1>4
<1>7. how \in {"returns", "leaves", "throws"}
  BY PublisherAssumption
<1>8. how = "leaves" =>
        /\ listeners' \in [Events -> Seq(Subs)]
        /\ \A e \in Events : e # p.event => listeners'[e] = listeners[e]
        /\ Len(listeners'[p.event]) = Len(l) - 1
        /\ \A i \in 1..Len(l) - 1 : listeners'[p.event][i] = IF i < p.next THEN l[i] ELSE l[i + 1]
  <2> SUFFICES ASSUME how = "leaves"
               PROVE  /\ listeners' \in [Events -> Seq(Subs)]
                      /\ \A e \in Events : e # p.event => listeners'[e] = listeners[e]
                      /\ Len(listeners'[p.event]) = Len(l) - 1
                      /\ \A i \in 1..Len(l) - 1 :
                           listeners'[p.event][i] = IF i < p.next THEN l[i] ELSE l[i + 1]
    OBVIOUS
  <2>1. listeners' = Without(s0)
    BY <1>1, <1>4
  <2>2. p.next \in 1..Len(listeners[Topic[s0]]) /\ listeners[Topic[s0]][p.next] = s0
    BY <1>4, <1>6
  <2> HIDE DEF p
  <2>3. LET w == Without(s0)[Topic[s0]]
        IN  /\ Without(s0) \in [Events -> Seq(Subs)]
            /\ \A e \in Events : e # Topic[s0] => Without(s0)[e] = listeners[e]
            /\ Len(w) = Len(listeners[Topic[s0]]) - 1
            /\ \A i \in 1..Len(w) : w[i] = IF i < p.next THEN listeners[Topic[s0]][i]
                                           ELSE listeners[Topic[s0]][i + 1]
    BY <1>4, <2>2, WithoutFacts
  <2> QED BY <1>6, <2>1, <2>3
<1>9. how # "leaves" => listeners' = listeners
  BY <1>1
<1> DEFINE q == publishing'[1]
<1>10. /\ publishing' # <<>> => /\ how # "throws" /\ p.next # p.len
                                /\ q.event = p.event /\ q.next = p.next + 1 /\ q.len = p.len
       /\ how # "throws" /\ p.next # p.len => publishing' # <<>>
  <2>1. CASE how = "throws"
    BY <1>1, <2>1
  <2>2. CASE how # "throws"
    <3>1. Advance
      BY <1>1, <2>2
    <3>2. /\ p.next = p.len => publishing' = <<>>
          /\ p.next # p.len => /\ publishing' = <<q>> /\ q.event = p.event
                               /\ q.next = p.next + 1 /\ q.len = p.len
      BY <1>1, <3>1, AdvanceFacts
    <3>3. <<q>> # <<>>
      OBVIOUS
    <3> HIDE DEF p, q
    <3> QED BY <2>2, <3>2, <3>3
  <2> QED BY <2>1, <2>2
<1>11. \A i \in lost : i \in Nat /\ i # p.next
  BY <1>3, <1>7
<1>12. \A s : s \in skipped' <=> (s \in skipped \/ \E i \in lost \cap 1..Len(l) : s = l[i])
  <2>1. DOMAIN l = 1..Len(l)
    BY <1>3
  <2> HIDE DEF lost, l
  <2> QED BY <1>1, <2>1
<1>13. \A i \in 1..Len(l) : i > p.next =>
         \/ i \in lost
         \/ how = "returns"
         \/ how = "leaves" /\ i > p.next + 1
  BY <1>3, <1>7
<1>14. how = "returns" => lost = {}
  OBVIOUS
<1>15. MemoryTypeOK'
  <2>1. listeners' \in [Events -> Seq(Subs)]
    BY <1>2, <1>8, <1>9
  <2>2. seen' \in [Subs -> Seq(Nat)]
    <3>1. Append(seen[s0], lastId) \in Seq(Nat)
      BY <1>2, <1>4, AppendProperties
    <3> QED BY <1>1, <1>2, <1>4, <3>1
  <2>3. skipped' \subseteq Subs
    <3>1. skipped \subseteq Subs
      BY DEF MemoryInv, MemoryTypeOK
    <3> HIDE DEF l, lost
    <3> QED BY <1>5, <1>12, <3>1
  <2>4. Advance \/ publishing' = <<>>
    BY <1>1
  <2> HIDE DEF p, l, lost, q
  <2> QED BY <1>1, <2>1, <2>2, <2>3, <2>4, AdvanceTypes DEF MemoryInv, MemoryTypeOK
<1> HIDE DEF p, lost
<1>16. \A i \in 1..Len(l) - 1 : i \in 1..Len(l) /\ i + 1 \in 1..Len(l) /\ i # i + 1
  BY <1>3
<1>17. RegisteredOnce'
  <2> SUFFICES ASSUME NEW e \in Events, NEW i \in 1..Len(listeners'[e])
               PROVE  /\ Topic[listeners'[e][i]] = e
                      /\ \A j \in 1..Len(listeners'[e]) :
                           listeners'[e][i] = listeners'[e][j] => i = j
    BY DEF RegisteredOnce
  <2>1. CASE listeners'[e] = listeners[e]
    BY <2>1 DEF MemoryInv, RegisteredOnce
  <2>2. CASE how = "leaves" /\ e = p.event
    <3> DEFINE w == listeners'[e]
    <3>1. Len(w) = Len(l) - 1 /\ \A j \in 1..Len(w) : w[j] = IF j < p.next THEN l[j] ELSE l[j + 1]
      BY <1>8, <2>2
    <3> HIDE DEF w, l
    <3>2. Topic[w[i]] = e
      <4>1. i \in 1..Len(l) - 1 /\ (w[i] = l[i] \/ w[i] = l[i + 1])
        BY <3>1 DEF w
      <4>2. Topic[l[i]] = e /\ Topic[l[i + 1]] = e
        BY <1>5, <1>16, <2>2, <4>1
      <4> QED BY <4>1, <4>2
    <3>3. ASSUME NEW j \in 1..Len(w), w[i] = w[j] PROVE i = j
      <4>1. i \in 1..Len(l) - 1 /\ j \in 1..Len(l) - 1
        BY <3>1 DEF w
      <4>2. PICK a \in 1..Len(l), b \in 1..Len(l) :
              /\ l[a] = l[b] /\ a = (IF i < p.next THEN i ELSE i + 1)
              /\ b = (IF j < p.next THEN j ELSE j + 1)
        BY <1>16, <3>1, <3>3, <4>1 DEF w
      <4>3. a = b
        BY <1>5, <4>2
      <4> QED BY <1>3, <4>1, <4>2, <4>3
    <3> QED BY <3>2, <3>3 DEF w
  <2> QED BY <1>8, <1>9, <2>1, <2>2
<1>18. WalkCoversAll'
  <2>1. Len(listeners'[p.event]) <= p.len
    BY <1>3, <1>8, <1>9
  <2> SUFFICES ASSUME publishing' # <<>>
               PROVE  /\ q.next <= q.len /\ Len(listeners'[q.event]) <= q.len
                      /\ Len(log'[q.event]) > 0 /\ log'[q.event][Len(log'[q.event])].id = lastId'
    BY DEF WalkCoversAll
  <2>2. q.event = p.event /\ q.next = p.next + 1 /\ q.len = p.len /\ p.next # p.len
    BY <1>10
  <2> HIDE DEF q, l
  <2> QED BY <1>1, <1>3, <2>1, <2>2
<1>19. ~Owed(s0)' /\ (s0 \in skipped' <=> s0 \in skipped)
  <2>1. s0 \in skipped' <=> s0 \in skipped
    BY <1>4, <1>5, <1>11, <1>12
  <2>2. ASSUME Owed(s0)' PROVE FALSE
    <3>1. PICK i \in 1..Len(listeners'[p.event]) : /\ listeners'[p.event][i] = s0
                                                   /\ i >= p.next + 1
      <4>1. publishing' # <<>>
        BY <2>2 DEF Owed
      <4>2. q.next = p.next + 1
        BY <1>10, <4>1
      <4> QED BY <1>6, <2>2, <4>2 DEF Owed
    <3>2. CASE how = "leaves"
      <4>1. i \in 1..Len(l) - 1 /\ s0 = l[i + 1] /\ i + 1 # p.next
        <5> HIDE DEF l
        <5>1. i \in 1..Len(l) - 1 /\ s0 = IF i < p.next THEN l[i] ELSE l[i + 1]
          BY <1>8, <3>1, <3>2
        <5>2. ~(i < p.next) /\ i + 1 # p.next
          BY <1>3, <3>1, <5>1
        <5> QED BY <5>1, <5>2
      <4> QED BY <1>4, <1>5, <1>16, <4>1
    <3>3. CASE how # "leaves"
      <4>1. i \in 1..Len(l) /\ s0 = l[i] /\ i # p.next
        BY <1>3, <1>9, <3>1, <3>3
      <4> QED BY <1>4, <1>5, <4>1
    <3> QED BY <3>2, <3>3
  <2> QED BY <2>1, <2>2
<1>20. IsServed(s0)'
  <2>1. seen'[s0] = Append(seen[s0], lastId)
    BY <1>1, <1>2, <1>4
  <2>2. UNCHANGED <<lastId, log, from>> /\ Topic[s0] = p.event
    BY <1>1, <1>6
  <2> HIDE DEF l
  <2>3. /\ log[Topic[s0]][Len(log[Topic[s0]])].id = lastId /\ Len(log[Topic[s0]]) > 0
        /\ lastId' = lastId /\ log'[Topic[s0]] = log[Topic[s0]] /\ from'[s0] = from[s0]
    BY <1>3, <2>2
  <2> QED BY <1>4, <1>6, <1>19, <2>1, <2>3, CalledIsServed
<1>21. ASSUME NEW s \in Subs, s # s0 PROVE IsServed(s)'
  <2>1. /\ Topic[s] \in Events /\ seen'[s] = seen[s] /\ lastId' = lastId /\ from'[s] = from[s]
        /\ log'[Topic[s]] = log[Topic[s]] /\ (s \in skipped => s \in skipped')
    <3>1. seen'[s] = seen[s]
      BY <1>1, <1>2, <1>4, <1>21
    <3> QED BY <1>1, <1>12, <3>1, PublisherAssumption
  <2>2. CASE Topic[s] # p.event
    <3>1. listeners'[Topic[s]] = listeners[Topic[s]]
      BY <1>8, <1>9, <2>1, <2>2
    <3>2. ~Owed(s) /\ ~Owed(s)'
      BY <1>1, <1>10, <2>2 DEF Owed, p
    <3>3. Active(s)' <=> Active(s)
      BY <3>1 DEF Active
    <3> HIDE DEF l
    <3> QED BY <2>1, <3>2, <3>3, OthersAreServed
  <2>3. CASE Topic[s] = p.event
    <3> DEFINE w == listeners'[p.event]
               At(i) == i \in 1..Len(l) /\ l[i] = s
               AtNow(i) == i \in 1..Len(w) /\ w[i] = s
    <3>1. /\ Active(s) <=> \E i \in 1..Len(l) : At(i)
          /\ Active(s)' <=> \E i \in 1..Len(w) : AtNow(i)
          /\ Owed(s) <=> \E i \in 1..Len(l) : At(i) /\ i >= p.next
          /\ Owed(s)' <=> /\ publishing' # <<>>
                          /\ \E i \in 1..Len(w) : AtNow(i) /\ i >= q.next
      BY <1>1, <1>10, <2>3 DEF Active, Owed, p
    <3>2. ASSUME NEW i \in 1..Len(l), At(i)
          PROVE  i # p.next /\ \A j \in 1..Len(l) : At(j) => i = j
      BY <1>4, <1>5, <1>21, <3>2
    <3>3. \A i \in 1..Len(l) : At(i) => IF how = "leaves" /\ i > p.next THEN AtNow(i - 1) ELSE AtNow(i)
      <4> SUFFICES ASSUME NEW i \in 1..Len(l), At(i)
                   PROVE  IF how = "leaves" /\ i > p.next THEN AtNow(i - 1) ELSE AtNow(i)
        OBVIOUS
      <4>1. CASE how = "leaves"
        <5>1. /\ Len(w) = Len(l) - 1
              /\ \A j \in 1..Len(l) - 1 : w[j] = IF j < p.next THEN l[j] ELSE l[j + 1]
          BY <1>8, <4>1
        <5>2. i # p.next
          BY <3>2
        <5> HIDE DEF w
        <5>3. CASE i > p.next
          <6>1. i - 1 \in 1..Len(l) - 1 /\ ~(i - 1 < p.next) /\ (i - 1) + 1 = i
            BY <1>3, <5>3
          <6> QED BY <4>1, <5>1, <5>3, <6>1
        <5>4. CASE ~(i > p.next)
          <6>1. i \in 1..Len(l) - 1 /\ i < p.next
            BY <1>3, <1>4, <5>2, <5>4
          <6> QED BY <5>1, <5>4, <6>1
        <5> QED BY <5>3, <5>4
      <4>2. CASE how # "leaves"
        BY <1>9, <4>2 DEF l
      <4> QED BY <4>1, <4>2
    <3>4. \A i \in 1..Len(w) : AtNow(i) => IF how = "leaves" /\ i >= p.next THEN At(i + 1) ELSE At(i)
      <4> SUFFICES ASSUME NEW i \in 1..Len(w), AtNow(i)
                   PROVE  IF how = "leaves" /\ i >= p.next THEN At(i + 1) ELSE At(i)
        OBVIOUS
      <4>1. CASE how = "leaves"
        <5>1. /\ Len(w) = Len(l) - 1
              /\ \A j \in 1..Len(l) - 1 : w[j] = IF j < p.next THEN l[j] ELSE l[j + 1]
          BY <1>8, <4>1
        <5> HIDE DEF w
        <5>2. i \in 1..Len(l) - 1 /\ i \in 1..Len(l) /\ i + 1 \in 1..Len(l)
          BY <1>3, <5>1
        <5>3. w[i] = IF i < p.next THEN l[i] ELSE l[i + 1]
          BY <5>1, <5>2
        <5>4. i < p.next <=> ~(i >= p.next)
          BY <1>3, <5>2
        <5> QED BY <4>1, <5>2, <5>3, <5>4
      <4>2. CASE how # "leaves"
        BY <1>9, <4>2 DEF l
      <4> QED BY <4>1, <4>2
    <3>5. Len(w) \in Nat
      BY <1>3, <1>8, <1>9 DEF l
    <3>6. Active(s)' <=> Active(s)
      <4>1. Active(s) => Active(s)'
        BY <3>1, <3>3 DEF AtNow
      <4>2. Active(s)' => Active(s)
        BY <3>1, <3>4 DEF At
      <4> QED BY <4>1, <4>2
    <3>7. Owed(s)' => Owed(s)
      <4> SUFFICES ASSUME Owed(s)' PROVE Owed(s)
        OBVIOUS
      <4>1. PICK i \in 1..Len(w) : AtNow(i) /\ i >= p.next + 1
        BY <1>10, <3>1
      <4>2. CASE At(i)
        BY <1>3, <3>1, <4>1, <4>2
      <4>3. CASE At(i + 1)
        BY <1>3, <3>1, <4>1, <4>3
      <4> QED BY <3>4, <4>1, <4>2, <4>3
    <3>8. ASSUME s \notin skipped', Owed(s) PROVE Owed(s)'
      <4>1. PICK i \in 1..Len(l) : At(i) /\ i >= p.next
        BY <3>1, <3>8
      <4>2. i > p.next
        BY <1>3, <3>2, <4>1
      <4>3. i \notin lost
        BY <1>12, <3>8, <4>1
      <4>4. how = "returns" \/ (how = "leaves" /\ i > p.next + 1)
        BY <1>13, <4>2, <4>3
      <4>5. publishing' # <<>> /\ q.next = p.next + 1
        BY <1>3, <1>10, <4>2, <4>4
      <4>6. CASE how = "returns"
        <5>1. AtNow(i) /\ i >= p.next + 1
          BY <1>3, <3>3, <4>1, <4>2, <4>6
        <5> QED BY <3>1, <4>5, <5>1
      <4>7. CASE how = "leaves" /\ i > p.next + 1
        <5>1. AtNow(i - 1) /\ i - 1 >= p.next + 1
          BY <1>3, <3>3, <4>1, <4>2, <4>7
        <5> QED BY <3>1, <4>5, <5>1
      <4> QED BY <4>4, <4>6, <4>7
    <3>9. s \notin skipped' => (Owed(s)' <=> Owed(s))
      BY <3>7, <3>8
    <3> HIDE DEF l, w, At, AtNow
    <3> QED BY <2>1, <3>6, <3>7, <3>9, OthersAreServed
  <2> QED BY <2>2, <2>3
<1>22. \A s \in Subs : IsServed(s)'
  <2> QED BY <1>20, <1>21
<1> QED BY <1>1, <1>15, <1>17, <1>18, <1>22, LogIsKept

\* What subscribing does whether or not it resumes: it cleans up and registers.
Registers(s) ==
  /\ publishing = <<>> /\ ~Active(s)
  /\ Cleanup
  /\ bucket' = BucketsAfterCleanup
  /\ listeners' = [listeners EXCEPT ![Topic[s]] = Append(@, s)]
  /\ UNCHANGED <<clock, lastId, publishing, log>>

LEMMA RegistersKeeps ==
  ASSUME MemoryInv, NEW s \in Subs, Registers(s),
         seen' \in [Subs -> Seq(Nat)], from' \in [Subs -> Nat], skipped' \subseteq Subs,
         IsServed(s)',
         \A t \in Subs : t # s => /\ seen'[t] = seen[t] /\ from'[t] = from[t]
                                  /\ t \in skipped' <=> t \in skipped
  PROVE  MemoryInv'
<1> DEFINE l == listeners[Topic[s]]
           w == Append(l, s)
<1>1. /\ Topic[s] \in Events /\ listeners \in [Events -> Seq(Subs)] /\ clock \in Nat
      /\ publishing = <<>> /\ ~Active(s) /\ Cleanup /\ bucket' = BucketsAfterCleanup
      /\ listeners' = [listeners EXCEPT ![Topic[s]] = w]
      /\ UNCHANGED <<clock, lastId, publishing, log>>
  BY PublisherAssumption DEF MemoryInv, MemoryTypeOK, Registers
<1>2. l \in Seq(Subs)
  BY <1>1
<1>3. /\ w \in Seq(Subs) /\ Len(w) = Len(l) + 1 /\ w[Len(l) + 1] = s /\ Len(l) \in Nat
      /\ \A i \in 1..Len(l) : w[i] = l[i]
  BY <1>2, AppendProperties
<1>4. listeners'[Topic[s]] = w /\ \A e \in Events : e # Topic[s] => listeners'[e] = listeners[e]
  BY <1>1
<1>5. \A i \in 1..Len(l) : l[i] # s /\ Topic[l[i]] = Topic[s]
                          /\ \A j \in 1..Len(l) : l[i] = l[j] => i = j
  BY <1>1 DEF Active, MemoryInv, RegisteredOnce
<1> HIDE DEF l, w
<1>6. \A e \in Events : /\ bucket'[e] \in Seq(Stored)
                        /\ IsEndOf(bucket'[e], log[e], clock)
                        /\ \A i \in 1..Len(bucket'[e]) : bucket'[e][i].expiresAt > lastCleanup'
  BY <1>1, CleanupKeeps
<1>7. lastCleanup' \in Nat /\ lastCleanup' <= clock'
  BY <1>1, CleanupKeeps
<1>8. MemoryTypeOK'
  <2>1. bucket' \in [Events -> Seq(Stored)]
    <3>1. bucket' = [e \in Events |-> bucket'[e]]
      BY <1>1 DEF MemoryInv, MemoryTypeOK, BucketsAfterCleanup, Cleaned
    <3> QED BY <1>6, <3>1
  <2>2. listeners' \in [Events -> Seq(Subs)]
    BY <1>1, <1>3
  <2> QED BY <1>1, <1>7, <2>1, <2>2 DEF MemoryInv, MemoryTypeOK
<1>9. RegisteredOnce'
  <2> SUFFICES ASSUME NEW e \in Events, NEW i \in 1..Len(listeners'[e])
               PROVE  /\ Topic[listeners'[e][i]] = e
                      /\ \A j \in 1..Len(listeners'[e]) :
                           listeners'[e][i] = listeners'[e][j] => i = j
    BY DEF RegisteredOnce
  <2>1. CASE e # Topic[s]
    BY <1>4, <2>1 DEF MemoryInv, RegisteredOnce
  <2>2. CASE e = Topic[s]
    <3>1. \A j \in 1..Len(w) : j \in 1..Len(l) \/ j = Len(l) + 1
      BY <1>3
    <3>2. listeners'[e] = w
      BY <1>4, <2>2
    <3>3. Topic[w[i]] = e
      <4>1. i \in 1..Len(w)
        BY <3>2
      <4>2. CASE i \in 1..Len(l)
        BY <1>3, <1>5, <2>2, <4>2
      <4>3. CASE i = Len(l) + 1
        BY <1>3, <2>2, <4>3
      <4> QED BY <3>1, <4>1, <4>2, <4>3
    <3>4. ASSUME NEW j \in 1..Len(w), w[i] = w[j] PROVE i = j
      <4>1. i \in 1..Len(w)
        BY <3>2
      <4>2. CASE i = Len(l) + 1 /\ j = Len(l) + 1
        BY <4>2
      <4>3. CASE i \in 1..Len(l) /\ j \in 1..Len(l)
        BY <1>3, <1>5, <3>4, <4>3
      <4>4. CASE i \in 1..Len(l) /\ j = Len(l) + 1
        BY <1>3, <1>5, <3>4, <4>4
      <4>5. CASE i = Len(l) + 1 /\ j \in 1..Len(l)
        BY <1>3, <1>5, <3>4, <4>5
      <4> QED BY <3>1, <4>1, <4>2, <4>3, <4>4, <4>5
    <3> QED BY <3>2, <3>3, <3>4
  <2> QED BY <2>1, <2>2
<1>10. LogIsOrdered' /\ BucketsAreEnds' /\ WalkCoversAll'
  BY <1>1, <1>6 DEF MemoryInv, LogIsOrdered, BucketsAreEnds, WalkCoversAll
<1>11. ASSUME NEW t \in Subs, t # s PROVE IsServed(t)'
  <2>1. ~Owed(t) /\ ~Owed(t)'
    BY <1>1 DEF Owed
  <2>2. Topic[t] \in Events
    BY PublisherAssumption
  <2>3. Active(t)' <=> Active(t)
    <3>1. CASE Topic[t] # Topic[s]
      BY <1>4, <2>2, <3>1 DEF Active
    <3>2. CASE Topic[t] = Topic[s]
      <4>1. /\ Active(t) <=> \E i \in 1..Len(l) : l[i] = t
            /\ Active(t)' <=> \E i \in 1..Len(w) : w[i] = t
        BY <1>4, <3>2 DEF Active, l
      <4>2. \A i \in 1..Len(w) : i \in 1..Len(l) \/ w[i] = s
        BY <1>3
      <4>3. \A i \in 1..Len(l) : i \in 1..Len(w)
        BY <1>3
      <4> QED BY <1>3, <1>11, <4>1, <4>2, <4>3
    <3> QED BY <3>1, <3>2
  <2>4. lastId' = lastId /\ log'[Topic[t]] = log[Topic[t]] /\ IsServed(t)
    BY <1>1 DEF MemoryInv
  <2>5. seen'[t] = seen[t] /\ from'[t] = from[t] /\ (t \in skipped' <=> t \in skipped)
    BY <1>11
  <2> QED BY <2>1, <2>3, <2>4, <2>5, ServedAsBefore
<1> QED BY <1>7, <1>8, <1>9, <1>10, <1>11 DEF MemoryInv

LEMMA SubscribeListenerKeeps ==
  ASSUME MemoryInv, NEW s \in Subs, SubscribeListener(s)
  PROVE  MemoryInv'
<1> DEFINE l == log[Topic[s]]
<1>1. /\ Registers(s)
      /\ seen' = [seen EXCEPT ![s] = <<>>] /\ from' = [from EXCEPT ![s] = Len(l) + 1]
      /\ skipped' = skipped \ {s} /\ publishing = <<>>
      /\ UNCHANGED <<clock, lastId, publishing, log>>
  BY DEF SubscribeListener, Registers
<1>2. /\ Topic[s] \in Events /\ seen \in [Subs -> Seq(Nat)] /\ from \in [Subs -> Nat]
      /\ skipped \subseteq Subs /\ log \in [Events -> Seq(Stored)]
  BY PublisherAssumption DEF MemoryInv, MemoryTypeOK
<1>3. Len(l) \in Nat
  BY <1>2
<1>4. /\ seen' \in [Subs -> Seq(Nat)] /\ from' \in [Subs -> Nat] /\ skipped' \subseteq Subs
      /\ seen'[s] = <<>> /\ from'[s] = Len(l) + 1 /\ s \notin skipped'
      /\ \A t \in Subs : t # s => /\ seen'[t] = seen[t] /\ from'[t] = from[t]
                                  /\ t \in skipped' <=> t \in skipped
  BY <1>1, <1>2, <1>3
<1>5. ~Owed(s)'
  BY <1>1 DEF Owed
<1>6. IsServed(s)'
  BY <1>1, <1>3, <1>4, <1>5 DEF IsServed
<1> HIDE DEF l
<1> QED BY <1>1, <1>4, <1>6, RegistersKeeps

\* What is replayed to one who resumes after last: the end of its log, all of it
\* later than last, and everything later that has not expired.
LEMMA ReplayIsEnd ==
  ASSUME MemoryInv, Cleanup, NEW s \in Subs, NEW last \in Nat
  PROVE  LET l == log[Topic[s]]
             r == Ids(Replayed(BucketsAfterCleanup[Topic[s]], last))
         IN  /\ r \in Seq(Nat) /\ Len(r) <= Len(l)
             /\ \A i \in 1..Len(r) : r[i] = l[Len(l) - Len(r) + i].id /\ r[i] > last
             /\ \A i \in 1..Len(l) : l[i].id > last /\ l[i].expiresAt > clock => i > Len(l) - Len(r)
<1> DEFINE l == log[Topic[s]]
           b == BucketsAfterCleanup[Topic[s]]
           a == After(b, last)
           r == Ids(a)
<1>1. Topic[s] \in Events /\ log \in [Events -> Seq(Stored)]
  BY PublisherAssumption DEF MemoryInv, MemoryTypeOK
<1>2. /\ l \in Seq(Stored) /\ b \in Seq(Stored) /\ IsEndOf(b, l, clock)
      /\ \A i, j \in 1..Len(l) : i < j => l[i].id < l[j].id
  BY <1>1, CleanupKeeps DEF MemoryInv, LogIsOrdered
<1>3. Len(l) \in Nat /\ Len(b) \in Nat /\ Len(b) <= Len(l)
  BY <1>2 DEF IsEndOf
<1> HIDE DEF l, b
<1> DEFINE k == Len(l) - Len(b)
<1>4. k \in Nat /\ \A i \in 1..Len(b) : k + i \in 1..Len(l) /\ b[i] = l[k + i]
  BY <1>2, <1>3 DEF IsEndOf
<1>5. \A i \in 1..Len(l) : l[i].expiresAt > clock => i > k
  BY <1>2 DEF IsEndOf
<1>6. k + Len(b) = Len(l)
  BY <1>3
<1> HIDE DEF k
<1>7. \A i, j \in 1..Len(b) : i < j => b[i].id < b[j].id
  <2> SUFFICES ASSUME NEW i \in 1..Len(b), NEW j \in 1..Len(b), i < j PROVE b[i].id < b[j].id
    OBVIOUS
  <2>1. k + i < k + j
    BY <1>4
  <2> QED BY <1>2, <1>4, <2>1
<1>8. PICK n \in 1..Len(b) + 1 :
        /\ a \in Seq(Stored) /\ Len(a) = Len(b) - n + 1
        /\ \A i \in 1..Len(a) : a[i] = b[n + i - 1]
        /\ \A j \in 1..n - 1 : b[j].id <= last
        /\ \A j \in n..Len(b) : b[j].id > last
  BY <1>2, <1>7, AfterIsEnd
<1> HIDE DEF a
<1>9. Len(a) \in Nat /\ \A i \in 1..Len(a) : a[i].id \in Nat
  BY <1>8, StoredFacts
<1>10. r \in Seq(Nat) /\ Len(r) = Len(a) /\ \A i \in 1..Len(a) : r[i] = a[i].id
  BY <1>9 DEF Ids
<1> HIDE DEF r
<1>11. ASSUME NEW i \in 1..Len(r) PROVE r[i] = l[Len(l) - Len(r) + i].id /\ r[i] > last
  <2> DEFINE j == n + i - 1
  <2>1. j \in n..Len(b) /\ j \in 1..Len(b) /\ k + j = Len(l) - Len(r) + i
    <3>1. Len(r) = Len(b) - n + 1 /\ n \in 1..Len(b) + 1 /\ i \in 1..Len(r)
      BY <1>8, <1>10
    <3>2. k \in Nat
      BY <1>4
    <3> QED BY <1>3, <1>6, <3>1, <3>2
  <2>2. r[i] = b[j].id
    BY <1>8, <1>10
  <2> HIDE DEF j
  <2> QED BY <1>4, <1>8, <2>1, <2>2
<1>12. ASSUME NEW i \in 1..Len(l), l[i].id > last, l[i].expiresAt > clock PROVE i > Len(l) - Len(r)
  <2>1. i > k
    BY <1>5, <1>12
  <2> DEFINE j == i - k
  <2>2. j \in 1..Len(b) /\ k + j = i
    BY <1>3, <1>4, <1>6, <2>1
  <2>3. b[j] = l[i] /\ l[i].id \in Nat
    BY <1>2, <1>4, <2>2, StoredFacts
  <2> HIDE DEF j
  <2>4. ~(j \in 1..n - 1)
    BY SMTT(20), <1>8, <1>12, <2>3
  <2> QED BY <1>3, <1>4, <1>6, <1>8, <1>10, <2>2, <2>4
<1>13. Len(r) <= Len(l)
  BY <1>3, <1>8, <1>10
<1> QED BY <1>10, <1>11, <1>12, <1>13 DEF Replayed, r, a, b, l

LEMMA ResumeKeeps ==
  ASSUME MemoryInv, NEW s \in Subs, Resume(s)
  PROVE  MemoryInv'
<1> DEFINE l == log[Topic[s]]
           old == seen[s]
           last == old[Len(old)]
           r == Ids(Replayed(BucketsAfterCleanup[Topic[s]], last))
           n == old \o r
<1>1. /\ Registers(s) /\ Cleanup /\ old # <<>> /\ publishing = <<>> /\ ~Active(s)
      /\ IF ExpiredSince(s, last) = 0
         THEN seen' = [seen EXCEPT ![s] = @ \o r] /\ UNCHANGED <<from, skipped>>
         ELSE /\ seen' = [seen EXCEPT ![s] = r]
              /\ from' = [from EXCEPT ![s] = Len(l) + 1 - Len(r)]
              /\ skipped' = skipped \ {s}
      /\ UNCHANGED <<clock, lastId, publishing, log>>
  BY DEF Resume, Registers
<1>2. /\ Topic[s] \in Events /\ seen \in [Subs -> Seq(Nat)] /\ from \in [Subs -> Nat]
      /\ skipped \subseteq Subs /\ log \in [Events -> Seq(Stored)] /\ lastId \in Nat
      /\ clock \in Nat /\ IsServed(s)
  BY PublisherAssumption DEF MemoryInv, MemoryTypeOK
<1>3. l \in Seq(Stored) /\ old \in Seq(Nat) /\ from[s] \in Nat
  BY <1>2
<1>4. \A i \in 1..Len(l) : /\ l[i].id <= lastId
                           /\ \A j \in 1..Len(l) : i < j => l[i].id < l[j].id
  BY <1>2 DEF MemoryInv, LogIsOrdered
<1>5. Len(l) \in Nat /\ Len(old) \in Nat \ {0} /\ \A i \in 1..Len(old) : old[i] \in Nat
  BY <1>1, <1>3, EmptySeq
<1>6. /\ r \in Seq(Nat) /\ Len(r) <= Len(l)
      /\ \A i \in 1..Len(r) : r[i] = l[Len(l) - Len(r) + i].id /\ r[i] > last
      /\ \A i \in 1..Len(l) : l[i].id > last /\ l[i].expiresAt > clock => i > Len(l) - Len(r)
  <2>1. last \in Nat
    BY <1>5
  <2> HIDE DEF last
  <2> QED BY <1>1, <2>1, ReplayIsEnd
<1>7. /\ n \in Seq(Nat) /\ Len(n) = Len(old) + Len(r) /\ Len(r) \in Nat
      /\ \A i \in 1..Len(old) : n[i] = old[i]
      /\ \A i \in 1..Len(r) : n[Len(old) + i] = r[i]
  <2> HIDE DEF r, old
  <2>1. /\ n \in Seq(Nat) /\ Len(n) = Len(old) + Len(r) /\ Len(r) \in Nat
        /\ \A i \in 1..Len(old) + Len(r) : n[i] = IF i <= Len(old) THEN old[i] ELSE r[i - Len(old)]
    BY <1>3, <1>6, ConcatProperties
  <2> QED BY <1>5, <2>1
<1> HIDE DEF l, old, last, r, n
<1>70. /\ Len(n) = Len(old) + Len(r) /\ Len(r) \in Nat /\ Len(r) <= Len(l)
       /\ Len(old) \in Nat \ {0} /\ Len(l) \in Nat /\ from[s] \in Nat
  BY <1>3, <1>5, <1>6, <1>7
<1>8. \A i \in 1..Len(n) : i \in 1..Len(old) \/ \E j \in 1..Len(r) : i = Len(old) + j
  <2> SUFFICES ASSUME NEW i \in 1..Len(n), i \notin 1..Len(old)
               PROVE  \E j \in 1..Len(r) : i = Len(old) + j
    OBVIOUS
  <2>1. i - Len(old) \in 1..Len(r) /\ i = Len(old) + (i - Len(old))
    BY <1>70
  <2> QED BY <2>1
<1>9. \A i \in 1..Len(r) : Len(l) - Len(r) + i \in 1..Len(l) /\ r[i] <= lastId /\ r[i] \in Nat
  <2> SUFFICES ASSUME NEW i \in 1..Len(r)
               PROVE  Len(l) - Len(r) + i \in 1..Len(l) /\ r[i] <= lastId /\ r[i] \in Nat
    OBVIOUS
  <2>1. Len(l) - Len(r) + i \in 1..Len(l)
    BY <1>70
  <2>2. r[i] = l[Len(l) - Len(r) + i].id
    BY <1>6
  <2>3. r[i] \in Nat
    BY <1>6
  <2> QED BY <1>4, <2>1, <2>2, <2>3
<1>10. ~Owed(s)'
  BY <1>1 DEF Owed
<1>11. CASE ExpiredSince(s, last) = 0
  <2>1. /\ seen'[s] = n /\ from'[s] = from[s] /\ skipped' = skipped
        /\ seen' \in [Subs -> Seq(Nat)] /\ from' \in [Subs -> Nat] /\ skipped' \subseteq Subs
        /\ \A t \in Subs : t # s => seen'[t] = seen[t] /\ from'[t] = from[t]
    BY <1>1, <1>2, <1>7, <1>11 DEF n, old
  <2>2. \A i \in 1..Len(n) : n[i] <= lastId
    <3>1. \A i \in 1..Len(old) : old[i] <= lastId
      BY <1>2 DEF IsServed, old
    <3> QED BY <1>7, <1>8, <1>9, <3>1
  <2>3. ASSUME s \in skipped, NEW i \in 1..Len(n) - 1 PROVE n[i] < n[i + 1]
    <3>1. CASE i < Len(old)
      <4>1. i \in 1..Len(old) - 1 /\ i \in 1..Len(old) /\ i + 1 \in 1..Len(old)
        BY <1>5, <3>1
      <4>2. old[i] < old[i + 1]
        BY <1>2, <2>3, <4>1 DEF IsServed, old
      <4> QED BY <1>7, <4>1, <4>2
    <3>2. CASE i = Len(old)
      <4>1. i \in 1..Len(old) /\ 1 \in 1..Len(r)
        BY <1>5, <1>7, <3>2
      <4>2. n[i] = last /\ n[i + 1] = r[1]
        BY <1>7, <3>2, <4>1 DEF last
      <4> QED BY <1>6, <4>1, <4>2
    <3>3. CASE i > Len(old)
      <4> DEFINE j == i - Len(old)
                 a == Len(l) - Len(r) + j
                 b == Len(l) - Len(r) + (j + 1)
      <4>1. /\ j \in 1..Len(r) /\ j + 1 \in 1..Len(r) /\ i = Len(old) + j /\ i + 1 = Len(old) + (j + 1)
            /\ a < b
        BY <1>70, <3>3
      <4> HIDE DEF j
      <4>2. n[i] = r[j] /\ n[i + 1] = r[j + 1]
        BY <1>7, <4>1
      <4>3. a \in 1..Len(l) /\ b \in 1..Len(l) /\ r[j] = l[a].id /\ r[j + 1] = l[b].id
        BY <1>6, <1>9, <4>1
      <4> HIDE DEF a, b
      <4> QED BY <1>4, <4>1, <4>2, <4>3
    <3> QED BY <1>5, <3>1, <3>2, <3>3
  <2>4. ASSUME s \notin skipped
        PROVE  /\ from[s] + Len(n) - 1 = Len(l)
               /\ \A i \in 1..Len(n) : n[i] = l[from[s] + i - 1].id
    <3> DEFINE m == from[s] + Len(old) - 1
    <3>1. /\ m \in 1..Len(l) /\ last = l[m].id
          /\ \A i \in 1..Len(old) : old[i] = l[from[s] + i - 1].id
      <4>1. /\ from[s] \in 1..Len(l) + 1 /\ m <= Len(l)
            /\ \A i \in 1..Len(old) : old[i] = l[from[s] + i - 1].id
        BY <1>2, <2>4 DEF IsServed, l, old
      <4>2. Len(old) \in 1..Len(old)
        BY <1>5
      <4>3. m \in 1..Len(l)
        BY <1>5, <4>1
      <4>4. last = old[Len(old)]
        BY DEF last
      <4> QED BY <4>1, <4>2, <4>3, <4>4
    <3> DEFINE gone == {i \in 1..Len(l) : l[i].id > last /\ l[i].expiresAt <= clock}
    <3>2. gone = {}
      <4>1. IsFiniteSet(gone) /\ Cardinality(gone) = 0
        <5>1. IsFiniteSet(1..Len(l)) /\ gone \in SUBSET (1..Len(l))
          <6>1. 1 \in Int /\ Len(l) \in Int
            BY <1>70
          <6>2. IsFiniteSet(1..Len(l))
            BY <6>1, FS_Interval
          <6> QED BY <6>2
        <5>2. Cardinality(gone) = 0
          BY <1>11 DEF ExpiredSince, l
        <5> HIDE DEF gone
        <5> QED BY <5>1, <5>2, FS_Subset
      <4> HIDE DEF gone
      <4> QED BY <4>1, FS_EmptySet
    <3> HIDE DEF m, gone
    <3>3. ASSUME NEW i \in 1..Len(l), i > m PROVE i > Len(l) - Len(r)
      <4>1. l[i].id > last /\ l[i].expiresAt \in Nat /\ last \in Nat
        BY <1>3, <1>4, <3>1, <3>3, StoredFacts
      <4>2. l[i].expiresAt > clock
        <5>1. i \notin gone
          BY <3>2
        <5>2. ~(l[i].expiresAt <= clock)
          BY <4>1, <5>1 DEF gone
        <5> QED BY <1>2, <4>1, <5>2
      <4> QED BY <1>6, <4>1, <4>2
    <3>4. m <= Len(l) - Len(r)
      <4> SUFFICES ASSUME m > Len(l) - Len(r) PROVE FALSE
        BY <1>70, <3>1
      <4> DEFINE j == m - (Len(l) - Len(r))
      <4>1. j \in 1..Len(r) /\ Len(l) - Len(r) + j = m
        BY <1>70, <3>1
      <4> HIDE DEF j
      <4>2. r[j] = last /\ r[j] > last /\ r[j] \in Nat
        BY <1>6, <1>9, <3>1, <4>1
      <4> QED BY <4>2
    <3>5. Len(l) - Len(r) <= m
      <4> SUFFICES ASSUME m < Len(l) - Len(r) PROVE FALSE
        BY <1>70, <3>1
      <4>1. Len(l) - Len(r) \in 1..Len(l)
        BY <1>70, <3>1
      <4> QED BY <1>70, <3>3, <4>1
    <3>6. m = Len(l) - Len(r)
      BY <1>70, <3>1, <3>4, <3>5
    <3>7. from[s] + Len(n) - 1 = Len(l)
      BY <1>70, <3>6 DEF m
    <3>8. ASSUME NEW i \in 1..Len(n) PROVE n[i] = l[from[s] + i - 1].id
      <4>1. CASE i \in 1..Len(old)
        BY <1>7, <3>1, <4>1
      <4>2. ASSUME NEW j \in 1..Len(r), i = Len(old) + j PROVE n[i] = l[from[s] + i - 1].id
        <5>1. from[s] + i - 1 = Len(l) - Len(r) + j
          BY SMTT(20), <1>70, <3>6, <4>2 DEF m
        <5> QED BY <1>6, <1>7, <4>2, <5>1
      <4> QED BY <1>8, <4>1, <4>2
    <3> QED BY <3>7, <3>8
  <2>5. from[s] \in 1..Len(l) + 1
    BY <1>2 DEF IsServed, l
  <2>6. IsServed(s)'
    <3>1. log'[Topic[s]] = l /\ lastId' = lastId
      BY <1>1 DEF l
    <3>2. Len(l) <= Len(l)
      BY <1>5
    <3> QED BY <1>10, <2>1, <2>2, <2>3, <2>4, <2>5, <3>1, <3>2 DEF IsServed
  <2> QED BY <1>1, <2>1, <2>6, RegistersKeeps
<1>12. CASE ExpiredSince(s, last) # 0
  <2>1. Len(l) + 1 - Len(r) \in Nat /\ Len(l) + 1 - Len(r) \in 1..Len(l) + 1
    BY <1>5, <1>6, <1>7
  <2>2. /\ seen'[s] = r /\ from'[s] = Len(l) + 1 - Len(r) /\ s \notin skipped'
        /\ seen' \in [Subs -> Seq(Nat)] /\ from' \in [Subs -> Nat] /\ skipped' \subseteq Subs
        /\ \A t \in Subs : t # s => seen'[t] = seen[t] /\ from'[t] = from[t]
        /\ \A t \in Subs : t # s => (t \in skipped' <=> t \in skipped)
    BY <1>1, <1>2, <1>6, <1>12, <2>1
  <2>3. ASSUME NEW i \in 1..Len(r) PROVE r[i] = l[(Len(l) + 1 - Len(r)) + i - 1].id
    <3>1. (Len(l) + 1 - Len(r)) + i - 1 = Len(l) - Len(r) + i
      BY <1>70
    <3> QED BY <1>6, <3>1
  <2>4. (Len(l) + 1 - Len(r)) + Len(r) - 1 = Len(l) /\ Len(l) <= Len(l)
    BY <1>70
  <2>5. IsServed(s)'
    <3>1. log'[Topic[s]] = l /\ lastId' = lastId
      BY <1>1 DEF l
    <3> QED BY <1>9, <1>10, <2>1, <2>2, <2>3, <2>4, <3>1 DEF IsServed
  <2> QED BY <1>1, <2>2, <2>5, RegistersKeeps
<1> QED BY <1>11, <1>12

LEMMA UnsubscribeKeeps ==
  ASSUME MemoryInv, NEW s \in Subs, Unsubscribe(s)
  PROVE  MemoryInv'
<1>1. /\ publishing = <<>> /\ Active(s) /\ listeners' = Without(s)
      /\ UNCHANGED <<clock, lastCleanup, lastId, bucket, publishing, log, seen, from, skipped>>
  BY DEF Unsubscribe
<1>2. PICK k \in 1..Len(listeners[Topic[s]]) : listeners[Topic[s]][k] = s
  BY <1>1 DEF Active
<1> DEFINE l == listeners[Topic[s]]
           w == listeners'[Topic[s]]
<1>3. /\ listeners' \in [Events -> Seq(Subs)]
      /\ \A e \in Events : e # Topic[s] => listeners'[e] = listeners[e]
      /\ Len(w) = Len(l) - 1
      /\ \A i \in 1..Len(w) : w[i] = IF i < k THEN l[i] ELSE l[i + 1]
  BY <1>1, <1>2, WithoutFacts
<1>4. /\ Topic[s] \in Events /\ Len(l) \in Nat /\ k \in 1..Len(l) /\ l[k] = s
      /\ \A i \in 1..Len(l) : /\ Topic[l[i]] = Topic[s]
                              /\ \A j \in 1..Len(l) : l[i] = l[j] => i = j
  <2>1. Topic[s] \in Events /\ l \in Seq(Subs)
    BY PublisherAssumption DEF MemoryInv, MemoryTypeOK
  <2> QED BY <1>2, <2>1 DEF MemoryInv, RegisteredOnce
<1>5. MemoryTypeOK'
  BY <1>1, <1>3 DEF MemoryInv, MemoryTypeOK
<1>6. WalkCoversAll'
  BY <1>1 DEF WalkCoversAll
<1>7. \A i \in 1..Len(w) : i \in 1..Len(l) /\ i + 1 \in 1..Len(l)
  <2> HIDE DEF l, w
  <2> QED BY <1>3, <1>4
<1>8. RegisteredOnce'
  <2> SUFFICES ASSUME NEW e \in Events, NEW i \in 1..Len(listeners'[e])
               PROVE  /\ Topic[listeners'[e][i]] = e
                      /\ \A j \in 1..Len(listeners'[e]) :
                           listeners'[e][i] = listeners'[e][j] => i = j
    BY DEF RegisteredOnce
  <2>1. CASE e # Topic[s]
    BY <1>3, <2>1 DEF MemoryInv, RegisteredOnce
  <2>2. CASE e = Topic[s]
    <3>1. i \in 1..Len(w)
      BY <2>2
    <3> HIDE DEF l, w
    <3>2. Topic[w[i]] = e
      <4>1. w[i] = l[i] \/ w[i] = l[i + 1]
        BY <1>3, <3>1
      <4> QED BY <1>4, <1>7, <2>2, <3>1, <4>1
    <3>3. ASSUME NEW j \in 1..Len(w), w[i] = w[j] PROVE i = j
      <4>1. PICK a \in 1..Len(l), b \in 1..Len(l) :
              /\ l[a] = l[b] /\ a = (IF i < k THEN i ELSE i + 1)
              /\ b = (IF j < k THEN j ELSE j + 1)
        BY <1>3, <1>7, <3>1, <3>3
      <4>2. a = b
        BY <1>4, <4>1
      <4> QED BY <1>4, <3>1, <4>1, <4>2
    <3> QED BY <2>2, <3>2, <3>3 DEF w
  <2> QED BY <2>1, <2>2
<1>9. ASSUME NEW t \in Subs PROVE ~Owed(t) /\ ~Owed(t)'
  BY <1>1 DEF Owed
<1>10. ASSUME NEW t \in Subs PROVE Active(t)' => Active(t)
  <2>1. Topic[t] \in Events
    BY PublisherAssumption
  <2>2. CASE Topic[t] # Topic[s]
    BY <1>3, <2>1, <2>2 DEF Active
  <2>3. ASSUME Topic[t] = Topic[s], Active(t)' PROVE Active(t)
    <3>1. PICK i \in 1..Len(w) : w[i] = t
      BY <2>3 DEF Active
    <3>2. \E j \in 1..Len(l) : l[j] = t
      <4> HIDE DEF l, w
      <4> QED BY <1>3, <1>7, <3>1
    <3> QED BY <2>3, <3>2 DEF Active
  <2> QED BY <2>2, <2>3
<1>11. ASSUME NEW t \in Subs PROVE IsServed(t)'
  <2>1. /\ IsServed(t) /\ lastId' = lastId /\ log' = log /\ seen' = seen /\ from' = from
        /\ skipped' = skipped
    BY <1>1 DEF MemoryInv
  <2> HIDE DEF l, w
  <2> QED BY <1>9, <1>10, <2>1 DEF IsServed
<1> QED BY <1>1, <1>5, <1>6, <1>8, <1>11, LogIsKept

LEMMA ClockTicksKeeps ==
  ASSUME MemoryInv, ClockTicks
  PROVE  MemoryInv'
<1>1. /\ publishing = <<>> /\ clock' = clock + 1 /\ clock \in Nat /\ lastCleanup \in Nat
      /\ UNCHANGED <<lastCleanup, lastId, listeners, bucket, publishing, log, seen, from, skipped>>
      /\ log \in [Events -> Seq(Stored)] /\ ResumeSeconds \in Nat
  BY PublisherAssumption DEF ClockTicks, MemoryInv, MemoryTypeOK
<1>2. MemoryTypeOK' /\ lastCleanup' <= clock'
  BY <1>1 DEF MemoryInv, MemoryTypeOK
<1>3. RegisteredOnce' /\ WalkCoversAll'
  BY <1>1 DEF MemoryInv, RegisteredOnce, WalkCoversAll
<1>4. \A e \in Events : \A i \in 1..Len(log[e]) : log[e][i].expiresAt \in Nat
  BY <1>1, StoredFacts
<1>5. LogIsOrdered'
  <2>1. \A e \in Events : \A i \in 1..Len(log[e]) : log[e][i].expiresAt <= clock + 1 + ResumeSeconds
    BY <1>1, <1>4 DEF MemoryInv, LogIsOrdered
  <2> QED BY <1>1, <2>1 DEF MemoryInv, LogIsOrdered
<1>6. BucketsAreEnds'
  <2> SUFFICES ASSUME NEW e \in Events
               PROVE  IsEndOf(bucket[e], log[e], clock + 1)
    BY <1>1 DEF MemoryInv, BucketsAreEnds
  <2>1. IsEndOf(bucket[e], log[e], clock)
    BY DEF MemoryInv, BucketsAreEnds
  <2>2. ASSUME NEW i \in 1..Len(log[e]), log[e][i].expiresAt > clock + 1
        PROVE  i > Len(log[e]) - Len(bucket[e])
    <3>1. log[e][i].expiresAt > clock
      BY <1>1, <1>4, <2>2
    <3> QED BY <2>1, <3>1 DEF IsEndOf
  <2> QED BY <2>1, <2>2 DEF IsEndOf
<1>7. ASSUME NEW s \in Subs PROVE IsServed(s)'
  <2>1. (Active(s)' <=> Active(s)) /\ (Owed(s)' <=> Owed(s)) /\ IsServed(s)
    BY <1>1 DEF Active, Owed, MemoryInv
  <2> QED BY <1>1, <2>1, ServedAsBefore
<1> QED BY <1>2, <1>3, <1>5, <1>6, <1>7 DEF MemoryInv

LEMMA MemoryStep == MemoryInv /\ [MemoryNext]_memoryVars => MemoryInv'
<1> SUFFICES ASSUME MemoryInv, [MemoryNext]_memoryVars PROVE MemoryInv'
  OBVIOUS
<1>1. CASE \E e \in Events : PublishEvent(e)
  BY <1>1, PublishEventKeeps
<1>2. CASE \E how \in Endings : CallListener(how)
  BY <1>2, CallListenerKeeps
<1>3. CASE SkipIndex
  BY <1>3, SkipIndexKeeps
<1>4. CASE \E s \in Subs : SubscribeListener(s) \/ Resume(s) \/ Unsubscribe(s)
  BY <1>4, SubscribeListenerKeeps, ResumeKeeps, UnsubscribeKeeps
<1>5. CASE ClockTicks
  BY <1>5, ClockTicksKeeps
<1>6. CASE UNCHANGED memoryVars
  BY <1>6 DEF memoryVars, MemoryInv, MemoryTypeOK, RegisteredOnce, LogIsOrdered, BucketsAreEnds,
              WalkCoversAll, IsServed, Active, Owed
<1> QED BY <1>1, <1>2, <1>3, <1>4, <1>5, <1>6 DEF MemoryNext

\* The memory adapter keeps its invariant: listeners are registered once, logs are
\* in order, buckets are their ends, and what each subscriber has seen is a stretch
\* of its log (publish, subscribeListener, cleanup).
THEOREM MemoryInvariant == MemorySpec => []MemoryInv
<1> QED BY MemoryStarts, MemoryStep, PTL DEF MemorySpec

LEMMA EndIsSubSeq ==
  ASSUME NEW b \in Seq(Stored), NEW l \in Seq(Stored), NEW t, IsEndOf(b, l, t)
  PROVE  b = SubSeq(l, Len(l) - Len(b) + 1, Len(l))
<1>1. /\ Len(b) \in Nat /\ Len(l) \in Nat /\ Len(b) <= Len(l)
      /\ \A i \in 1..Len(b) : b[i] = l[Len(l) - Len(b) + i]
  BY DEF IsEndOf
<1> DEFINE n == Len(l) - Len(b) + 1
           r == SubSeq(l, n, Len(l))
<1>2. n \in 1..Len(l) + 1
  BY <1>1
<1>3. Len(l) - n + 1 = Len(b) /\ \A i \in 1..Len(b) : n + i - 1 = Len(l) - Len(b) + i
  BY <1>1
<1> HIDE DEF n
<1>4. r \in Seq(Stored) /\ Len(r) = Len(b) /\ \A i \in 1..Len(b) : r[i] = l[n + i - 1]
  BY <1>2, <1>3, RestFacts
<1> HIDE DEF r
<1>5. \A i \in 1..Len(b) : b[i] = r[i]
  BY <1>1, <1>3, <1>4
<1>6. b = r
  BY <1>4, <1>5, SeqEqual
<1> QED BY <1>6 DEF r, n

\* Subscribers follow the log of their event without a gap or a repetition, however
\* they leave and resume, and what they may still ask for is kept: for any number
\* of events, subscribers and publishes (publish, subscribeListener, cleanup).
THEOREM LogIsAlwaysServed == MemorySpec => []LogIsServed
<1>1. MemoryInv => RetainedForTheWindow
  <2> SUFFICES ASSUME MemoryInv, NEW e \in Events
               PROVE  /\ bucket[e] = SubSeq(log[e], Len(log[e]) - Len(bucket[e]) + 1, Len(log[e]))
                      /\ \A i \in 1..Len(log[e]) : log[e][i].expiresAt > clock =>
                           i > Len(log[e]) - Len(bucket[e])
    BY DEF RetainedForTheWindow
  <2>1. bucket[e] \in Seq(Stored) /\ log[e] \in Seq(Stored) /\ IsEndOf(bucket[e], log[e], clock)
    BY DEF MemoryInv, MemoryTypeOK, BucketsAreEnds
  <2>2. bucket[e] = SubSeq(log[e], Len(log[e]) - Len(bucket[e]) + 1, Len(log[e]))
    BY <2>1, EndIsSubSeq
  <2> QED BY <2>1, <2>2 DEF IsEndOf
<1>2. MemoryInv => SubscribersFollowTheLog
  <2> SUFFICES ASSUME MemoryInv, NEW s \in Subs
               PROVE  LET l == log[Topic[s]]
                          last == IF ~Active(s) THEN from[s] + Len(seen[s]) - 1
                                  ELSE IF IsOwed(s) THEN Len(l) - 1 ELSE Len(l)
                      IN  IF s \in skipped
                          THEN \A i \in 1..Len(seen[s]) - 1 : seen[s][i] < seen[s][i + 1]
                          ELSE last <= Len(l) /\ seen[s] = Ids(SubSeq(l, from[s], last))
    BY DEF SubscribersFollowTheLog
  <2> DEFINE l == log[Topic[s]]
             last == IF ~Active(s) THEN from[s] + Len(seen[s]) - 1
                     ELSE IF IsOwed(s) THEN Len(l) - 1 ELSE Len(l)
             n == from[s] + Len(seen[s]) - 1
             r == SubSeq(l, from[s], n)
  <2>1. /\ l \in Seq(Stored) /\ seen[s] \in Seq(Nat) /\ from[s] \in Nat /\ IsServed(s)
    BY PublisherAssumption DEF MemoryInv, MemoryTypeOK
  <2>2. CASE s \in skipped
    BY <2>1, <2>2 DEF IsServed
  <2>3. CASE s \notin skipped
    <3>1. last = n /\ n <= Len(l)
      <4>1. Active(s) => (Owed(s) <=> IsOwed(s))
        BY OwedIsIsOwed
      <4> QED BY <2>1, <2>3, <4>1 DEF IsServed
    <3>2. /\ from[s] \in 1..Len(l) + 1
          /\ \A i \in 1..Len(seen[s]) : seen[s][i] = l[from[s] + i - 1].id
      BY <2>1, <2>3 DEF IsServed
    <3> HIDE DEF last, l
    <3>3. /\ Len(l) \in Nat /\ Len(seen[s]) \in Nat /\ n \in Int
      BY <2>1
    <3>4. n - from[s] + 1 = Len(seen[s]) /\ (from[s] <= n \/ Len(seen[s]) = 0)
      BY SMTT(20), <2>1, <3>3
    <3> HIDE DEF n
    <3>5. /\ r \in Seq(Stored) /\ Len(r) = Len(seen[s])
          /\ \A i \in 1..Len(seen[s]) : r[i] = l[from[s] + i - 1]
      <4>1. \A i \in from[s]..n : i \in 1..Len(l)
        BY <2>1, <3>1, <3>2, <3>3
      <4>2. \A i \in from[s]..n : l[i] \in Stored
        BY <2>1, <4>1
      <4>3. /\ r \in Seq(Stored)
            /\ Len(r) = IF from[s] <= n THEN n - from[s] + 1 ELSE 0
            /\ \A i \in 1..n - from[s] + 1 : r[i] = l[from[s] + i - 1]
        BY <2>1, <3>3, <4>2, SubSeqProperties
      <4>4. Len(r) = Len(seen[s])
        BY <3>3, <3>4, <4>3, <2>1
      <4> QED BY <3>4, <4>3, <4>4
    <3> HIDE DEF r
    <3>6. \A i \in 1..Len(r) : r[i].id \in Nat
      BY <3>5, StoredFacts
    <3>7. Ids(r) \in Seq(Nat) /\ Len(Ids(r)) = Len(r) /\ \A i \in 1..Len(r) : Ids(r)[i] = r[i].id
      BY <3>3, <3>5, <3>6 DEF Ids
    <3>8. seen[s] = Ids(r)
      <4> DEFINE v == Ids(r)
                 o == seen[s]
      <4>1. /\ v \in Seq(Nat) /\ o \in Seq(Nat) /\ Len(v) = Len(o)
            /\ \A i \in 1..Len(o) : o[i] = v[i]
        BY <2>1, <3>2, <3>5, <3>7
      <4> HIDE DEF v, o
      <4>2. o = v
        BY <4>1, SeqEqual
      <4> QED BY <4>2 DEF o, v
    <3> QED BY <2>3, <3>1, <3>8 DEF r, last, l, n
  <2> QED BY <2>2, <2>3
<1> QED BY <1>1, <1>2, MemoryInvariant, PTL DEF LogIsServed

\* Whatever is left in memory when an event is published expired less than a window
\* ago, although expired events are only looked for once per window (cleanup).
THEOREM MemoryIsBounded == MemorySpec => CleanupKeepsUp
<1>1. ASSUME MemoryInv, [MemoryNext]_memoryVars
      PROVE  [lastId' # lastId =>
                \A e \in Events : \A i \in 1..Len(bucket'[e]) :
                  bucket'[e][i].expiresAt + ResumeSeconds > clock]_memoryVars
  <2> SUFFICES ASSUME lastId' # lastId, NEW e \in Events, NEW i \in 1..Len(bucket'[e])
               PROVE  bucket'[e][i].expiresAt + ResumeSeconds > clock
    OBVIOUS
  <2>1. PICK f \in Events : PublishEvent(f)
    BY <1>1 DEF MemoryNext, memoryVars, CallListener, SkipIndex, SubscribeListener, Resume,
                Unsubscribe, ClockTicks
  <2>2. MemoryInv'
    BY <1>1, <2>1, PublishEventKeeps
  <2>3. /\ clock \in Nat /\ lastCleanup' \in Nat /\ ResumeSeconds \in Nat /\ ResumeSeconds > 0
        /\ bucket' \in [Events -> Seq(Stored)] /\ bucket'[e][i].expiresAt > lastCleanup'
    <3>1. bucket'[e][i].expiresAt > lastCleanup'
      BY <2>2 DEF MemoryInv, BucketsAreEnds
    <3>2. lastCleanup' \in Nat /\ bucket' \in [Events -> Seq(Stored)]
      BY <2>2 DEF MemoryInv, MemoryTypeOK
    <3>3. clock \in Nat
      BY <1>1 DEF MemoryInv, MemoryTypeOK
    <3> QED BY <3>1, <3>2, <3>3, PublisherAssumption
  <2>4. lastCleanup' + ResumeSeconds > clock
    <3>1. lastCleanup' = IF clock - lastCleanup >= ResumeSeconds THEN clock ELSE lastCleanup
      BY <2>1 DEF PublishEvent, Cleanup, CleanupDue
    <3> QED BY <1>1, <2>3, <3>1 DEF MemoryInv, MemoryTypeOK
  <2>5. bucket'[e][i].expiresAt \in Nat
    BY <2>3, StoredFacts
  <2> DEFINE x == bucket'[e][i].expiresAt
             y == lastCleanup'
  <2>6. x \in Nat /\ y \in Nat /\ clock \in Nat /\ ResumeSeconds \in Nat /\ x > y
    BY <2>3, <2>5
  <2>7. y + ResumeSeconds > clock
    BY <2>4
  <2> HIDE DEF x, y
  <2>8. x + ResumeSeconds > clock
    BY <2>6, <2>7
  <2> QED BY <2>8 DEF x
<1> QED BY <1>1, MemoryInvariant, PTL DEF MemorySpec, CleanupKeepsUp

-----------------------------------------------------------------------------
(* How long a Redis stream keeps an event.                                  *)

LEMMA InvStarts == WindowInit => WindowInv
<1> SUFFICES ASSUME WindowInit PROVE WindowInv
  OBVIOUS
<1>1. WindowTypeOK
  BY WindowAssumption DEF WindowInit, WindowTypeOK, Instant
<1>2. \A p \in Processes : Len(inFlight[p]) = 0 /\ firstPublish[p] = NoWindow
  BY DEF WindowInit
<1> QED BY <1>1, <1>2, WindowAssumption
       DEF WindowInit, WindowInv, RetainedForSeconds, StreamExpires, CommandsWereSent, CommandsAreCovered,
           WindowsAreCovered, EventsAreCovered, IsOver, NoExpiry, NoWindow

\* IsCovered as a fact of the values it depends on: the commands of a process,
\* what was refused and when the key expires.
CoveredBy(q, w, n, sent, gone, until) ==
  <<q, w>> \in gone \/ (\E j \in 1..n : sent[j].first /\ sent[j].window = w) \/ until >= w + 2 * Seconds

LEMMA Coverage ==
  /\ CommandsAreCovered <=>
       \A q \in Processes : \A i \in 1..Len(inFlight[q]) : inFlight[q][i].first
         \/ CoveredBy(q, inFlight[q][i].window, i - 1, inFlight[q], refused, expireAt)
  /\ CommandsAreCovered' <=>
       \A q \in Processes : \A i \in 1..Len(inFlight'[q]) : inFlight'[q][i].first
         \/ CoveredBy(q, inFlight'[q][i].window, i - 1, inFlight'[q], refused', expireAt')
  /\ WindowsAreCovered <=>
       \A q \in Processes : IsOver(firstPublish[q])
         \/ CoveredBy(q, firstPublish[q], Len(inFlight[q]), inFlight[q], refused, expireAt)
  /\ WindowsAreCovered' <=>
       \A q \in Processes : IsOver(firstPublish[q])'
         \/ CoveredBy(q, firstPublish'[q], Len(inFlight'[q]), inFlight'[q], refused', expireAt')
BY DEF CommandsAreCovered, WindowsAreCovered, IsCovered, IsComing, LivesUntil, CoveredBy

\* What the invariant says of the numbers.
LEMMA Numbers ==
  ASSUME WindowInv
  PROVE  /\ now \in Nat /\ Seconds \in Nat /\ Seconds > 0 /\ expireAt \in Int
         /\ \A p \in Processes : /\ firstPublish[p] \in Int /\ firstPublish[p] >= -1
                                 /\ ~IsOver(firstPublish[p]) => firstPublish[p] \in Instant
                                 /\ inFlight[p] \in Seq(Command) /\ Len(inFlight[p]) \in Nat
                                 /\ \A i \in 1..Len(inFlight[p]) :
                                      /\ inFlight[p][i] \in Command
                                      /\ inFlight[p][i].at \in Nat /\ inFlight[p][i].window \in Nat
<1>1. WindowTypeOK
  BY DEF WindowInv
<1>2. now \in Nat /\ Seconds \in Nat /\ Seconds > 0 /\ expireAt \in Int
  BY <1>1, WindowAssumption DEF WindowTypeOK, Instant, NoExpiry
<1>3. ASSUME NEW p \in Processes
      PROVE  /\ firstPublish[p] \in Int /\ firstPublish[p] >= -1
             /\ ~IsOver(firstPublish[p]) => firstPublish[p] \in Instant
             /\ inFlight[p] \in Seq(Command) /\ Len(inFlight[p]) \in Nat
  <2>1. firstPublish[p] \in {NoWindow} \cup Instant /\ inFlight[p] \in Seq(Command)
    BY <1>1 DEF WindowTypeOK
  <2> QED BY <2>1, WindowAssumption DEF Instant, NoWindow, IsOver
<1>4. ASSUME NEW p \in Processes, NEW i \in 1..Len(inFlight[p])
      PROVE  /\ inFlight[p][i] \in Command
             /\ inFlight[p][i].at \in Nat /\ inFlight[p][i].window \in Nat
  <2>1. inFlight[p][i] \in Command
    BY <1>3
  <2> QED BY <2>1 DEF Command, Instant
<1> QED BY <1>2, <1>3, <1>4

-----------------------------------------------------------------------------
\* Publishing appends one command, of the window of its time (publish).
LEMMA PublishKept ==
  ASSUME WindowInv, NEW p \in Processes, Publish(p)
  PROVE  WindowInv'
<1> DEFINE first  == IsOver(firstPublish[p])
           window == IF first THEN now ELSE firstPublish[p]
           c      == [at |-> now, window |-> window, first |-> first]
           n      == Len(inFlight[p])
<1>1. /\ inFlight' = [inFlight EXCEPT ![p] = Append(@, c)]
      /\ firstPublish' = [firstPublish EXCEPT ![p] = window]
      /\ UNCHANGED <<now, stream, expireAt, refused, added, exposed>>
  BY DEF Publish
<1>2. /\ now \in Instant /\ first \in BOOLEAN /\ window \in Instant /\ c \in Command
      /\ window <= now /\ now <= window + Seconds /\ (first => window = now)
  <2>1. now \in Instant /\ first \in BOOLEAN
    BY DEF WindowInv, WindowTypeOK, IsOver
  <2>2. CASE first
    BY <2>1, <2>2, Numbers DEF Command
  <2>3. CASE ~first
    BY <2>1, <2>3, Numbers DEF WindowInv, IsOver, Command
  <2> QED BY <2>2, <2>3
<1>3. ~first => CoveredBy(p, window, n, inFlight[p], refused, expireAt)
  BY Coverage DEF WindowInv
<1> HIDE DEF window, first
<1>4. \A q \in Processes :
        /\ inFlight'[q] = IF q = p THEN Append(inFlight[p], c) ELSE inFlight[q]
        /\ firstPublish'[q] = IF q = p THEN window ELSE firstPublish[q]
  BY <1>1 DEF WindowInv, WindowTypeOK
<1>5. /\ inFlight[p] \in Seq(Command) /\ n \in Nat
      /\ Len(inFlight'[p]) = n + 1 /\ inFlight'[p][n + 1] = c
      /\ \A i \in 1..n : inFlight'[p][i] = inFlight[p][i]
  <2> HIDE DEF c
  <2>1. inFlight[p] \in Seq(Command) /\ inFlight'[p] = Append(inFlight[p], c)
    BY <1>4, Numbers
  <2> QED BY <1>2, <2>1
<1> HIDE DEF c
<1>6. c.at = now /\ c.window = window /\ c.first = first
  BY DEF c
<1>7. WindowTypeOK'
  <2>1. inFlight' \in [Processes -> Seq(Command)]
    BY <1>1, <1>2 DEF WindowInv, WindowTypeOK
  <2>2. firstPublish' \in [Processes -> {NoWindow} \cup Instant]
    BY <1>1, <1>2 DEF WindowInv, WindowTypeOK
  <2> QED BY <1>1, <2>1, <2>2 DEF WindowInv, WindowTypeOK
<1>8. CommandsWereSent'
  <2> SUFFICES ASSUME NEW q \in Processes, NEW i \in 1..Len(inFlight'[q])
               PROVE  WasSent(inFlight[q][i])'
    BY DEF CommandsWereSent
  <2>1. CASE q = p /\ i = n + 1
    BY <1>1, <1>2, <1>5, <1>6, <2>1, Numbers, WindowAssumption DEF WasSent, Instant
  <2>2. CASE q = p /\ i # n + 1
    BY <1>1, <1>5, <2>2 DEF WindowInv, CommandsWereSent, WasSent
  <2>3. CASE q # p
    BY <1>1, <1>4, <2>3 DEF WindowInv, CommandsWereSent, WasSent
  <2> QED BY <2>1, <2>2, <2>3
<1>9. \A k \in 0..n : \A w : CoveredBy(p, w, k, inFlight[p], refused, expireAt) =>
        CoveredBy(p, w, k, inFlight'[p], refused', expireAt')
  BY <1>1, <1>5 DEF CoveredBy
<1>10. CommandsAreCovered'
  <2> SUFFICES ASSUME NEW q \in Processes, NEW i \in 1..Len(inFlight'[q]), ~inFlight'[q][i].first
               PROVE  CoveredBy(q, inFlight'[q][i].window, i - 1, inFlight'[q], refused', expireAt')
    BY Coverage
  <2>1. CASE q = p /\ i = n + 1
    <3>1. i - 1 = n /\ ~first /\ inFlight'[q][i].window = window
      BY <1>5, <1>6, <2>1
    <3>2. CoveredBy(p, window, n, inFlight'[p], refused', expireAt')
      BY <1>3, <1>5, <1>9, <3>1
    <3> QED BY <2>1, <3>1, <3>2
  <2>2. CASE q = p /\ i # n + 1
    <3>1. i \in 1..n /\ i - 1 \in 0..n /\ inFlight'[q][i] = inFlight[q][i]
      BY <1>5, <2>2
    <3>2. CoveredBy(p, inFlight[p][i].window, i - 1, inFlight[p], refused, expireAt)
      BY <2>2, <3>1, Coverage DEF WindowInv
    <3> QED BY <1>9, <2>2, <3>1, <3>2
  <2>3. CASE q # p
    <3>1. inFlight'[q] = inFlight[q]
      BY <1>4, <2>3
    <3> QED BY <1>1, <3>1, Coverage DEF WindowInv
  <2> QED BY <2>1, <2>2, <2>3
<1>11. WindowsAreCovered'
  <2> SUFFICES ASSUME NEW q \in Processes, ~IsOver(firstPublish[q])'
               PROVE  CoveredBy(q, firstPublish'[q], Len(inFlight'[q]), inFlight'[q], refused', expireAt')
    BY Coverage
  <2>1. CASE q = p
    <3>1. firstPublish'[q] = window /\ Len(inFlight'[q]) = n + 1
      BY <1>4, <1>5, <2>1
    <3>2. CASE first
      <4>1. n + 1 \in 1..(n + 1) /\ inFlight'[p][n + 1].first /\ inFlight'[p][n + 1].window = window
        BY <1>5, <1>6, <3>2
      <4> QED BY <2>1, <3>1, <4>1 DEF CoveredBy
    <3>3. CASE ~first
      <4>1. CoveredBy(p, window, n, inFlight'[p], refused', expireAt')
        BY <1>3, <1>5, <1>9, <3>3
      <4> QED BY <1>5, <2>1, <3>1, <4>1 DEF CoveredBy
    <3> QED BY <3>2, <3>3
  <2>2. CASE q # p
    <3>1. firstPublish'[q] = firstPublish[q] /\ inFlight'[q] = inFlight[q]
      BY <1>4, <2>2
    <3>2. ~IsOver(firstPublish[q])
      BY <1>1, <3>1 DEF IsOver
    <3>3. CoveredBy(q, firstPublish[q], Len(inFlight[q]), inFlight[q], refused, expireAt)
      BY <3>2, Coverage DEF WindowInv
    <3> QED BY <1>1, <3>1, <3>3
  <2> QED BY <2>1, <2>2
<1>12. EventsAreCovered' /\ RetainedForSeconds' /\ StreamExpires'
  BY <1>1 DEF WindowInv, EventsAreCovered, RetainedForSeconds, StreamExpires, LivesUntil
<1>13. (expireAt <= now + 2 * Seconds)' /\ \A q \in Processes : firstPublish'[q] <= now'
  BY <1>1, <1>2, <1>4 DEF WindowInv
<1> QED BY <1>7, <1>8, <1>10, <1>11, <1>12, <1>13 DEF WindowInv

-----------------------------------------------------------------------------
\* What holds of the commands that are left when the first one is served or
\* refused: its window is renewed, or recorded as refused.
LEMMA RestIsCovered ==
  ASSUME WindowInv, NEW p \in Processes, inFlight[p] # <<>>, Served(p),
         UNCHANGED <<now, firstPublish>>, refused \subseteq refused',
         expireAt' \in Int, expireAt' >= expireAt,
         Head(inFlight[p]).first => \/ <<p, Head(inFlight[p]).window>> \in refused'
                                    \/ expireAt' >= Head(inFlight[p]).window + 2 * Seconds
  PROVE  /\ inFlight' \in [Processes -> Seq(Command)]
         /\ CommandsWereSent' /\ CommandsAreCovered' /\ WindowsAreCovered'
<1> DEFINE c == Head(inFlight[p])
           n == Len(inFlight[p])
<1>1. /\ inFlight[p] \in Seq(Command) /\ n \in Nat /\ n >= 1 /\ c = inFlight[p][1]
      /\ c.window \in Nat
  BY Numbers
<1>2. /\ inFlight' \in [Processes -> Seq(Command)]
      /\ \A q \in Processes :
           inFlight'[q] = IF q = p THEN Tail(inFlight[p]) ELSE inFlight[q]
  BY <1>1 DEF Served, WindowInv, WindowTypeOK
<1>3. /\ Len(inFlight'[p]) = n - 1
      /\ \A i \in 1..(n - 1) : inFlight'[p][i] = inFlight[p][i + 1]
  BY <1>1, <1>2
<1>4. \A q \in Processes : \A i \in 1..Len(inFlight'[q]) :
        \E k \in 1..Len(inFlight[q]) : /\ inFlight'[q][i] = inFlight[q][k]
                                       /\ k = IF q = p THEN i + 1 ELSE i
  <2> SUFFICES ASSUME NEW q \in Processes, NEW i \in 1..Len(inFlight'[q])
               PROVE  \E k \in 1..Len(inFlight[q]) : /\ inFlight'[q][i] = inFlight[q][k]
                                                     /\ k = IF q = p THEN i + 1 ELSE i
    OBVIOUS
  <2>1. CASE q = p
    <3>1. i + 1 \in 1..n /\ inFlight'[q][i] = inFlight[q][i + 1]
      BY <1>1, <1>3, <2>1
    <3> QED BY <2>1, <3>1
  <2>2. CASE q # p
    BY <1>2, <2>2
  <2> QED BY <2>1, <2>2
<1>5. CommandsWereSent'
  <2> SUFFICES ASSUME NEW q \in Processes, NEW i \in 1..Len(inFlight'[q])
               PROVE  WasSent(inFlight[q][i])'
    BY DEF CommandsWereSent
  <2>1. PICK k \in 1..Len(inFlight[q]) : inFlight'[q][i] = inFlight[q][k]
    BY <1>4
  <2>2. WasSent(inFlight[q][k])
    BY DEF WindowInv, CommandsWereSent
  <2> QED BY <2>1, <2>2 DEF WasSent
<1>6. ASSUME NEW k \in 1..n, NEW w \in Nat, CoveredBy(p, w, k, inFlight[p], refused, expireAt)
      PROVE  CoveredBy(p, w, k - 1, inFlight'[p], refused', expireAt')
  <2>1. CASE \E j \in 1..k : inFlight[p][j].first /\ inFlight[p][j].window = w
    <3>1. PICK j \in 1..k : inFlight[p][j].first /\ inFlight[p][j].window = w
      BY <2>1
    <3>2. CASE j = 1
      BY <1>1, <3>1, <3>2 DEF CoveredBy
    <3>3. CASE j # 1
      <4>1. j - 1 \in 1..(k - 1) /\ inFlight'[p][j - 1] = inFlight[p][j]
        BY <1>1, <1>3, <3>3
      <4> QED BY <3>1, <4>1 DEF CoveredBy
    <3> QED BY <3>2, <3>3
  <2>2. CASE <<p, w>> \in refused \/ expireAt >= w + 2 * Seconds
    BY <2>2, Numbers DEF CoveredBy
  <2> QED BY <1>6, <2>1, <2>2 DEF CoveredBy
<1>7. ASSUME NEW q \in Processes, q # p, NEW k \in Nat, NEW w \in Nat,
             CoveredBy(q, w, k, inFlight[q], refused, expireAt)
      PROVE  CoveredBy(q, w, k, inFlight'[q], refused', expireAt')
  BY SMTT(20), <1>2, <1>7, Numbers DEF CoveredBy
<1>8. CommandsAreCovered'
  <2> SUFFICES ASSUME NEW q \in Processes, NEW i \in 1..Len(inFlight'[q]), ~inFlight'[q][i].first
               PROVE  CoveredBy(q, inFlight'[q][i].window, i - 1, inFlight'[q], refused', expireAt')
    BY Coverage
  <2>1. PICK k \in 1..Len(inFlight[q]) :
          inFlight'[q][i] = inFlight[q][k] /\ k = IF q = p THEN i + 1 ELSE i
    BY <1>4
  <2>2. /\ inFlight[q][k].window \in Nat
        /\ CoveredBy(q, inFlight[q][k].window, k - 1, inFlight[q], refused, expireAt)
    BY <2>1, Coverage, Numbers DEF WindowInv
  <2>3. i \in Nat /\ i >= 1
    BY <1>2
  <2>4. CASE q = p
    <3>1. k - 1 = i /\ i \in 1..n
      BY <1>1, <2>1, <2>3, <2>4
    <3> QED BY <1>6, <2>1, <2>2, <2>4, <3>1
  <2>5. CASE q # p
    <3>1. k - 1 = i - 1 /\ i - 1 \in Nat
      BY <2>1, <2>3, <2>5
    <3> QED BY <1>7, <2>1, <2>2, <2>5, <3>1
  <2> QED BY <2>4, <2>5
<1>9. WindowsAreCovered'
  <2> SUFFICES ASSUME NEW q \in Processes, ~IsOver(firstPublish[q])'
               PROVE  CoveredBy(q, firstPublish'[q], Len(inFlight'[q]), inFlight'[q], refused', expireAt')
    BY Coverage
  <2>1. firstPublish'[q] = firstPublish[q] /\ ~IsOver(firstPublish[q])
    BY DEF IsOver
  <2>2. /\ firstPublish[q] \in Nat /\ Len(inFlight[q]) \in Nat
        /\ CoveredBy(q, firstPublish[q], Len(inFlight[q]), inFlight[q], refused, expireAt)
    BY <2>1, Coverage, Numbers DEF WindowInv, Instant
  <2>3. CASE q = p
    <3>1. CoveredBy(p, firstPublish[p], n, inFlight[p], refused, expireAt) /\ firstPublish[p] \in Nat
      BY <1>1, <2>2, <2>3
    <3>2. n \in 1..n /\ Len(inFlight'[p]) = n - 1
      BY <1>1, <1>3
    <3>3. CoveredBy(p, firstPublish[p], n - 1, inFlight'[p], refused', expireAt')
      BY <1>6, <3>1, <3>2
    <3> QED BY <2>1, <2>3, <3>2, <3>3
  <2>4. CASE q # p
    BY <1>2, <1>7, <2>1, <2>2, <2>4
  <2> QED BY <2>3, <2>4
<1> QED BY <1>2, <1>5, <1>8, <1>9

-----------------------------------------------------------------------------
\* The transaction renews the key for its window, and trims only what is older
\* than the window (publish: the transaction).
LEMMA ServeFirstKept ==
  ASSUME WindowInv, NEW p \in Processes, ServeFirst(p)
  PROVE  WindowInv'
<1> DEFINE c == Head(inFlight[p])
           event == [at |-> c.at, id |-> now]
<1>1. PICK trimmed \in SUBSET Expired(c.at) : stream' = (stream \ trimmed) \cup {event}
  BY DEF ServeFirst
<1>2. /\ inFlight[p] # <<>> /\ c.first /\ Served(p)
      /\ added' = added \cup {event} /\ expireAt' = now + 2 * Seconds
      /\ UNCHANGED <<now, firstPublish, refused, exposed>>
  BY DEF ServeFirst, TimeToLive
<1>3. /\ c = inFlight[p][1] /\ 1 \in 1..Len(inFlight[p]) /\ c \in Command /\ c.window \in Nat
      /\ WasSent(c)
  <2>1. inFlight[p] \in Seq(Command) /\ 1 \in 1..Len(inFlight[p])
    BY <1>2, Numbers
  <2> QED BY <2>1, Numbers DEF WindowInv, CommandsWereSent
<1>4. /\ c.at \in Nat /\ c.at <= now /\ c.window <= now /\ event \in Event
      /\ event.at = c.at /\ event.id = now
  BY <1>3, Numbers DEF WasSent, Command, Event, WindowInv, WindowTypeOK, Instant
<1> HIDE DEF c, event
<1>5. /\ expireAt' \in Int /\ expireAt' >= expireAt /\ expireAt' >= c.window + 2 * Seconds
  BY SMTT(20), <1>2, <1>3, <1>4, Numbers DEF WindowInv
<1>6. /\ inFlight' \in [Processes -> Seq(Command)]
      /\ CommandsWereSent' /\ CommandsAreCovered' /\ WindowsAreCovered'
  BY <1>2, <1>5, RestIsCovered DEF c
<1>7. WindowTypeOK'
  <2>1. stream' \subseteq Event /\ added' \subseteq Event
    BY <1>1, <1>2, <1>4 DEF WindowInv, WindowTypeOK
  <2>2. expireAt' \in {NoExpiry} \cup Nat
    BY <1>2, Numbers
  <2> QED BY <1>2, <1>6, <2>1, <2>2 DEF WindowInv, WindowTypeOK
<1>8. MaxDelay < Seconds /\ MaxDelay \in Nat /\ Seconds \in Nat
  BY WindowAssumption
<1>9. RetainedForSeconds'
  <2> SUFFICES ASSUME NEW e \in added PROVE e \in stream \ trimmed
    BY <1>1, <1>2 DEF RetainedForSeconds
  <2>1. e \in stream /\ e.at <= e.id /\ now < e.at + Seconds /\ e.at \in Nat /\ e.id \in Nat
    BY DEF WindowInv, RetainedForSeconds, EventsAreCovered, WindowTypeOK, Event, Instant
  <2>2. ~(e.id < c.at - Seconds)
    BY <1>4, <2>1, Numbers
  <2> QED BY <1>1, <2>1, <2>2 DEF Expired
<1>10. now < c.at + Seconds
  BY <1>3, <1>4, <1>8, Numbers DEF WasSent
<1>11. EventsAreCovered'
  <2>1. \A e \in added : e.at \in Nat
    BY DEF WindowInv, WindowTypeOK, Event, Instant
  <2> QED BY <1>2, <1>4, <1>5, <1>10, <2>1, Numbers DEF WindowInv, EventsAreCovered, LivesUntil
<1>12. StreamExpires' /\ (expireAt <= now + 2 * Seconds)' /\ \A q \in Processes : firstPublish'[q] <= now'
  BY <1>2, Numbers DEF StreamExpires, WindowInv, NoExpiry
<1> QED BY <1>6, <1>7, <1>9, <1>11, <1>12 DEF WindowInv

\* The command of a later publish finds the key renewed, or its window refused
\* (publish: without the transaction).
LEMMA ServeLaterKept ==
  ASSUME WindowInv, NEW p \in Processes, ServeLater(p)
  PROVE  WindowInv'
<1> DEFINE c == Head(inFlight[p])
           event == [at |-> c.at, id |-> now]
<1>1. /\ inFlight[p] # <<>> /\ ~c.first /\ Served(p)
      /\ stream' = stream \cup {event}
      /\ UNCHANGED <<now, firstPublish, expireAt, refused>>
      /\ \/ <<p, c.window>> \in refused /\ exposed' = exposed \cup {event} /\ added' = added
         \/ <<p, c.window>> \notin refused /\ exposed' = exposed /\ added' = added \cup {event}
  BY DEF ServeLater
<1>2. /\ c = inFlight[p][1] /\ 1 \in 1..Len(inFlight[p]) /\ c \in Command
      /\ c.window \in Nat /\ WasSent(c)
  <2>1. inFlight[p] \in Seq(Command) /\ 1 \in 1..Len(inFlight[p])
    BY <1>1, Numbers
  <2> QED BY <2>1, Numbers DEF WindowInv, CommandsWereSent
<1>3. /\ c.at \in Nat /\ event \in Event /\ event.at = c.at /\ event.id = now
  BY <1>2, Numbers DEF Command, Event, WindowInv, WindowTypeOK, Instant
<1>4. /\ c.at <= now /\ c.at <= c.window + Seconds /\ now <= c.at + MaxDelay
      /\ MaxDelay \in Nat /\ MaxDelay < Seconds
  BY <1>2, WindowAssumption DEF WasSent
<1>5. <<p, c.window>> \in refused \/ expireAt >= c.window + 2 * Seconds
  <2>1. CoveredBy(p, c.window, 1 - 1, inFlight[p], refused, expireAt)
    BY <1>1, <1>2, Coverage DEF WindowInv
  <2> QED BY <2>1 DEF CoveredBy
<1> HIDE DEF event
<1>6. /\ inFlight' \in [Processes -> Seq(Command)]
      /\ CommandsWereSent' /\ CommandsAreCovered' /\ WindowsAreCovered'
  BY <1>1, RestIsCovered, Numbers
<1> HIDE DEF c
<1>7. WindowTypeOK'
  BY <1>1, <1>3, <1>6 DEF WindowInv, WindowTypeOK
<1>8. RetainedForSeconds'
  BY <1>1 DEF WindowInv, RetainedForSeconds
<1>9. EventsAreCovered'
  <2> SUFFICES ASSUME NEW e \in added'
               PROVE  e.at <= e.id /\ now < e.at + Seconds /\ expireAt >= e.at + Seconds
    BY <1>1 DEF EventsAreCovered, LivesUntil
  <2>1. CASE e \in added
    BY <2>1 DEF WindowInv, EventsAreCovered, LivesUntil
  <2>2. CASE e = event /\ <<p, c.window>> \notin refused
    <3>1. e.at = c.at /\ e.id = now
      BY <1>3, <2>2
    <3>2. /\ c.at \in Nat /\ c.window \in Nat /\ now \in Nat
          /\ expireAt \in Int /\ expireAt >= c.window + 2 * Seconds
      BY <1>2, <1>3, <1>5, <2>2, Numbers
    <3>3. Seconds \in Nat
      BY WindowAssumption
    <3> HIDE <2>2
    <3> QED BY <1>4, <3>1, <3>2, <3>3
  <2> QED BY <1>1, <2>1, <2>2
<1>10. StreamExpires'
  <2> SUFFICES ASSUME refused = {} PROVE expireAt # NoExpiry
    BY <1>1 DEF StreamExpires
  <2> QED BY <1>2, <1>5, Numbers DEF NoExpiry
<1>11. (expireAt <= now + 2 * Seconds)' /\ \A q \in Processes : firstPublish'[q] <= now'
  BY <1>1 DEF WindowInv
<1> QED BY <1>6, <1>7, <1>8, <1>9, <1>10, <1>11 DEF WindowInv

\* A refused transaction is recorded as such (publish rejects).
LEMMA RefuseKept ==
  ASSUME WindowInv, NEW p \in Processes, Refuse(p)
  PROVE  WindowInv'
<1> DEFINE c == Head(inFlight[p])
<1>1. /\ inFlight[p] # <<>> /\ c.first /\ Served(p)
      /\ refused' = refused \cup {<<p, c.window>>}
      /\ UNCHANGED <<now, firstPublish, stream, expireAt, added, exposed>>
  BY DEF Refuse
<1>2. c \in Command
  BY <1>1, Numbers
<1>3. /\ inFlight' \in [Processes -> Seq(Command)]
      /\ CommandsWereSent' /\ CommandsAreCovered' /\ WindowsAreCovered'
  <2>1. expireAt \in Int /\ expireAt' = expireAt /\ expireAt' >= expireAt
    BY <1>1, Numbers
  <2>2. /\ refused \subseteq refused' /\ <<p, c.window>> \in refused'
        /\ UNCHANGED <<now, firstPublish>>
    BY <1>1
  <2> QED BY <1>1, <2>1, <2>2, RestIsCovered
<1> HIDE DEF c
<1>4. refused' \subseteq Processes \X Instant
  BY <1>1, <1>2 DEF WindowInv, WindowTypeOK, Command
<1>5. WindowTypeOK'
  BY <1>1, <1>3, <1>4 DEF WindowInv, WindowTypeOK
<1>6. RetainedForSeconds' /\ EventsAreCovered' /\ StreamExpires'
  BY <1>1 DEF WindowInv, RetainedForSeconds, EventsAreCovered, StreamExpires, LivesUntil
<1>7. (expireAt <= now + 2 * Seconds)' /\ \A q \in Processes : firstPublish'[q] <= now'
  BY <1>1 DEF WindowInv
<1> QED BY <1>3, <1>5, <1>6, <1>7 DEF WindowInv

\* Time passes: what expires is older than everything that is to be resumed.
LEMMA TickKept ==
  ASSUME WindowInv, Tick
  PROVE  WindowInv'
<1>1. /\ now < MaxNow /\ now' = now + 1
      /\ \A p \in Processes : \A i \in 1..Len(inFlight[p]) : now < inFlight[p][i].at + MaxDelay
      /\ added' = {e \in added : now + 1 < e.at + Seconds}
      /\ exposed' = {e \in exposed : now + 1 < e.at + Seconds}
      /\ UNCHANGED <<firstPublish, inFlight, refused>>
      /\ \/ expireAt # NoExpiry /\ expireAt <= now + 1 /\ stream' = {} /\ expireAt' = NoExpiry
         \/ (expireAt = NoExpiry \/ ~(expireAt <= now + 1)) /\ UNCHANGED <<stream, expireAt>>
  BY DEF Tick, Young
<1>2. /\ now \in Nat /\ MaxNow \in Nat /\ Seconds \in Nat /\ Seconds > 0 /\ expireAt \in Int
      /\ MaxDelay \in Nat /\ MaxDelay < Seconds
  BY Numbers, WindowAssumption
<1>3. \A t \in Int : expireAt >= t /\ t > now + 1 => expireAt' >= t
  BY <1>1, <1>2 DEF NoExpiry
<1>4. WindowTypeOK'
  <2>1. now' \in Instant
    BY <1>1, <1>2 DEF Instant
  <2> QED BY <1>1, <2>1 DEF WindowInv, WindowTypeOK
<1>5. CommandsWereSent'
  <2> SUFFICES ASSUME NEW p \in Processes, NEW i \in 1..Len(inFlight[p])
               PROVE  WasSent(inFlight[p][i])'
    BY <1>1 DEF CommandsWereSent
  <2>1. WasSent(inFlight[p][i]) /\ now < inFlight[p][i].at + MaxDelay /\ inFlight[p][i].at \in Nat
    BY <1>1, Numbers DEF WindowInv, CommandsWereSent
  <2> QED BY <1>1, <1>2, <2>1 DEF WasSent
<1>6. CommandsAreCovered'
  <2> SUFFICES ASSUME NEW p \in Processes, NEW i \in 1..Len(inFlight[p]), ~inFlight[p][i].first
               PROVE  CoveredBy(p, inFlight[p][i].window, i - 1, inFlight[p], refused, expireAt')
    BY <1>1, Coverage
  <2>1. CoveredBy(p, inFlight[p][i].window, i - 1, inFlight[p], refused, expireAt)
    BY Coverage DEF WindowInv
  <2> DEFINE w == inFlight[p][i].window
  <2>2. w \in Nat /\ w + 2 * Seconds > now + 1
    <3>1. /\ w \in Nat /\ inFlight[p][i].at \in Nat /\ WasSent(inFlight[p][i])
          /\ now < inFlight[p][i].at + MaxDelay
      BY <1>1, Numbers DEF WindowInv, CommandsWereSent
    <3> QED BY SMTT(20), <1>2, <3>1 DEF WasSent
  <2> HIDE DEF w
  <2>3. expireAt >= w + 2 * Seconds => expireAt' >= w + 2 * Seconds
    BY <1>2, <1>3, <2>2
  <2> QED BY <2>1, <2>3 DEF CoveredBy, w
<1>7. WindowsAreCovered'
  <2> SUFFICES ASSUME NEW p \in Processes, ~IsOver(firstPublish[p])'
               PROVE  CoveredBy(p, firstPublish[p], Len(inFlight[p]), inFlight[p], refused, expireAt')
    BY <1>1, Coverage
  <2> DEFINE w == firstPublish[p]
  <2>1. w # NoWindow /\ ~(w + Seconds < now + 1) /\ w \in Int
    BY <1>1, Numbers DEF IsOver
  <2>2. ~IsOver(w)
    BY <1>2, <2>1 DEF IsOver
  <2>3. CoveredBy(p, w, Len(inFlight[p]), inFlight[p], refused, expireAt)
    BY <2>2, Coverage DEF WindowInv
  <2> HIDE DEF w
  <2>4. expireAt >= w + 2 * Seconds => expireAt' >= w + 2 * Seconds
    BY <1>2, <1>3, <2>1
  <2> QED BY <2>3, <2>4 DEF CoveredBy, w
<1>8. \A e \in added' : /\ e \in added /\ e.at \in Nat /\ e.at <= e.id /\ e \in stream
                        /\ now + 1 < e.at + Seconds /\ expireAt >= e.at + Seconds
  BY <1>1 DEF WindowInv, WindowTypeOK, Event, Instant, EventsAreCovered, RetainedForSeconds, LivesUntil
<1>9. EventsAreCovered'
  BY <1>1, <1>2, <1>3, <1>8 DEF EventsAreCovered, LivesUntil
<1>10. RetainedForSeconds'
  <2> SUFFICES ASSUME NEW e \in added' PROVE e \in stream'
    BY DEF RetainedForSeconds
  <2>1. ~(expireAt <= now + 1) /\ e \in stream
    BY <1>2, <1>8
  <2> QED BY <1>1, <2>1
<1>11. StreamExpires' /\ (expireAt <= now + 2 * Seconds)' /\ \A p \in Processes : firstPublish'[p] <= now'
  <2>1. \A p \in Processes : firstPublish'[p] <= now'
    BY <1>1, <1>2, Numbers DEF WindowInv
  <2> QED BY <1>1, <1>2, <2>1 DEF WindowInv, StreamExpires, NoExpiry
<1> QED BY <1>4, <1>5, <1>6, <1>7, <1>9, <1>10, <1>11 DEF WindowInv

LEMMA InvIsKept == WindowInv /\ [WindowNext]_windowVars => WindowInv'
<1> SUFFICES ASSUME WindowInv, [WindowNext]_windowVars PROVE WindowInv'
  OBVIOUS
<1>1. CASE UNCHANGED windowVars
  BY <1>1, Coverage DEF windowVars, WindowInv, WindowTypeOK, RetainedForSeconds, StreamExpires,
                        CommandsWereSent, WasSent, EventsAreCovered, LivesUntil, IsOver
<1> QED BY <1>1, TickKept, PublishKept, ServeFirstKept, ServeLaterKept, RefuseKept DEF WindowNext

\* The invariant holds for any processes and any window longer than a command
\* takes to arrive (publish).
THEOREM WindowInvariant == WindowSpec => []WindowInv
BY InvStarts, InvIsKept, PTL DEF WindowSpec

\* A published event can be resumed for resumeSeconds (publish).
THEOREM EventsAreRetained == WindowSpec => []RetainedForSeconds
<1>1. WindowInv => RetainedForSeconds
  BY DEF WindowInv
<1> QED BY <1>1, WindowInvariant, PTL

\* The key of a stream is going to expire (publish: expire).
THEOREM KeyExpires == WindowSpec => []StreamExpires
<1>1. WindowInv => StreamExpires
  BY DEF WindowInv
<1> QED BY <1>1, WindowInvariant, PTL
=============================================================================
