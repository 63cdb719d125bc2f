--------------------------- MODULE MemoryPublisher ---------------------------
(***************************************************************************)
(* MemoryPublisher of packages/publisher/src/adapters/memory.ts with resume *)
(* enabled: listeners per event, a bucket of retained events per event, and *)
(* a clean-up that runs at most once per retention window.                  *)
(*                                                                         *)
(* Everything is synchronous on one thread except that publish calls the   *)
(* listeners one by one, and a listener is user code that may call its own *)
(* unsubscribe before it returns.  A publish is therefore several steps,   *)
(* and while it runs nothing else does.                                     *)
(***************************************************************************)
EXTENDS Integers, Sequences, FiniteSets

CONSTANTS Events,          \* event names
          Subs,            \* subscribers; each has one callback
          Topic,           \* the event each subscribes to
          ResumeSeconds,   \* the retention window
          Endings,         \* how callbacks end: "returns", "leaves", "throws"
          MaxTime,         \* bound: the clock stops here
          MaxPublishes     \* bound: events published

ASSUME PublisherAssumption ==
  /\ Topic \in [Subs -> Events]
  /\ ResumeSeconds \in Nat \ {0} /\ Endings \subseteq {"returns", "leaves", "throws"}
  /\ MaxTime \in Nat /\ MaxPublishes \in Nat

VARIABLES clock,          \* Date.now()
          lastCleanup,  \* lastCleanupTime
          lastId,       \* the last id of idGenerator
          listeners,    \* listenersMap: the registered subscribers of each event
          bucket,       \* eventsMap: the retained events of each event
          publishing,   \* the publish that is running: <<>> or <<[event, next, len]>>
          log,          \* history: the ids published to each event, and when
          seen,         \* history: the ids each subscriber's callback got
          from,         \* history: where in the log each subscriber started
          skipped       \* history: subscribers that a forEach has skipped since

memoryVars == <<clock, lastCleanup, lastId, listeners, bucket, publishing, log, seen, from, skipped>>

Stored == [id : Nat, expiresAt : Nat]

MemoryTypeOK ==
  /\ clock \in Nat /\ lastCleanup \in Nat /\ lastId \in Nat
  /\ listeners \in [Events -> Seq(Subs)]
  /\ bucket \in [Events -> Seq(Stored)]
  /\ \/ publishing = <<>>
     \/ /\ publishing = <<publishing[1]>>
        /\ publishing[1] \in [event : Events, next : Nat \ {0}, len : Nat \ {0}]
  /\ log \in [Events -> Seq(Stored)]
  /\ seen \in [Subs -> Seq(Nat)]
  /\ from \in [Subs -> Nat]
  /\ skipped \subseteq Subs

\* Date.now() is far from zero, so the first call cleans up.
MemoryInit ==
  /\ clock = ResumeSeconds
  /\ lastCleanup = 0
  /\ lastId = 0
  /\ listeners = [e \in Events |-> <<>>]
  /\ bucket = [e \in Events |-> <<>>]
  /\ publishing = <<>>
  /\ log = [e \in Events |-> <<>>]
  /\ seen = [s \in Subs |-> <<>>]
  /\ from = [s \in Subs |-> 1]
  /\ skipped = {}

-----------------------------------------------------------------------------
Active(s) == \E i \in 1..Len(listeners[Topic[s]]) : listeners[Topic[s]][i] = s

Position(s) == CHOOSE i \in 1..Len(listeners[Topic[s]]) : listeners[Topic[s]][i] = s

\* splice(indexOf(listener), 1)
Without(s) ==
  LET l == listeners[Topic[s]]
      k == Position(s)
  IN  [listeners EXCEPT ![Topic[s]] = SubSeq(l, 1, k - 1) \o SubSeq(l, k + 1, Len(l))]

\* Where the entries of the sorted bucket b start that satisfy Later: what the
\* binary searches of the code compute (module BinarySearch).
StartOf(b, Later(_)) ==
  CHOOSE i \in 1..Len(b) + 1 :
    /\ \A j \in 1..i - 1 : ~Later(b[j])
    /\ \A j \in i..Len(b) : Later(b[j])

\* findFirstUnexpiredIndex and findResumeStartIndex, as what is left of b.
UnexpiredOf(b) ==
  LET IsUnexpired(x) == x.expiresAt > clock
  IN  SubSeq(b, StartOf(b, IsUnexpired), Len(b))
After(b, id) ==
  LET IsAfter(x) == x.id > id
  IN  SubSeq(b, StartOf(b, IsAfter), Len(b))

\* Mutant of CleanupDue: the clean-up is never due.
NeverDue == FALSE

CleanupDue == clock - lastCleanup >= ResumeSeconds

Cleaned == [e \in Events |-> UnexpiredOf(bucket[e])]

\* cleanup(), which publish and subscribe call first: the buckets after it.
Cleanup == lastCleanup' = IF CleanupDue THEN clock ELSE lastCleanup
BucketsAfterCleanup == IF CleanupDue THEN Cleaned ELSE bucket

\* publish(event, payload) up to the forEach over the listeners, which visits
\* the indices that exist when it starts.
PublishEvent(e) ==
  /\ publishing = <<>>
  /\ lastId < MaxPublishes
  /\ Cleanup
  /\ LET x == [id |-> lastId + 1, expiresAt |-> clock + ResumeSeconds]
     IN  /\ bucket' = [BucketsAfterCleanup EXCEPT ![e] = Append(@, x)]
         /\ log' = [log EXCEPT ![e] = Append(@, x)]
  /\ lastId' = lastId + 1
  /\ publishing' = IF listeners[e] = <<>> THEN <<>>
                   ELSE <<[event |-> e, next |-> 1, len |-> Len(listeners[e])]>>
  /\ UNCHANGED <<clock, listeners, seen, from, skipped>>

\* forEach goes on to the next index, or is finished.
Advance ==
  LET p == publishing[1]
  IN  publishing' = IF p.next = p.len THEN <<>> ELSE <<[p EXCEPT !.next = @ + 1]>>

\* forEach visits an index that the array still has: it calls the listener,
\* which may call its unsubscribe before it returns, or throw: that ends the
\* walk and rejects the promise of publish.
CallListener(how) ==
  /\ publishing # <<>>
  /\ LET p == publishing[1]
         l == listeners[p.event]
         s == l[p.next]
     IN  /\ p.next <= Len(l)
         /\ seen' = [seen EXCEPT ![s] = Append(@, lastId)]
         /\ listeners' = IF how = "leaves" THEN Without(s) ELSE listeners
         /\ LET lost == CASE how = "returns" -> {}
                          [] how = "leaves"  -> {p.next + 1} \cap 1..p.len
                          [] how = "throws"  -> p.next + 1..p.len
            IN  skipped' = skipped \cup {l[i] : i \in lost \cap DOMAIN l}
         /\ IF how = "throws" THEN publishing' = <<>> ELSE Advance
  /\ UNCHANGED <<clock, lastCleanup, lastId, bucket, log, from>>

\* forEach skips an index that the array has lost meanwhile.
SkipIndex ==
  /\ publishing # <<>>
  /\ publishing[1].next > Len(listeners[publishing[1].event])
  /\ Advance
  /\ UNCHANGED <<clock, lastCleanup, lastId, listeners, bucket, log, seen, from, skipped>>

\* subscribe without lastEventId: only later events.
SubscribeListener(s) ==
  /\ publishing = <<>>
  /\ ~Active(s)
  /\ Cleanup
  /\ bucket' = BucketsAfterCleanup
  /\ listeners' = [listeners EXCEPT ![Topic[s]] = Append(@, s)]
  /\ seen' = [seen EXCEPT ![s] = <<>>]
  /\ from' = [from EXCEPT ![s] = Len(log[Topic[s]]) + 1]
  /\ skipped' = skipped \ {s}
  /\ UNCHANGED <<clock, lastId, publishing, log>>

\* Mutant of Replayed: the event with lastEventId itself is replayed too.
ReplayedFromLast(b, last) == After(b, last - 1)

Replayed(b, last) == After(b, last)

\* The number of events after last that the log has and retention has given up.
ExpiredSince(s, last) ==
  Cardinality({i \in 1..Len(log[Topic[s]]) :
    log[Topic[s]][i].id > last /\ log[Topic[s]][i].expiresAt <= clock})

Ids(b) == [i \in 1..Len(b) |-> b[i].id]

\* subscribe with the lastEventId of the last event the subscriber saw: the
\* retained events after it are replayed, then the listener is registered.
\* Only a subscriber that was away for longer than the window starts anew.
Resume(s) ==
  /\ publishing = <<>>
  /\ ~Active(s)
  /\ seen[s] # <<>>
  /\ Cleanup
  /\ bucket' = BucketsAfterCleanup
  /\ LET last   == seen[s][Len(seen[s])]
         replay == Ids(Replayed(BucketsAfterCleanup[Topic[s]], last))
     IN  IF ExpiredSince(s, last) = 0
         THEN seen' = [seen EXCEPT ![s] = @ \o replay] /\ UNCHANGED <<from, skipped>>
         ELSE /\ seen' = [seen EXCEPT ![s] = replay]
              /\ from' = [from EXCEPT ![s] = Len(log[Topic[s]]) + 1 - Len(replay)]
              /\ skipped' = skipped \ {s}
  /\ listeners' = [listeners EXCEPT ![Topic[s]] = Append(@, s)]
  /\ UNCHANGED <<clock, lastId, publishing, log>>

\* The unsubscribe function, called from anywhere but a running publish.
Unsubscribe(s) ==
  /\ publishing = <<>>
  /\ Active(s)
  /\ listeners' = Without(s)
  /\ UNCHANGED <<clock, lastCleanup, lastId, bucket, publishing, log, seen, from, skipped>>

ClockTicks ==
  /\ publishing = <<>>
  /\ clock < MaxTime
  /\ clock' = clock + 1
  /\ UNCHANGED <<lastCleanup, lastId, listeners, bucket, publishing, log, seen, from, skipped>>

MemoryNext ==
  \/ \E e \in Events : PublishEvent(e)
  \/ \E how \in Endings : CallListener(how)
  \/ SkipIndex
  \/ \E s \in Subs : SubscribeListener(s) \/ Resume(s) \/ Unsubscribe(s)
  \/ ClockTicks

MemorySpec == MemoryInit /\ [][MemoryNext]_memoryVars

-----------------------------------------------------------------------------
(* What the publisher promises.                                            *)

\* The forEach of the running publish has still to come to the subscriber.
IsOwed(s) ==
  /\ publishing # <<>>
  /\ publishing[1].event = Topic[s]
  /\ Position(s) >= publishing[1].next

\* A subscriber sees the events of its topic without a gap, without a
\* repetition and in the order they were published, from the event it started
\* with to the last one, across every unsubscribe and resume (publish,
\* subscribeListener, cleanup).  Only a subscriber that was away for longer than
\* the retention window starts anew.  Only a listener that comes after one that
\* unsubscribed itself or threw loses an event, and it too gets nothing twice
\* or late.
SubscribersFollowTheLog ==
  \A s \in Subs :
    LET l == log[Topic[s]]
        last == IF ~Active(s) THEN from[s] + Len(seen[s]) - 1
                ELSE IF IsOwed(s) THEN Len(l) - 1 ELSE Len(l)
    IN  IF s \in skipped
        THEN \A i \in 1..Len(seen[s]) - 1 : seen[s][i] < seen[s][i + 1]
        ELSE last <= Len(l) /\ seen[s] = Ids(SubSeq(l, from[s], last))

\* An event is kept for resume for the whole window, and what is kept is the
\* end of the log: cleaning up lazily never cuts a hole (cleanup).
RetainedForTheWindow ==
  \A e \in Events :
    /\ bucket[e] = SubSeq(log[e], Len(log[e]) - Len(bucket[e]) + 1, Len(log[e]))
    /\ \A i \in 1..Len(log[e]) : log[e][i].expiresAt > clock =>
         i > Len(log[e]) - Len(bucket[e])

\* Subscribers can follow the log whenever they come back: they are given what is
\* theirs of it, and what they may still ask for is there.
LogIsServed == SubscribersFollowTheLog /\ RetainedForTheWindow

\* Memory stays bounded although the clean-up is lazy: whenever something is
\* published, nothing is kept that expired a whole window ago (cleanup).
CleanupKeepsUp ==
  [][lastId' # lastId =>
       \A e \in Events : \A i \in 1..Len(bucket'[e]) :
         bucket'[e][i].expiresAt + ResumeSeconds > clock]_memoryVars

\* Every listener that is registered when an event is published, and that has
\* not unsubscribed before its turn, gets the event (publish; memory.test.ts
\* counts a call per active registration).
EveryListenerIsCalled ==
  \A s \in Subs :
    Active(s) /\ ~IsOwed(s) /\ log[Topic[s]] # <<>> /\ from[s] <= Len(log[Topic[s]]) =>
      seen[s] # <<>> /\ seen[s][Len(seen[s])] = log[Topic[s]][Len(log[Topic[s]])].id
=============================================================================
