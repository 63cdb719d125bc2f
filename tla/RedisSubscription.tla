--------------------------- MODULE RedisSubscription ---------------------------
(***************************************************************************)
(* One subscription of a Redis publisher with resume (publisher/src/        *)
(* adapters/redis.ts, subscribeListener; upstash.ts and bun/src/redis-      *)
(* publisher.ts are the same).  SUBSCRIBE goes out on one connection and    *)
(* XREAD, for the events after lastEventId, on another: Redis serves them   *)
(* in any order, and publishers add events and publish them meanwhile.      *)
(* Live events wait until the backlog was delivered, and those that were in *)
(* the backlog are dropped.                                                *)
(*                                                                         *)
(* Redis is external: event ids are the positions 1, 2, ... in the stream,  *)
(* and nothing is trimmed (ResumeWindow models that).                      *)
(***************************************************************************)
EXTENDS Integers, Sequences, SequencesExt, FiniteSets

CONSTANT MaxEvents   \* bound: events

ASSUME RedisAssumption == MaxEvents \in Nat

VARIABLES
  ordered,    \* whether each event is published before the next is added (one publisher)
  last,       \* the last event in the stream
  unsent,     \* events in the stream whose PUBLISH Redis has not served
  phase,      \* of the call of subscribe, and of the unsubscribe after it
  after,      \* lastEventId, NoLast without it
  channel,    \* SUBSCRIBE: "none", "asked", "open" or "refused"
  inbox,      \* what the subscriber connection brings: Ack and event ids
  acked,      \* whether the promise of SUBSCRIBE has resolved
  xread,      \* XREAD: "none", "asked", "served" or "refused"
  backlog,    \* the reply of XREAD, on its way
  pending,    \* pendingPayloads; isFlushed says that it is undefined
  isFlushed,
  resumed,    \* resumedIds
  seen,       \* events the listener was called with
  blind       \* history: events published after XREAD was served and before SUBSCRIBE was

redis == <<ordered, last, unsent>>
client == <<phase, after, acked, pending, isFlushed, resumed, seen>>
wire == <<channel, inbox, xread, backlog, blind>>
redisVars == <<redis, client, wire>>

NoLast == -1
Ack == 0
Ids == 1..MaxEvents

RedisInit ==
  /\ ordered \in BOOLEAN
  /\ last = 0 /\ unsent = {}
  /\ phase = "idle" /\ after = NoLast /\ acked = FALSE
  /\ channel = "none" /\ inbox = <<>>
  /\ xread = "none" /\ backlog = <<>>
  /\ pending = <<>> /\ isFlushed = FALSE /\ resumed = {}
  /\ seen = <<>> /\ blind = {}

\* publish: XADD gives the event its id.
Add ==
  /\ last < MaxEvents
  /\ ordered => unsent = {}
  /\ last' = last + 1
  /\ unsent' = unsent \cup {last + 1}
  /\ UNCHANGED <<ordered, client, wire>>

\* publish: PUBLISH reaches whoever is subscribed now.  Publishers of several
\* processes reach Redis in any order.
Publish(id) ==
  /\ id \in unsent
  /\ unsent' = unsent \ {id}
  /\ inbox' = IF channel = "open" THEN Append(inbox, id) ELSE inbox
  /\ blind' = IF xread = "served" /\ channel = "asked" THEN blind \cup {id} ELSE blind
  /\ UNCHANGED <<ordered, last, client, channel, xread, backlog>>

\* subscribeListener up to its first await: SUBSCRIBE is sent, XREAD right after
\* it when there is an id to resume from; without one nothing is pending.
SubscribesRedis(id) ==
  /\ phase = "idle"
  /\ phase' = "subscribing"
  /\ after' = id
  /\ channel' = "asked"
  /\ xread' = IF id = NoLast THEN "none" ELSE "asked"
  /\ isFlushed' = (id = NoLast)
  /\ UNCHANGED <<redis, inbox, acked, backlog, pending, resumed, seen, blind>>

\* Redis serves SUBSCRIBE, or the connection fails.
ServeSubscribe ==
  /\ channel = "asked"
  /\ \/ channel' = "open" /\ inbox' = Append(inbox, Ack)
     \/ channel' = "refused" /\ UNCHANGED inbox
  /\ UNCHANGED <<redis, client, xread, backlog, blind>>

\* XREAD: the events after lastEventId, in the order of the stream.
EventsAfter(id) == [i \in 1..(last - id) |-> id + i]

\* Redis serves XREAD, or the connection fails.
ServeXread ==
  /\ xread = "asked"
  /\ \/ xread' = "served" /\ backlog' = EventsAfter(after)
     \/ xread' = "refused" /\ UNCHANGED backlog
  /\ UNCHANGED <<redis, client, channel, inbox, blind>>

\* What is not known yet, in its order: the loop of the flush.
Fresh(ids, known) ==
  LET fresh[i \in 0..Len(ids)] ==
        IF i = 0 THEN <<>>
        ELSE IF ids[i] \in known THEN fresh[i - 1] ELSE Append(fresh[i - 1], ids[i])
  IN  fresh[Len(ids)]

\* Mutant of Flushed: what came in during the resume is flushed first.
FlushedFirst(reply) == Fresh(pending, ToSet(reply)) \o reply

\* The loop over the reply of XREAD, and the flush of what came in meanwhile.
Flushed(reply) == reply \o Fresh(pending, ToSet(reply))

\* The reply of XREAD arrives: the backlog is delivered, then what is pending.
Resume ==
  /\ phase = "subscribing" /\ ~isFlushed /\ xread = "served"
  /\ resumed' = ToSet(backlog)
  /\ seen' = seen \o Flushed(backlog)
  /\ isFlushed' = TRUE /\ pending' = <<>>
  /\ UNCHANGED <<redis, phase, after, acked, wire>>

\* XREAD failed: what is pending is still delivered (finally), and then the
\* subscription is taken back (catch).
ResumeFails ==
  /\ phase = "subscribing" /\ ~isFlushed /\ xread = "refused"
  /\ seen' = seen \o pending
  /\ isFlushed' = TRUE /\ pending' = <<>>
  /\ phase' = "failing"
  /\ UNCHANGED <<redis, after, acked, resumed, wire>>

\* A message arrives: redisListener and deduplicatingListener.  While
\* unsubscribe is on its way the listener is still called.
Receive ==
  /\ inbox # <<>> /\ phase \in {"subscribing", "active", "failing", "closing"}
  /\ inbox' = Tail(inbox)
  /\ LET id == Head(inbox)
     IN  \/ id = Ack /\ acked' = TRUE /\ UNCHANGED <<pending, seen>>
         \/ /\ id # Ack /\ ~isFlushed
            /\ pending' = Append(pending, id) /\ UNCHANGED <<acked, seen>>
         \/ /\ id # Ack /\ isFlushed
            /\ seen' = seen \o Fresh(<<id>>, resumed) /\ UNCHANGED <<acked, pending>>
  /\ UNCHANGED <<redis, phase, after, isFlushed, resumed, channel, xread, backlog, blind>>

\* What a mutated subscribe would do: wait for the acknowledgement only.
SettleAcked ==
  /\ phase = "subscribing" /\ isFlushed /\ acked
  /\ phase' = "active"
  /\ UNCHANGED <<redis, after, acked, pending, isFlushed, resumed, seen, wire>>

\* await subscribePromise, after the backlog: subscribe resolves or rejects.
Settle ==
  /\ phase = "subscribing" /\ isFlushed
  /\ \/ acked /\ phase' = "active"
     \/ channel = "refused" /\ phase' = "failing"
  /\ UNCHANGED <<redis, after, acked, pending, isFlushed, resumed, seen, wire>>

\* The function that subscribe returned is called.
Unsubscribe ==
  /\ phase = "active"
  /\ phase' = "closing"
  /\ UNCHANGED <<redis, after, acked, pending, isFlushed, resumed, seen, wire>>

\* UNSUBSCRIBE is served: the listener is gone.
Unsubscribed ==
  /\ phase \in {"failing", "closing"}
  /\ phase' = IF phase = "failing" THEN "failed" ELSE "closed"
  /\ channel' = "none" /\ inbox' = <<>>
  /\ UNCHANGED <<redis, after, acked, pending, isFlushed, resumed, seen, xread, backlog, blind>>

RedisNext ==
  \/ Add
  \/ \E id \in Ids : Publish(id)
  \/ \E id \in {NoLast} \cup 0..last : SubscribesRedis(id)
  \/ ServeSubscribe \/ ServeXread
  \/ Resume \/ ResumeFails \/ Receive \/ Settle
  \/ Unsubscribe \/ Unsubscribed

\* Redis answers, messages arrive and promises continue.
RedisFairness ==
  /\ WF_redisVars(ServeSubscribe) /\ WF_redisVars(ServeXread)
  /\ WF_redisVars(Resume \/ ResumeFails \/ Settle \/ Receive \/ Unsubscribed)

RedisSpec == RedisInit /\ [][RedisNext]_redisVars /\ RedisFairness

-----------------------------------------------------------------------------
RedisTypeOK ==
  /\ ordered \in BOOLEAN /\ last \in 0..MaxEvents /\ unsent \subseteq Ids
  /\ phase \in {"idle", "subscribing", "active", "failing", "closing", "failed", "closed"}
  /\ after \in {NoLast} \cup 0..MaxEvents
  /\ channel \in {"none", "asked", "open", "refused"}
  /\ xread \in {"none", "asked", "served", "refused"}
  /\ inbox \in Seq({Ack} \cup Ids) /\ backlog \in Seq(Ids) /\ pending \in Seq(Ids) /\ seen \in Seq(Ids)
  /\ acked \in BOOLEAN /\ isFlushed \in BOOLEAN
  /\ resumed \subseteq Ids /\ blind \subseteq Ids

Published == (1..last) \ unsent

\* What a subscription that resumes at id has not seen of what was published
\* after it.
Missed == {id \in Published : id > after} \ ToSet(seen \o inbox)

\* Whatever was published after lastEventId is seen, or will be, unless Redis
\* published it in the gap between serving XREAD and serving SUBSCRIBE
\* (subscribeListener).
OnlyTheGapLoses == phase = "active" /\ after # NoLast => Missed \subseteq blind

\* Nothing is missed: "resumes missed events in order" and "deduplicates events
\* that race between resume and live delivery" (redis.test.ts).
NothingIsMissed == phase = "active" /\ after # NoLast => Missed = {}

\* No event reaches the listener twice, although it may be in the backlog and
\* come live, before or after the backlog arrives (deduplicatingListener).  And
\* when events are published in the order of their ids, the listener sees those
\* after lastEventId in that order, the backlog before what came in while it was
\* read (the flush in subscribeListener).  The event of lastEventId itself may
\* come again, live, if it was read before it was published.
SeenInOrder ==
  /\ IsInjective(seen)
  /\ ordered => \A i, j \in 1..Len(seen) : i < j /\ seen[i] > after /\ seen[j] > after => seen[i] < seen[j]

\* A subscription serves its listener: events come once, in order, and none after
\* lastEventId is lost but in the gap.
ListenerIsServed == SeenInOrder /\ OnlyTheGapLoses

\* Every call of subscribe resolves or rejects, and a subscription that is
\* given up ends (subscribeListener: await subscribePromise, catch).
EverySubscribeSettles ==
  /\ (phase = "subscribing") ~> (phase \in {"active", "closing", "closed", "failed"})
  /\ (phase = "failing") ~> (phase = "failed" /\ channel = "none")
=============================================================================
