----------------------------- MODULE Subscriptions -----------------------------
(***************************************************************************)
(* Both sides of a subscription to a publisher: the iterator that           *)
(* Publisher.subscribe returns, and the subscriptions of the Redis, Upstash *)
(* and Durable Object adapters below it.  They share no state: to each, the *)
(* others are an environment of which it assumes less than they promise.  A *)
(* behaviour of this module is one of the four at work.                     *)
(***************************************************************************)
EXTENDS SubscribeIterator, RedisSubscription, UpstashSubscriptions, DurablePublisher

VARIABLE side  \* the one at work: "iterator", "redis", "upstash" or "durable"

vars == <<side, iteratorVars, redisVars, upstashVars, durableVars>>

\* One that is not at work stays in an initial state.
Init ==
  /\ side \in {"iterator", "redis", "upstash", "durable"}
  /\ IteratorInit /\ RedisInit /\ UpstashInit /\ DurableInit
  /\ side # "redis" => ~ordered

IteratorOnly == side = "iterator" /\ UNCHANGED <<side, redisVars, upstashVars, durableVars>>
RedisOnly == side = "redis" /\ UNCHANGED <<side, iteratorVars, upstashVars, durableVars>>
UpstashOnly == side = "upstash" /\ UNCHANGED <<side, iteratorVars, redisVars, durableVars>>
DurableOnly == side = "durable" /\ UNCHANGED <<side, iteratorVars, redisVars, upstashVars>>

Next ==
  \/ IteratorOnly /\ IteratorNext
  \/ RedisOnly /\ RedisNext
  \/ UpstashOnly /\ UpstashNext
  \/ DurableOnly /\ DurableNext

\* The fairness of each, of the one at work.
Fairness ==
  /\ WF_vars(\/ IteratorOnly /\ AbortListener
             \/ RedisOnly /\ ServeSubscribe
             \/ UpstashOnly /\ UpstashContinues
             \/ DurableOnly /\ \E i \in Slots : InitAlarm(i))
  /\ WF_vars(\/ IteratorOnly /\ (SubscribeResolves \/ SubscribeRejects)
             \/ RedisOnly /\ ServeXread
             \/ UpstashOnly /\ UpstashAnswers
             \/ DurableOnly /\ AlarmFires)
  /\ WF_vars(\/ IteratorOnly /\ Unlisten
             \/ RedisOnly /\ (Resume \/ ResumeFails \/ Settle \/ Receive \/ Unsubscribed)
             \/ DurableOnly /\ Tick)
  /\ WF_vars(IteratorOnly /\ CallSettles)

Spec == Init /\ [][Next]_vars /\ Fairness

-----------------------------------------------------------------------------
\* Whoever subscribes or unsubscribes is told how it went, and what nobody listens to
\* is closed, with the one exception of SubscriptionIsShared (subscribeListener of
\* either adapter).
SubscribersSettle == EverySubscribeSettles /\ SubscribersComeAndGo
=============================================================================
