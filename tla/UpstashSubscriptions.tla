-------------------------- MODULE UpstashSubscriptions --------------------------
(***************************************************************************)
(* The subscribers of one event of an Upstash publisher (publisher/src/     *)
(* adapters/upstash.ts), which share one subscription: a connection of its  *)
(* own.  Whoever finds an attempt to connect waits for it, and whoever      *)
(* leaves last closes the connection.  A connection is external: it opens   *)
(* or is refused, and carries every message to the listeners of the event.  *)
(*                                                                         *)
(* Continuations of a settled promise run in the order in which they        *)
(* awaited it, and before the next event from outside: the microtask queue. *)
(***************************************************************************)
EXTENDS Integers, Sequences, FiniteSets

CONSTANTS
  UpstashSubscribers,  \* calls of subscribeListener
  MaxConnections       \* bound: calls of redis.subscribe

ASSUME UpstashAssumption == MaxConnections \in Nat

VARIABLES
  step,          \* of subscribeListener, and of unsubscribeEvent after it
  task,          \* of its call of subscribeEvent, which it awaits last
  connection,    \* "unused", "asked", "open", "refused" or "closed"
  maker,         \* the subscriber whose task made the connection
  waiters,       \* who awaits the promise of each connection: [who, of]
  microtasks,    \* the waiters whose promise is settled
  listeners,     \* listenersMap
  pendingSub,    \* pendingSubscriptionsMap: a connection, or NoConnection
  subscription,  \* subscriptionMap: a connection, or NoConnection
  crossed        \* history: see Crossing

upstashVars == <<step, task, connection, maker, waiters, microtasks, listeners, pendingSub,
                 subscription, crossed>>

NoConnection == 0
Connections == 1..MaxConnections

UpstashInit ==
  /\ step = [s \in UpstashSubscribers |-> "idle"]
  /\ task = [s \in UpstashSubscribers |-> "none"]
  /\ connection = [c \in Connections |-> "unused"]
  /\ maker = [c \in Connections |-> NoConnection]
  /\ waiters = [c \in Connections |-> <<>>] /\ microtasks = <<>>
  /\ listeners = {} /\ pendingSub = NoConnection /\ subscription = NoConnection
  /\ crossed = FALSE

\* Nothing is left to run before the next event from outside.
Quiet ==
  /\ microtasks = <<>>
  /\ \A s \in UpstashSubscribers : ~(step[s] = "awaiting" /\ task[s] \in {"done", "rejected"})

\* subscribeEvent from its check of subscriptionMap to its next await.
Connect(s) ==
  \/ /\ subscription # NoConnection
     /\ task' = [task EXCEPT ![s] = "done"]
     /\ UNCHANGED <<connection, maker, pendingSub>>
  \/ /\ subscription = NoConnection
     /\ \E c \in Connections :
          /\ connection[c] = "unused" /\ \A d \in 1..(c - 1) : connection[d] # "unused"
          /\ connection' = [connection EXCEPT ![c] = "asked"]
          /\ maker' = [maker EXCEPT ![c] = s]
          /\ pendingSub' = c
          /\ task' = [task EXCEPT ![s] = "connecting"]

\* Mutant of SubscribeEvent: nobody waits for the attempt of another.
SubscribeEventAlone(s) == Connect(s) /\ UNCHANGED waiters

\* subscribeEvent up to its first await.
SubscribeEvent(s) ==
  \/ /\ pendingSub # NoConnection
     /\ task' = [task EXCEPT ![s] = "waiting"]
     /\ waiters' = [waiters EXCEPT ![pendingSub] = Append(@, [who |-> s, of |-> "task"])]
     /\ UNCHANGED <<connection, maker, pendingSub>>
  \/ pendingSub = NoConnection /\ Connect(s) /\ UNCHANGED waiters

\* subscribeListener up to its first await: with an id to resume from it reads
\* the missed events first, without one it awaits the subscription.
Subscribes(s) ==
  /\ step[s] = "idle" /\ Quiet
  /\ listeners' = listeners \cup {s}
  /\ SubscribeEvent(s)
  /\ \E next \in {"reading", "awaiting"} : step' = [step EXCEPT ![s] = next]
  /\ UNCHANGED <<microtasks, subscription, crossed>>

\* unsubscribeEvent from its check of listenersMap on: the last one closes the
\* connection.
Disconnect(s, left) ==
  /\ step' = [step EXCEPT ![s] = "gone"]
  /\ \/ /\ left = {} /\ subscription # NoConnection
        /\ connection' = [connection EXCEPT ![subscription] = "closed"]
        /\ subscription' = NoConnection
     \/ (left # {} \/ subscription = NoConnection) /\ UNCHANGED <<connection, subscription>>

\* Mutant of UnsubscribeEvent: it does not wait for a pending attempt.
UnsubscribeEventAtOnce(s, left) == Disconnect(s, left) /\ UNCHANGED waiters

\* unsubscribeEvent up to its first await.
UnsubscribeEvent(s, left) ==
  \/ /\ pendingSub # NoConnection
     /\ step' = [step EXCEPT ![s] = "leaving"]
     /\ waiters' = [waiters EXCEPT ![pendingSub] = Append(@, [who |-> s, of |-> "leave"])]
     /\ UNCHANGED <<connection, subscription>>
  \/ pendingSub = NoConnection /\ Disconnect(s, left) /\ UNCHANGED waiters

\* The listener is taken out, by the catch of subscribeListener or by the
\* function it returned, and unsubscribeEvent is called.
Leave(s) ==
  /\ listeners' = listeners \ {s}
  /\ UnsubscribeEvent(s, listeners \ {s})
  /\ UNCHANGED <<task, maker, microtasks, pendingSub, crossed>>

\* subscribeListener gets to the next of its steps and changes nothing else.
Proceed(s, next) ==
  /\ step' = [step EXCEPT ![s] = next]
  /\ UNCHANGED <<task, connection, maker, waiters, microtasks, listeners, pendingSub, subscription, crossed>>

\* XREAD is answered or fails.  The task goes on whatever becomes of it.
XreadSettles(s) ==
  /\ step[s] = "reading" /\ Quiet
  /\ Proceed(s, "awaiting") \/ Leave(s)

\* Two ways to lose count: after a failure several tasks go on that waited for it,
\* and each connects; or one goes on whose subscriber has left (its XREAD failed)
\* and waits behind it for the same promise only.
Crossing(queue, opens) ==
  LET tasks == {i \in 1..Len(queue) : queue[i].of = "task"}
  IN  \/ ~opens /\ Cardinality(tasks) > 1
      \/ \E i \in tasks : queue[i].who \notin listeners

\* A connection opens or is refused.  The subscribeEvent that made it runs on
\* first; its finally deletes the entry of the event, whoever set it.
ConnectionSettles(c, opens) ==
  /\ connection[c] = "asked" /\ Quiet
  /\ connection' = [connection EXCEPT ![c] = IF opens THEN "open" ELSE "refused"]
  /\ task' = [task EXCEPT ![maker[c]] = IF opens THEN "done" ELSE "rejected"]
  /\ subscription' = IF opens THEN c ELSE subscription
  /\ pendingSub' = NoConnection
  /\ microtasks' = waiters[c]
  /\ waiters' = [waiters EXCEPT ![c] = <<>>]
  /\ crossed' = (crossed \/ Crossing(microtasks', opens))
  /\ UNCHANGED <<step, maker, listeners>>

\* A waiter goes on.  Neither looks for a pending attempt again.
Resumes ==
  /\ microtasks # <<>>
  /\ microtasks' = Tail(microtasks)
  /\ LET w == Head(microtasks)
     IN  \/ w.of = "task" /\ Connect(w.who) /\ UNCHANGED <<step, subscription>>
         \/ w.of = "leave" /\ Disconnect(w.who, listeners) /\ UNCHANGED <<task, maker, pendingSub>>
  /\ UNCHANGED <<waiters, listeners, crossed>>

\* await subscribeEventPromise: subscribe resolves, or everything is taken back.
TaskIsAwaited(s) ==
  /\ step[s] = "awaiting" /\ microtasks = <<>>
  /\ \/ task[s] = "done" /\ Proceed(s, "active")
     \/ task[s] = "rejected" /\ Leave(s)

\* The function that subscribe returned is called.
Unsubscribes(s) == step[s] = "active" /\ Quiet /\ Leave(s)

\* What the microtask queue, Redis and the connections do by themselves.
UpstashContinues == Resumes \/ \E s \in UpstashSubscribers : TaskIsAwaited(s) \/ XreadSettles(s)
UpstashAnswers == \E c \in Connections, opens \in BOOLEAN : ConnectionSettles(c, opens)

UpstashNext ==
  \/ \E s \in UpstashSubscribers : Subscribes(s) \/ Unsubscribes(s)
  \/ UpstashContinues \/ UpstashAnswers

UpstashSpec == UpstashInit /\ [][UpstashNext]_upstashVars

-----------------------------------------------------------------------------
Waiters == [who : UpstashSubscribers, of : {"task", "leave"}]

UpstashTypeOK ==
  /\ step \in [UpstashSubscribers -> {"idle", "reading", "awaiting", "active", "leaving", "gone"}]
  /\ task \in [UpstashSubscribers -> {"none", "waiting", "connecting", "done", "rejected"}]
  /\ connection \in [Connections -> {"unused", "asked", "open", "refused", "closed"}]
  /\ maker \in [Connections -> {NoConnection} \cup UpstashSubscribers]
  /\ waiters \in [Connections -> Seq(Waiters)] /\ microtasks \in Seq(Waiters)
  /\ listeners \subseteq UpstashSubscribers /\ crossed \in BOOLEAN
  /\ pendingSub \in {NoConnection} \cup Connections /\ subscription \in {NoConnection} \cup Connections

\* The connections that bring messages, or will: each calls every listener.
Dispatching == {c \in Connections : connection[c] \in {"asked", "open"}}

\* An event has one subscription, so no listener is called twice for a message:
\* "shares one Redis subscription across listeners" (upstash.test.ts).
OneSubscription == Cardinality(Dispatching) <= 1

\* There is more than one only after a Crossing, and a subscriber that was told
\* it is subscribed has an open one whatever the others do meanwhile
\* (subscribeEvent, unsubscribeEvent).
SubscriptionIsShared ==
  /\ OneSubscription \/ crossed
  /\ \A s \in UpstashSubscribers : step[s] = "active" => \E c \in Connections : connection[c] = "open"

\* Every subscribe and unsubscribe settles, and when nobody listens any more the
\* connection is closed, with the same exception (unsubscribeEvent waits for a
\* pending attempt before it looks for a subscription).
SubscribersComeAndGo ==
  <>[]( /\ \A s \in UpstashSubscribers : step[s] \in {"idle", "active", "gone"}
        /\ listeners = {} /\ ~crossed => Dispatching = {} )
=============================================================================
