\* One iterator over four events of which two fit in the buffer; a Redis
\* subscription with four events; three Upstash subscribers; a Durable Object
\* that keeps three events for two seconds and is checked every three.
SPECIFICATION Spec
CONSTANTS
  MaxBuffered = 2
  MaxDelivered = 4
  MaxEvents = 4
  UpstashSubscribers = {1, 2, 3}
  MaxConnections = 5
  StoredSeconds = 2
  CleanupInterval = 3
  MaxStored = 3
  MaxResets = 1
  MaxInits = 2
CHECK_DEADLOCK FALSE
INVARIANTS
  ConsumerIsServed
  ListenerIsServed
  SubscriptionIsShared
PROPERTIES
  EndedIsUnsubscribed
  SubscribersSettle
  ResumesOnce
  IdleIsEmptied
