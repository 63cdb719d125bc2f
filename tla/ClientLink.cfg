\* Two attempts and three events; three callers of two requests; three requests in
\* batches of at most two or three; three calls of a transport whose socket drops once,
\* with and without reconnect.
SPECIFICATION Spec
CONSTANTS
  MaxAttempts = 2
  MaxEvents = 3
  Callers = {1, 2, 3}
  KeysOf <- MCKeysOf
  Signalled <- MCSignalled
  Requests = {1, 2, 3}
  MethodsOf <- MCMethodsOf
  MaxSizes = {2, 3}
  c1 = c1
  c2 = c2
  c3 = c3
  Senders <- MCSenders
  OnClose = TRUE
  MaxAttempt = 2
  MaxDrops = 1
INVARIANTS
  NothingLostOrRepeated
  NoStreamIsLeaked
  CallersStayApart
  TransportInv
PROPERTIES
  RetriesAreBounded
  GivingUpEnds
  GivesUpInARow
  CallsSettle
CHECK_DEADLOCK FALSE
