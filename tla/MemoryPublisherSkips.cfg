\* A callback that unsubscribes itself makes forEach skip the next one.
SPECIFICATION MemorySpec
CONSTANTS
  e1 = e1
  e2 = e2
  s1 = s1
  s2 = s2
  s3 = s3
  Events <- MCEvents
  Subs <- MCSubs
  Topic <- MCTopic
  ResumeSeconds = 2
  Endings = {"returns", "leaves"}
  MaxTime = 5
  MaxPublishes = 3
CHECK_DEADLOCK FALSE
INVARIANTS
  EveryListenerIsCalled
