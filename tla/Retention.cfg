\* Three subscribers of two events in memory, with callbacks that leave or throw;
\* two processes that publish to one Redis stream.
SPECIFICATION Spec
CONSTANTS
  e1 = e1
  e2 = e2
  s1 = s1
  s2 = s2
  s3 = s3
  Events <- MCEvents
  Subs <- MCSubs
  Topic <- MCTopic
  ResumeSeconds = 2
  Endings = {"returns", "leaves", "throws"}
  MaxTime = 6
  MaxPublishes = 3
  Processes = {p1, p2}
  Seconds = 2
  MaxDelay = 1
  MaxNow = 4
  MaxInFlight = 2
  MaxRefused = 1
CHECK_DEADLOCK FALSE
INVARIANTS
  LogIsServed
  RetainedForSeconds
PROPERTIES
  CleanupKeepsUp
