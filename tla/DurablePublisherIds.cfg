\* Three events kept for two seconds, an alarm every three; no insert fails.
SPECIFICATION DurableSpec
CONSTANTS
  StoredSeconds = 2
  CleanupInterval = 3
  MaxStored = 3
  MaxResets = 0
  MaxInits = 1
CHECK_DEADLOCK FALSE
PROPERTIES
  RetainedIsResumed
