SPECIFICATION RedisSpec
CONSTANTS
  MaxEvents = 2
INVARIANTS
  NothingIsMissed
CHECK_DEADLOCK FALSE
