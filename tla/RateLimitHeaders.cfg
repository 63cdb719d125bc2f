\* Two calls, two limits and three checks.
SPECIFICATION RequestSpec
CONSTANTS
  Calls = {1, 2}
  Limits = {1, 2}
  MaxChecks = 3
CHECK_DEADLOCK FALSE
INVARIANTS
  UnknownIsExhausted
