\* Three subscribers of an event whose connections may be refused.
SPECIFICATION UpstashSpec
CONSTANTS
  UpstashSubscribers = {1, 2, 3}
  MaxConnections = 5
CHECK_DEADLOCK FALSE
INVARIANTS
  OneSubscription
