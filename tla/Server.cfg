\* Four messages of a socket; three requests of five paths below three lazy
\* parts; procedures of two middlewares and two schemas a side; three calls of a
\* limiter; a request of two calls under two limits; batches of at most two of three
\* requests, with two frames each.
SPECIFICATION Spec
CONSTANTS
  MaxMessages = 4
  Matches = {1, 2, 3}
  Paths = {"p", "q", "r", "s", "x"}
  Parts = {"a", "b", "c"}
  Through <- MCThrough
  Tests <- MCTests
  Procedures = {"p", "q", "r", "s"}
  MaxFailures = 2
  MaxMiddlewares = 2
  MaxSchemas = 2
  MaxNexts = 2
  Clients = {1, 2, 3}
  KeyOf <- MCKeyOf
  WeightOf <- MCWeightOf
  MaxRequests = 2
  Window = 2
  Timeout = 2
  LastCall = 1
  MaxFlushes = 2
  Calls = {1, 2}
  Limits = {1, 2}
  MaxChecks = 3
  MaxPlugins = 3
  Batches <- MCBatches
  MaxBatchSize = 2
  MaxFrames = 2
CHECK_DEADLOCK FALSE
INVARIANTS
  MessagesInOrder
  ServedWhileOpen
  NothingIsOverlooked
  CheckedBothWays
  WithinTheLimit
  ChargedOncePerPath
  PluginsNestAsStated
  BatchIsAnswered
PROPERTIES
  MatchesSettle
  EveryLimitAnswers
