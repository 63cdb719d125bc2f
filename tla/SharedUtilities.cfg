\* Two ids, on which the queue is opened, pushed, pulled and closed in any order;
\* two replicas of one source, read and cancelled in any order; every sorted
\* bucket of at most five entries; forms of two parts, cut into chunks of at most six
\* bytes; uploads of at most four; values of depth three; objects of depth three; three documents with two definitions;
\* two hundred schemas and some thirty values to coerce;
\* two thousand calls over OpenAPI;
\* files of two bytes, replaced once, and two requests for them.
SPECIFICATION Spec
CONSTANTS
  i1 = i1
  i2 = i2
  x1 = x1
  x2 = x2
  Done = Done
  Error = Error
  NoItem = NoItem
  NoCall = NoCall
  Ids <- MCIds
  Items <- MCItems
  Calls <- MCCalls
  MaxPushes = 3
  MaxKey = 4
  MaxLength = 5
  Forms <- MCForms
  MaxPartHeader = 5
  MaxChunk = 6
  BodyLimits <- MCBodyLimits
  MaxBody = 4
  MaxFiles = 2
  Leaves = {"plain", "undefined", "date", "blob", "picture"}
  Width = 2
  MaxIndex = 1
  Documents <- MCDocuments
  MaxHoists = 3
  Definitions <- MCDefinitions
  Schemas <- MCCoercions
  GivenValues <- MCGiven
  Exchanges <- MCExchanges
  Directories <- MCDirectories
  Encodings <- MCEncodings
  Absent = Absent
  Folder = Folder
  Nothing = Nothing
  Unsatisfiable = Unsatisfiable
  MaxSize = 2
  MaxTime = 2
  MaxWrites = 1
  MaxAsked = 2
CHECK_DEADLOCK FALSE
INVARIANTS
  QueueInv
  FindsTheFirstLater
  FormIsReadWhole
  FilesServeTheRequest
  ComesBackAsSent
  BracketsComeBack
  ComponentsAreNamedWell
  DownloadIsOneVersion
  CoercionIsSound
  CallComesThrough
PROPERTIES
  ReplicasShareTheSource
  CancellingLeavesNothing
