---------------------------- MODULE DurablePublisher ----------------------------
(***************************************************************************)
(* DurablePublisherObject (cloudflare/src/publisher-object.ts): the Durable *)
(* Object behind a DurablePublisher, with resume.  It keeps events in       *)
(* SQLite, sends them over WebSockets, and an alarm empties it when it has  *)
(* been idle.  It may be evicted at any time: the fields of ResumeStorage   *)
(* are lost, and the storage, its alarm and the sockets are not.            *)
(*                                                                         *)
(* The platform is external.  A handler runs to its next await; the alarm   *)
(* handler counts as one step, for blockConcurrencyWhile lets nothing in.   *)
(* Storage answers within a unit of the clock.  Times are kept as ages and  *)
(* as what is left, so that the clock itself is unbounded.                  *)
(***************************************************************************)
EXTENDS Integers, Sequences, FiniteSetsExt

CONSTANTS
  StoredSeconds,     \* resume.seconds
  CleanupInterval,   \* resume.cleanupIntervalSeconds
  MaxStored,         \* bound: events published
  MaxResets,         \* bound: inserts that fail
  MaxInits           \* bound: calls of initAlarm at a time

ASSUME DurableAssumption ==
  /\ StoredSeconds \in Nat \ {0} /\ CleanupInterval \in Nat \ {0}
  /\ {MaxStored, MaxResets, MaxInits} \subseteq Nat

VARIABLES
  table,         \* whether the table of events exists
  rows,          \* its rows: [id, event], where event is a position in ages
  nextId,        \* AUTOINCREMENT
  alarm,         \* what is left until the alarm, NoTime without one
  inited,        \* isInitedSchema
  alarmInited,   \* isInitedAlarm
  sinceCleanup,  \* the age of lastCleanupTime (at most StoredSeconds), NoTime without it
  inits,         \* the calls of initAlarm: "none", "reading" or "setting"
  read,          \* what each of them read as the current alarm
  ages,          \* history: the age of every event stored (at most StoredSeconds + 1)
  socket,        \* the socket of the subscriber: "none", "open" or "lost"
  lastId,        \* the id of the last event it got, 0 before one
  got,           \* history: the events it got
  renumbered,    \* history: whether ids started again since it got lastId
  resets,        \* history: inserts that failed
  crashed        \* history: the object went down with the alarm to be set

durableVars == <<table, rows, nextId, alarm, inited, alarmInited, sinceCleanup, inits, read,
                 ages, socket, lastId, got, renumbered, resets, crashed>>
storage == <<table, rows, nextId, alarm>>
memory == <<inited, alarmInited, sinceCleanup>>
subscriber == <<socket, lastId, got>>
history == <<ages, renumbered, resets>>

NoTime == -1

DurableInit ==
  /\ table = FALSE /\ rows = {} /\ nextId = 1 /\ alarm = NoTime
  /\ inited = FALSE /\ alarmInited = FALSE /\ sinceCleanup = NoTime
  /\ inits = [i \in 1..MaxInits |-> "none"] /\ read = [i \in 1..MaxInits |-> NoTime]
  /\ ages = <<>> /\ socket = "none" /\ lastId = 0 /\ got = {}
  /\ renumbered = FALSE /\ resets = 0 /\ crashed = FALSE

Slots == 1..MaxInits

\* ensureSchemaAndCleanup: the table is created, and what has expired is deleted,
\* though not twice within StoredSeconds.  Kept are the rows it leaves.
Created == ~inited /\ ~table
Deferred == Created \/ sinceCleanup \in 0..(StoredSeconds - 1)
Kept == {r \in rows : Deferred \/ ages[r.event] <= StoredSeconds}
CleanedAt == IF Created \/ ~Deferred THEN 0 ELSE sinceCleanup

\* The calls of initAlarm that n runs of it make, up to their first await.
StartAlarms(n) ==
  \/ alarmInited /\ UNCHANGED <<inits, read, crashed>>
  \/ /\ ~alarmInited
     /\ \E calls \in kSubset(n, {i \in Slots : inits[i] = "none"}) :
          /\ inits' = [i \in Slots |-> IF i \in calls THEN "reading" ELSE inits[i]]
          /\ read' = [i \in Slots |-> IF i \in calls THEN alarm ELSE read[i]]
     /\ crashed' = FALSE

EnsureSchemaAndCleanup ==
  /\ table' = TRUE /\ inited' = TRUE /\ sinceCleanup' = CleanedAt
  /\ StartAlarms(1)

\* Mutant of MustBeSet: an alarm that is missing is not set.
MustBeMoved(current) == current \in 0..(StoredSeconds - 1)
\* initAlarm: the alarm is missing, or of an earlier instance and too early.
MustBeSet(current) == current = NoTime \/ current < StoredSeconds

\* initAlarm goes on after getAlarm, and after setAlarm.
InitAlarm(i) ==
  /\ \/ /\ inits[i] = "reading" /\ MustBeSet(read[i])
        /\ alarm' = CleanupInterval
        /\ inits' = [inits EXCEPT ![i] = "setting"]
        /\ UNCHANGED alarmInited
     \/ /\ inits[i] = "setting" \/ (inits[i] = "reading" /\ ~MustBeSet(read[i]))
        /\ alarmInited' = TRUE
        /\ inits' = [inits EXCEPT ![i] = "none"]
        /\ UNCHANGED alarm
  /\ read' = [read EXCEPT ![i] = NoTime]
  /\ UNCHANGED <<table, rows, nextId, inited, sinceCleanup, history, subscriber, crashed>>

\* store, and the loop over the sockets in handlePublish.
StoreAndSend(others, id) ==
  LET event == Len(ages) + 1
  IN  /\ rows' = others \cup {[id |-> id, event |-> event]}
      /\ nextId' = id + 1
      /\ ages' = Append(ages, 0)
      /\ \/ socket = "open" /\ got' = got \cup {event} /\ lastId' = id
         \/ socket # "open" /\ UNCHANGED <<got, lastId>>

\* A publish whose insert succeeds.
PublishStores ==
  /\ Len(ages) < MaxStored
  /\ EnsureSchemaAndCleanup
  /\ StoreAndSend(Kept, nextId)
  /\ renumbered' = (renumbered /\ socket # "open")
  /\ UNCHANGED <<alarm, alarmInited, socket, resets>>

\* A publish whose insert fails: resetSchema drops the table and creates it
\* again, with a second call of initAlarm, and the second insert succeeds, or fails
\* and the publish with it.
PublishResets ==
  /\ Len(ages) < MaxStored /\ resets < MaxResets
  /\ table' = TRUE /\ inited' = TRUE /\ sinceCleanup' = 0
  /\ StartAlarms(2)
  /\ resets' = resets + 1
  /\ \/ StoreAndSend({}, 1) /\ renumbered' = (socket # "open")
     \/ /\ rows' = {} /\ nextId' = 1 /\ renumbered' = TRUE
        /\ UNCHANGED <<ages, got, lastId>>
  /\ UNCHANGED <<alarm, alarmInited, socket>>

\* Mutant of After: the event of lastEventId comes again.
AfterAndThat(id, stored) == {r \in stored : r.id >= id}
\* getAfter.
After(id, stored) == {r \in stored : r.id > id}

\* handleSubscribe without an id to resume from: the socket is accepted.
SubscribeLive ==
  /\ socket = "none" /\ lastId = 0
  /\ socket' = "open"
  /\ UNCHANGED <<storage, memory, inits, read, got, lastId, history, crashed>>

\* handleSubscribe with one: the events after it are sent before anything else
\* can run.
SubscribeResumes ==
  /\ socket = "none" /\ lastId # 0
  /\ socket' = "open"
  /\ EnsureSchemaAndCleanup
  /\ rows' = Kept
  /\ LET sent == After(lastId, Kept)
     IN  /\ got' = got \cup {r.event : r \in sent}
         /\ lastId' = Max({lastId} \cup {r.id : r \in sent})
         /\ renumbered' = (renumbered /\ sent = {})
  /\ UNCHANGED <<nextId, alarm, alarmInited, ages, resets>>

\* The subscriber loses its connection, and the object learns of it later.
Disconnected ==
  /\ socket' = CASE socket = "open" -> "lost" [] socket = "lost" -> "none" [] OTHER -> socket
  /\ UNCHANGED <<storage, memory, inits, read, got, lastId, history, crashed>>

\* Mutant of IsIdle: events that are still kept do not count.
NobodyIsConnected == socket = "none"
\* alarm: no socket and no event.
IsIdle == socket = "none" /\ Kept = {}

\* alarm: everything is deleted when the object is idle, and it is set again when
\* it is not.
AlarmFires ==
  /\ alarm = 0
  /\ sinceCleanup' = CleanedAt
  /\ \/ /\ IsIdle
        /\ table' = FALSE /\ rows' = {} /\ nextId' = 1 /\ alarm' = NoTime
        /\ inited' = FALSE /\ alarmInited' = FALSE
        /\ renumbered' = TRUE
     \/ /\ ~IsIdle
        /\ table' = TRUE /\ rows' = Kept /\ alarm' = CleanupInterval
        /\ inited' = TRUE /\ alarmInited' = TRUE
        /\ UNCHANGED <<nextId, renumbered>>
  /\ UNCHANGED <<inits, read, ages, subscriber, resets, crashed>>

\* The object is evicted, or crashes.
Evicted ==
  /\ inited' = FALSE /\ alarmInited' = FALSE /\ sinceCleanup' = NoTime
  /\ inits' = [i \in Slots |-> "none"] /\ read' = [i \in Slots |-> NoTime]
  /\ crashed' = (crashed \/ (alarm = NoTime /\ \E i \in Slots : inits[i] # "none"))
  /\ UNCHANGED <<storage, history, subscriber>>

\* A unit of time passes.
Tick ==
  /\ alarm # 0 /\ \A i \in Slots : inits[i] = "none"
  /\ ages' = [e \in DOMAIN ages |-> Min({ages[e] + 1, StoredSeconds + 1})]
  /\ alarm' = IF alarm = NoTime THEN NoTime ELSE alarm - 1
  /\ sinceCleanup' = IF sinceCleanup = NoTime THEN NoTime ELSE Min({sinceCleanup + 1, StoredSeconds})
  /\ UNCHANGED <<table, rows, nextId, inited, alarmInited, inits, read, subscriber, renumbered, resets, crashed>>

DurableNext ==
  \/ PublishStores \/ PublishResets \/ SubscribeLive \/ SubscribeResumes \/ Disconnected
  \/ AlarmFires \/ Evicted \/ Tick
  \/ \E i \in Slots : InitAlarm(i)

DurableSpec == DurableInit /\ [][DurableNext]_durableVars

-----------------------------------------------------------------------------
DurableTypeOK ==
  /\ table \in BOOLEAN /\ nextId \in Nat \ {0} /\ alarm \in {NoTime} \cup 0..CleanupInterval
  /\ ages \in Seq(0..(StoredSeconds + 1)) /\ rows \subseteq [id : Nat \ {0}, event : DOMAIN ages]
  /\ inited \in BOOLEAN /\ alarmInited \in BOOLEAN /\ sinceCleanup \in {NoTime} \cup 0..StoredSeconds
  /\ inits \in [Slots -> {"none", "reading", "setting"}]
  /\ read \in [Slots -> {NoTime} \cup 0..CleanupInterval]
  /\ socket \in {"none", "open", "lost"} /\ lastId \in Nat /\ got \subseteq DOMAIN ages
  /\ renumbered \in BOOLEAN /\ resets \in Nat /\ crashed \in BOOLEAN

\* What a subscriber that resumes has to get: the events published since the
\* last it got, for the time they are retained.
Due == {e \in DOMAIN ages : ages[e] <= StoredSeconds /\ e > Max({0} \cup got)}

\* A subscriber that resumes gets every event it missed: events are stored "so
\* new subscribers can resume from a previous position using `lastEventId`"
\* (publisher-object.ts).
RetainedIsResumed == [][SubscribeResumes => Due \subseteq got']_durableVars

\* It does, across evictions, clean-ups, alarms and lost sockets, unless ids
\* started again since its last event, and it gets nothing that it had (getAfter,
\* AUTOINCREMENT).  Only a failed insert deletes what is still retained.
ResumesOnce ==
  [][ /\ SubscribeResumes /\ ~renumbered =>
           Due \subseteq got' /\ \A r \in After(lastId, Kept) : r.event \notin got
      /\ resets' = resets => {r \in rows : ages[r.event] <= StoredSeconds} \subseteq rows'
    ]_durableVars

\* An object that nobody uses any more is emptied: its alarm is never lost,
\* except by a crash between the first insert and setAlarm, until the next
\* request (alarm, initAlarm).
IdleIsEmptied == []<>(~table) \/ []<>(socket # "none") \/ []<>crashed
=============================================================================
