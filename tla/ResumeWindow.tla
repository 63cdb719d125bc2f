------------------------------ MODULE ResumeWindow ------------------------------
(***************************************************************************)
(* How long the Redis publishers keep an event for resume (publisher/src/   *)
(* adapters/redis.ts, publish).  Every publisher process trims the stream   *)
(* and renews the expiration of its key only on the first publish of a      *)
(* window of resumeSeconds, which it remembers in firstPublishTimeMap; the  *)
(* others only add to the stream.  The promise is that an event stays       *)
(* available for resumeSeconds, counted from the call of publish.           *)
(*                                                                         *)
(* One event name, hence one stream.  Commands of a process reach Redis in  *)
(* the order they were sent, within MaxDelay, and all clocks agree.         *)
(***************************************************************************)
EXTENDS Integers, Sequences, FiniteSets

CONSTANTS
  Processes,     \* publisher processes that share the Redis key
  Seconds,       \* resumeSeconds
  MaxDelay,      \* the longest a command is on its way
  MaxNow,        \* bound: the last instant
  MaxInFlight,   \* bound: commands of a process on their way to Redis
  MaxRefused     \* bound: transactions that Redis or the connection refuses

ASSUME WindowAssumption ==
  /\ Seconds \in Nat /\ MaxDelay \in Nat /\ MaxDelay < Seconds
  /\ MaxNow \in Nat /\ MaxInFlight \in Nat /\ MaxRefused \in Nat

VARIABLES
  now,            \* Date.now()
  firstPublish,   \* firstPublishTimeMap of each process, NoWindow when it has no entry
  inFlight,       \* commands of each process that Redis has not served yet
  stream,         \* events in the stream: when publish was called, and the time in the id
  expireAt,       \* when the key expires, NoExpiry when it has no expiration
  refused,        \* history: the windows whose transaction was refused
  added,          \* history: events added, until they are Seconds old
  exposed         \* history: the same of the refused windows

windowVars == <<now, firstPublish, inFlight, stream, expireAt, refused, added, exposed>>

NoWindow == -1
NoExpiry == -1

Instant == 0..MaxNow
Event   == [at : Instant, id : Instant]
Command == [at : Instant, window : Instant, first : BOOLEAN]

WindowInit ==
  /\ now = 0
  /\ firstPublish = [p \in Processes |-> NoWindow]
  /\ inFlight = [p \in Processes |-> <<>>]
  /\ stream = {} /\ added = {} /\ exposed = {} /\ refused = {}
  /\ expireAt = NoExpiry

\* Mutant of TimeToLive: the key expires after one window.
TimeToLiveOnce == Seconds

\* The entry is dropped once a whole window has passed since it was made.
IsOver(first) == first = NoWindow \/ first + Seconds < now

\* publish: without a window it opens one and sends the transaction, otherwise
\* it sends only the XADD.
Publish(p) ==
  LET first  == IsOver(firstPublish[p])
      window == IF first THEN now ELSE firstPublish[p]
  IN  /\ Len(inFlight[p]) < MaxInFlight
      /\ inFlight' = [inFlight EXCEPT
           ![p] = Append(@, [at |-> now, window |-> window, first |-> first])]
      /\ firstPublish' = [firstPublish EXCEPT ![p] = window]
      /\ UNCHANGED <<now, stream, expireAt, refused, added, exposed>>

\* XTRIM MINID with the modifier ~ drops events below the threshold, not
\* necessarily all of them.
Expired(at) == {e \in stream : e.id < at - Seconds}

\* The time to live that EXPIRE sets when Redis serves it.
TimeToLive == 2 * Seconds

Served(p) == inFlight' = [inFlight EXCEPT ![p] = Tail(@)]

\* Redis serves the transaction that opens a window: XADD, XTRIM and EXPIRE.
ServeFirst(p) ==
  /\ inFlight[p] # <<>> /\ Head(inFlight[p]).first
  /\ LET event == [at |-> Head(inFlight[p]).at, id |-> now]
     IN  /\ \E trimmed \in SUBSET Expired(event.at) :
              stream' = (stream \ trimmed) \cup {event}
         /\ added' = added \cup {event}
  /\ expireAt' = now + TimeToLive
  /\ Served(p)
  /\ UNCHANGED <<now, firstPublish, refused, exposed>>

\* Redis serves the XADD of a later publish of the window.
ServeLater(p) ==
  /\ inFlight[p] # <<>> /\ ~Head(inFlight[p]).first
  /\ LET event == [at |-> Head(inFlight[p]).at, id |-> now]
     IN  /\ stream' = stream \cup {event}
         /\ IF <<p, Head(inFlight[p]).window>> \in refused
            THEN exposed' = exposed \cup {event} /\ UNCHANGED added
            ELSE added' = added \cup {event} /\ UNCHANGED exposed
  /\ Served(p)
  /\ UNCHANGED <<now, firstPublish, expireAt, refused>>

\* The transaction is refused: publish rejects, and its window stays open.
Refuse(p) ==
  /\ Cardinality(refused) < MaxRefused
  /\ inFlight[p] # <<>> /\ Head(inFlight[p]).first
  /\ refused' = refused \cup {<<p, Head(inFlight[p]).window>>}
  /\ Served(p)
  /\ UNCHANGED <<now, firstPublish, stream, expireAt, added, exposed>>

\* The events that are still to be resumed at time t.
Young(events, t) == {e \in events : t < e.at + Seconds}

\* Time passes, and Redis deletes the key when its time has come.
Tick ==
  /\ now < MaxNow
  /\ \A p \in Processes : \A i \in 1..Len(inFlight[p]) : now < inFlight[p][i].at + MaxDelay
  /\ now' = now + 1
  /\ IF expireAt # NoExpiry /\ expireAt <= now'
     THEN stream' = {} /\ expireAt' = NoExpiry
     ELSE UNCHANGED <<stream, expireAt>>
  /\ added' = Young(added, now') /\ exposed' = Young(exposed, now')
  /\ UNCHANGED <<firstPublish, inFlight, refused>>

WindowNext ==
  \/ Tick
  \/ \E p \in Processes : Publish(p) \/ ServeFirst(p) \/ ServeLater(p) \/ Refuse(p)

WindowSpec == WindowInit /\ [][WindowNext]_windowVars

-----------------------------------------------------------------------------
WindowTypeOK ==
  /\ now \in Instant
  /\ firstPublish \in [Processes -> {NoWindow} \cup Instant]
  /\ inFlight \in [Processes -> Seq(Command)]
  /\ stream \subseteq Event /\ added \subseteq Event /\ exposed \subseteq Event
  /\ expireAt \in {NoExpiry} \cup Nat
  /\ refused \subseteq Processes \X Instant

\* A subscriber can resume an event for resumeSeconds after it was published:
\* neither the trim of another process nor the expiration of the key takes it
\* sooner, unless the transaction that opened its window was refused (publish).
RetainedForSeconds == added \subseteq stream

\* Every event, whatever happened to the transaction of its window: what the
\* option resume.seconds says ("How long (in seconds) to retain events").
EveryEventIsRetained == added \cup exposed \subseteq stream

\* A stream does not stay in Redis forever: unless a transaction was refused,
\* the key of a stream that holds events is going to expire (publish: expire).
StreamExpires == stream # {} /\ refused = {} => expireAt # NoExpiry

-----------------------------------------------------------------------------
(* The inductive invariant behind the properties.                          *)

\* The key does not expire before t.
LivesUntil(t) == expireAt >= t

\* A command carries the time of its call, and belongs to a window of that time.
WasSent(c) ==
  /\ c.window <= c.at /\ c.at <= now /\ now <= c.at + MaxDelay
  /\ c.at <= c.window + Seconds
  /\ c.first => c.at = c.window

CommandsWereSent == \A p \in Processes : \A i \in 1..Len(inFlight[p]) : WasSent(inFlight[p][i])

\* The transaction of window w is on its way, among the first n commands.
IsComing(p, w, n) == \E j \in 1..n : inFlight[p][j].first /\ inFlight[p][j].window = w

\* Among the first n commands or before them is what renews window w, unless it
\* was refused.
IsCovered(p, w, n) == <<p, w>> \in refused \/ IsComing(p, w, n) \/ LivesUntil(w + 2 * Seconds)

\* A command that renews nothing follows the transaction of its window.
CommandsAreCovered ==
  \A p \in Processes : \A i \in 1..Len(inFlight[p]) :
    inFlight[p][i].first \/ IsCovered(p, inFlight[p][i].window, i - 1)

\* So does the next publish of a window that is not over.
WindowsAreCovered ==
  \A p \in Processes :
    IsOver(firstPublish[p]) \/ IsCovered(p, firstPublish[p], Len(inFlight[p]))

\* The key outlives every event that is still to be resumed.
EventsAreCovered ==
  \A e \in added : e.at <= e.id /\ now < e.at + Seconds /\ LivesUntil(e.at + Seconds)

\* The invariant of publish.
WindowInv ==
  /\ WindowTypeOK
  /\ RetainedForSeconds
  /\ StreamExpires
  /\ CommandsWereSent
  /\ CommandsAreCovered
  /\ WindowsAreCovered
  /\ EventsAreCovered
  /\ expireAt <= now + 2 * Seconds
  /\ \A p \in Processes : firstPublish[p] <= now
=============================================================================
