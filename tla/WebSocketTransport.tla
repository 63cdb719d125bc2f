-------------------------- MODULE WebSocketTransport --------------------------
(***************************************************************************)
(* WebSocketLinkTransport of packages/client/src/adapters/websocket/        *)
(* transport.ts: getConnectedPeer, which every call runs to share one       *)
(* connection and to reconnect.                                             *)
(*                                                                         *)
(* Attempt n is the n-th value of totalAttempt; it stands for the promise            *)
(* that this.current held, its websocket and its peer.  A run of            *)
(* getConnectedPeer belongs to a caller of send (whose abort only makes the *)
(* caller stop waiting: the run goes on) or was started by the close event  *)
(* of attempt n.  Continuations of settled promises run before the next     *)
(* event of a socket or a timer, as they do in JavaScript.                  *)
(***************************************************************************)
EXTENDS Integers, FiniteSets

CONSTANTS Senders,      \* the calls of send
          OnClose,      \* options.reconnect.onClose.enabled
          MaxAttempt,   \* reconnectMaxAttempt
          MaxDrops      \* bound: how many sockets go down, or are down to begin with

ASSUME TransportAssumption ==
  /\ OnClose \in BOOLEAN
  /\ MaxAttempt \in Nat \ {0} /\ MaxDrops \in Nat
  /\ Senders \cap Nat = {}

MaxTotal == (MaxDrops + 1) * MaxAttempt
Attempts == 1..MaxTotal
ConnectRuns == Senders \cup Attempts
NoAttempt == 0

VARIABLES enabled,   \* reconnectEnabled, set by the constructor
          totalAttempt, attempt,
          current,   \* this.current: an attempt, or NoAttempt
          attemptPromise,   \* the promise of each attempt
          socket,    \* the readyState of its websocket
          run,       \* each run of getConnectedPeer
          awaited,   \* the current that it awaits (its local variable)
          drops,     \* how many sockets went down, or were closing when connect returned them
          lastOpen   \* history: the last attempt that connected

transportVars == <<enabled, totalAttempt, attempt, current, attemptPromise, socket, run, awaited, drops, lastOpen>>

InFlight == {"delaying", "connecting", "opening"}
PromiseSettled == {"resolved", "undefined", "rejected"}

TransportTypeOK ==
  /\ enabled \in BOOLEAN
  /\ totalAttempt \in 0..MaxTotal
  /\ attempt \in 0..MaxAttempt
  /\ current \in {NoAttempt} \cup Attempts
  /\ attemptPromise \in [Attempts -> {"none"} \cup InFlight \cup PromiseSettled]
  /\ socket \in [Attempts -> {"none", "connecting", "open", "closing", "closed"}]
  /\ run \in [ConnectRuns -> {"idle", "sleeping", "awaiting", "returned", "thrown"}]
  /\ awaited \in [ConnectRuns -> {NoAttempt} \cup Attempts]
  /\ drops \in 0..MaxDrops
  /\ lastOpen \in {NoAttempt} \cup Attempts

TransportInit ==
  /\ enabled \in BOOLEAN
  /\ totalAttempt = 0 /\ attempt = 0 /\ current = NoAttempt
  /\ attemptPromise = [n \in Attempts |-> "none"]
  /\ socket = [n \in Attempts |-> "none"]
  /\ run = [r \in ConnectRuns |-> "idle"]
  /\ awaited = [r \in ConnectRuns |-> NoAttempt]
  /\ drops = 0
  /\ lastOpen = NoAttempt

-----------------------------------------------------------------------------
IsSettled(n) == n = NoAttempt \/ attemptPromise[n] \in PromiseSettled

\* The runs whose await is over: they go on before any other event.
Runnable == {r \in ConnectRuns : run[r] = "awaiting" /\ IsSettled(awaited[r])}

\* getConnectedPeer is called: it reads this.current and awaits it.
BeginRun(r) ==
  /\ run' = [run EXCEPT ![r] = "awaiting"]
  /\ awaited' = [awaited EXCEPT ![r] = current]
  /\ UNCHANGED <<totalAttempt, attempt, current, attemptPromise, socket, drops, lastOpen, enabled>>

\* send, or the connectOnInit of the constructor.
Call(c) == run[c] = "idle" /\ BeginRun(c)

\* The delay after a close is over.
CallAfterClose(n) == Runnable = {} /\ run[n] = "sleeping" /\ BeginRun(n)

\* resolved && (!this.reconnectEnabled || readyState === WEBSOCKET_OPEN)
IsUsable(n) ==
  /\ n # NoAttempt /\ attemptPromise[n] = "resolved"
  /\ enabled => socket[n] = "open"

Restarted == 0

\* The awaited attempt has connected: its peer is returned.
ReturnPeer(r) ==
  /\ r \in Runnable /\ IsUsable(awaited[r])
  /\ attempt' = Restarted
  /\ run' = [run EXCEPT ![r] = "returned"]
  /\ UNCHANGED <<totalAttempt, current, attemptPromise, socket, awaited, drops, lastOpen, enabled>>

\* The awaited promise was rejected, which only happens without reconnect.
ThrowError(r) ==
  /\ r \in Runnable /\ awaited[r] # NoAttempt /\ attemptPromise[awaited[r]] = "rejected"
  /\ run' = [run EXCEPT ![r] = "thrown"]
  /\ UNCHANGED <<totalAttempt, attempt, current, attemptPromise, socket, awaited, drops, lastOpen, enabled>>

MustReconnect(r) ==
  /\ r \in Runnable /\ ~IsUsable(awaited[r])
  /\ awaited[r] # NoAttempt => attemptPromise[awaited[r]] # "rejected"

\* Mutant of IsStale: the race is not checked.
IsStaleNever(r) == FALSE

\* current !== this.current
IsStale(r) == awaited[r] # current

\* Another run has started an attempt meanwhile: await that one.
Rejoin(r) ==
  /\ MustReconnect(r) /\ IsStale(r)
  /\ BeginRun(r)

\* Mutant of HasGivenUp: one attempt too few.
HasGivenUpEarly == attempt + 1 >= MaxAttempt

HasGivenUp == attempt >= MaxAttempt

GiveUpConnecting(r) ==
  /\ MustReconnect(r) /\ ~IsStale(r) /\ HasGivenUp
  /\ run' = [run EXCEPT ![r] = "thrown"]
  /\ UNCHANGED <<totalAttempt, attempt, current, attemptPromise, socket, awaited, drops, lastOpen, enabled>>

\* A new attempt: the async function runs up to its sleep, and the run awaits it.
Start(r) ==
  /\ MustReconnect(r) /\ ~IsStale(r) /\ ~HasGivenUp
  /\ totalAttempt < MaxTotal
  /\ totalAttempt' = totalAttempt + 1
  /\ attempt' = attempt + 1
  /\ current' = totalAttempt + 1
  /\ attemptPromise' = [attemptPromise EXCEPT ![totalAttempt + 1] = "delaying"]
  /\ awaited' = [awaited EXCEPT ![r] = totalAttempt + 1]
  /\ UNCHANGED <<socket, run, drops, lastOpen, enabled>>

-----------------------------------------------------------------------------
\* The delay is over: connect is called.
Connect(n) ==
  /\ Runnable = {} /\ attemptPromise[n] = "delaying"
  /\ attemptPromise' = [attemptPromise EXCEPT ![n] = "connecting"]
  /\ UNCHANGED <<totalAttempt, attempt, current, socket, run, awaited, drops, lastOpen, enabled>>

\* The catch behind an attempt.
Failed == IF enabled THEN "undefined" ELSE "rejected"

\* connect (or the delay function) throws.
ConnectFails(n) ==
  /\ Runnable = {} /\ attemptPromise[n] = "connecting"
  /\ attemptPromise' = [attemptPromise EXCEPT ![n] = Failed]
  /\ UNCHANGED <<totalAttempt, attempt, current, socket, run, awaited, drops, lastOpen, enabled>>

\* connect returns a websocket in state s: only one that is still connecting is
\* waited for, and one that is closing has its close event to come.
ConnectReturns(n, s) ==
  /\ Runnable = {} /\ attemptPromise[n] = "connecting"
  /\ socket' = [socket EXCEPT ![n] = s]
  /\ attemptPromise' = [attemptPromise EXCEPT ![n] = IF s = "connecting" THEN "opening" ELSE "resolved"]
  /\ lastOpen' = IF s = "open" THEN n ELSE lastOpen
  /\ drops' = (IF s = "closing" THEN drops + 1 ELSE drops) /\ drops' <= MaxDrops
  /\ UNCHANGED <<totalAttempt, attempt, current, run, awaited, enabled>>

\* The open event.
Open(n) ==
  /\ Runnable = {} /\ socket[n] = "connecting"
  /\ socket' = [socket EXCEPT ![n] = "open"]
  /\ attemptPromise' = [attemptPromise EXCEPT ![n] = "resolved"]
  /\ lastOpen' = n
  /\ UNCHANGED <<totalAttempt, attempt, current, run, awaited, drops, enabled>>

\* An open socket starts to close, or goes down at once.
GoesDown(n) ==
  /\ Runnable = {} /\ socket[n] = "open" /\ drops < MaxDrops
  /\ drops' = drops + 1
  /\ socket' = [socket EXCEPT ![n] = "closing"]
  /\ UNCHANGED <<totalAttempt, attempt, current, attemptPromise, run, awaited, lastOpen, enabled>>

\* connectingResolvers?.resolve()
Opened(n) == IF attemptPromise[n] = "opening" THEN [attemptPromise EXCEPT ![n] = "resolved"] ELSE attemptPromise

\* The close event; with onClose a run of its own follows after a delay.
Close(n) ==
  /\ Runnable = {} /\ socket[n] \in {"connecting", "closing"}
  /\ socket' = [socket EXCEPT ![n] = "closed"]
  /\ attemptPromise' = Opened(n)
  /\ run' = IF enabled /\ OnClose THEN [run EXCEPT ![n] = "sleeping"] ELSE run
  /\ UNCHANGED <<totalAttempt, attempt, current, awaited, drops, lastOpen, enabled>>

ContinueRun == \E r \in ConnectRuns : ReturnPeer(r) \/ ThrowError(r) \/ Rejoin(r) \/ GiveUpConnecting(r) \/ Start(r)

SettleAttempt(n) ==
  \/ ConnectFails(n)
  \/ \E s \in {"connecting", "open", "closing", "closed"} : ConnectReturns(n, s)
  \/ Open(n)

TransportNext ==
  \/ \E c \in Senders : Call(c)
  \/ ContinueRun
  \/ \E n \in Attempts : CallAfterClose(n) \/ Connect(n) \/ SettleAttempt(n) \/ GoesDown(n) \/ Close(n)

TransportProceeds ==
  \E n \in Attempts :
    \/ CallAfterClose(n) \/ Connect(n) \/ SettleAttempt(n)
    \/ socket[n] = "connecting" /\ Close(n)

\* Continuations run and timers fire; connect settles, and a connecting socket
\* opens or closes.  Nothing makes an open socket go down.
TransportFairness ==
  /\ WF_transportVars(ContinueRun)
  /\ WF_transportVars(TransportProceeds)

TransportSpec == TransportInit /\ [][TransportNext]_transportVars /\ TransportFairness

-----------------------------------------------------------------------------
(* What the transport promises.                                            *)

\* However many calls race to reconnect, one attempt is made at a time, and it
\* is the one that this.current holds (getConnectedPeer).
OneAttemptAtATime ==
  \A n \in Attempts : attemptPromise[n] \in InFlight => n = current

\* No connection is leaked: the only socket that is open, or may still open, is
\* the one that every call finds (getConnectedPeer).
OneOpenSocket ==
  \A n \in Attempts : socket[n] \in {"connecting", "open"} => n = current

\* info.attempt counts the attempts since the last one that connected, whoever
\* made them: it starts at 1 again after a success and not before
\* (WebSocketLinkTransportAttemptInfo).
AttemptCountsFailures ==
  [][totalAttempt' # totalAttempt => attempt' = totalAttempt' - lastOpen]_transportVars

\* A run gives up only after MaxAttempt attempts in a row that did not connect
\* (reconnect.maxAttempt).
GivesUpInARow ==
  [][\A r \in ConnectRuns : enabled /\ run[r] # "thrown" /\ run'[r] = "thrown" =>
       totalAttempt - lastOpen >= MaxAttempt]_transportVars

\* Without reconnect there is one attempt in the life of the transport, and its
\* failure reaches every call (the catch behind the attempt).
NoReconnectUnlessEnabled == ~enabled => totalAttempt <= 1

\* Every call gets a peer or an error: none is left waiting for an attempt that
\* was superseded, or for a socket that closed before it opened.
EveryCallSettles ==
  \A c \in Senders : (run[c] = "awaiting") ~> (run[c] \in {"returned", "thrown"})

-----------------------------------------------------------------------------
(* The inductive invariant behind the safety properties.                   *)

\* this.current is the last attempt, and later ones do not exist yet.
LastIsCurrent ==
  /\ current = totalAttempt
  /\ \A n \in Attempts : n > totalAttempt => attemptPromise[n] = "none" /\ socket[n] = "none"
  /\ \A r \in ConnectRuns : awaited[r] <= totalAttempt

\* How a promise and its websocket go together.
SocketsFollowPromises ==
  \A n \in Attempts :
    /\ socket[n] = "connecting" <=> attemptPromise[n] = "opening"
    /\ socket[n] = "open" => attemptPromise[n] = "resolved" /\ lastOpen = n
    /\ attemptPromise[n] \in {"delaying", "connecting", "undefined", "rejected"} => socket[n] = "none"

\* An attempt starts a run of its own only by its close event.
RunsOfClosed == \A n \in Attempts : run[n] # "idle" => socket[n] = "closed"

\* Somebody waits for every attempt, if only the run that made it.
AttemptIsAwaited ==
  attemptPromise[totalAttempt] \in InFlight =>
    \E r \in ConnectRuns : run[r] = "awaiting" /\ awaited[r] = totalAttempt

\* The counter is right, or is about to be reset by a run that finds the
\* attempt connected.
CounterIsRight ==
  \/ attempt = totalAttempt - lastOpen
  \/ /\ lastOpen = totalAttempt
     /\ \E r \in ConnectRuns : r \in Runnable /\ awaited[r] = totalAttempt /\ IsUsable(awaited[r])

\* A failure rejects the promise only without reconnect, and is swallowed only with it.
FailuresAsConfigured ==
  \A n \in Attempts : attemptPromise[n] # IF enabled THEN "rejected" ELSE "undefined"

\* The invariant of the transport (getConnectedPeer and the events of the
\* websocket): one attempt, one socket, and a counter that fits them.
TransportInv ==
  /\ TransportTypeOK
  /\ LastIsCurrent
  /\ SocketsFollowPromises
  /\ RunsOfClosed
  /\ OneAttemptAtATime
  /\ OneOpenSocket
  /\ totalAttempt # 0 => AttemptIsAwaited
  /\ lastOpen <= totalAttempt
  /\ enabled => CounterIsRight
  /\ ~enabled => totalAttempt <= 1
  /\ FailuresAsConfigured
  /\ totalAttempt = 0 => attempt = 0
=============================================================================
