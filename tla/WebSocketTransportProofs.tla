----------------------- MODULE WebSocketTransportProofs -----------------------
(***************************************************************************)
(* The transport makes one attempt at a time, holds one socket and counts   *)
(* its failures right, for any number of calls and of attempts.             *)
(***************************************************************************)
EXTENDS WebSocketTransport, TLAPS

LEMMA MaxTotalIsNat == MaxTotal \in Nat
BY TransportAssumption DEF MaxTotal

\* The bounds of what the invariant compares.
LEMMA Ranges ==
  ASSUME TransportTypeOK
  PROVE  /\ totalAttempt \in Nat /\ current \in Nat /\ attempt \in Nat /\ lastOpen \in Nat
         /\ MaxTotal \in Nat /\ MaxAttempt \in Nat
         /\ \A r \in ConnectRuns : awaited[r] \in Nat /\ (awaited[r] # 0 => awaited[r] \in Attempts)
         /\ totalAttempt # 0 => totalAttempt \in Attempts
BY MaxTotalIsNat, TransportAssumption DEF TransportTypeOK, Attempts, NoAttempt

LEMMA InitTransportInv == TransportInit => TransportInv
<1> SUFFICES ASSUME TransportInit PROVE TransportInv
  OBVIOUS
<1>1. TransportTypeOK
  BY MaxTotalIsNat, TransportAssumption DEF TransportInit, TransportTypeOK, NoAttempt
<1>2. LastIsCurrent /\ SocketsFollowPromises /\ RunsOfClosed
  BY DEF TransportInit, LastIsCurrent, SocketsFollowPromises, RunsOfClosed, NoAttempt, ConnectRuns
<1>3. OneAttemptAtATime /\ OneOpenSocket
  BY DEF TransportInit, OneAttemptAtATime, OneOpenSocket, InFlight
<1>4. CounterIsRight /\ FailuresAsConfigured
  BY DEF TransportInit, CounterIsRight, FailuresAsConfigured, NoAttempt
<1> QED BY <1>1, <1>2, <1>3, <1>4 DEF TransportInit, TransportInv, NoAttempt

-----------------------------------------------------------------------------
\* Calling getConnectedPeer, or awaiting this.current once more, changes
\* nothing but the run (getConnectedPeer).
LEMMA BeginKept ==
  ASSUME TransportInv, NEW r \in ConnectRuns, BeginRun(r), ~(r \in Runnable /\ awaited[r] = totalAttempt),
         r \in Senders \/ run[r] # "idle"
  PROVE  TransportInv'
<1>1. /\ run' = [run EXCEPT ![r] = "awaiting"] /\ awaited' = [awaited EXCEPT ![r] = current]
      /\ UNCHANGED <<totalAttempt, attempt, current, attemptPromise, socket, drops, lastOpen, enabled>>
  BY DEF BeginRun
<1>2. TransportTypeOK /\ LastIsCurrent /\ current = totalAttempt /\ totalAttempt \in Nat
  BY Ranges DEF TransportInv, LastIsCurrent
<1>3. TransportTypeOK'
  BY <1>1, <1>2 DEF TransportTypeOK
<1>4. \A s \in ConnectRuns : /\ awaited'[s] = (IF s = r THEN totalAttempt ELSE awaited[s])
                      /\ run'[s] = (IF s = r THEN "awaiting" ELSE run[s])
  BY <1>1, <1>2 DEF TransportTypeOK
<1>5. LastIsCurrent'
  BY <1>1, <1>2, <1>4 DEF LastIsCurrent
<1>6. totalAttempt # 0 => AttemptIsAwaited'
  BY <1>1, <1>4 DEF TransportInv, AttemptIsAwaited
<1>7. CounterIsRight => CounterIsRight'
  <2> SUFFICES ASSUME lastOpen = totalAttempt, NEW s \in ConnectRuns, s \in Runnable,
                      awaited[s] = totalAttempt, IsUsable(awaited[s])
               PROVE  CounterIsRight'
    BY <1>1 DEF CounterIsRight
  <2>1. s # r
    OBVIOUS
  <2>2. s \in Runnable' /\ awaited'[s] = totalAttempt /\ IsUsable(awaited[s])'
    BY <1>1, <1>4, <2>1 DEF Runnable, IsSettled, IsUsable
  <2> QED BY <1>1, <2>2 DEF CounterIsRight
<1>8. SocketsFollowPromises' /\ OneAttemptAtATime' /\ OneOpenSocket'
  BY <1>1 DEF TransportInv, SocketsFollowPromises, OneAttemptAtATime, OneOpenSocket
<1>9. RunsOfClosed'
  <2>1. \A n \in Attempts : n \notin Senders /\ n \in ConnectRuns
    BY TransportAssumption, MaxTotalIsNat DEF Attempts, ConnectRuns
  <2> QED BY <1>1, <1>4, <2>1 DEF TransportInv, RunsOfClosed
<1> QED BY <1>1, <1>3, <1>5, <1>6, <1>7, <1>8, <1>9 DEF TransportInv, FailuresAsConfigured

\* A run that ends by an error does not wait for an attempt in flight, nor for
\* one that is usable (getConnectedPeer: the await, and giving up).
LEMMA ThrownKept ==
  ASSUME TransportInv, NEW r \in ConnectRuns, r \in Runnable, ~IsUsable(awaited[r]),
         run' = [run EXCEPT ![r] = "thrown"],
         UNCHANGED <<totalAttempt, attempt, current, attemptPromise, socket, awaited, drops, lastOpen, enabled>>
  PROVE  TransportInv'
<1>1. TransportTypeOK /\ LastIsCurrent
  BY DEF TransportInv
<1>2. TransportTypeOK'
  BY <1>1 DEF TransportTypeOK
<1>3. \A s \in ConnectRuns : s # r => run'[s] = run[s]
  BY <1>1 DEF TransportTypeOK
<1>4. LastIsCurrent'
  BY <1>1 DEF LastIsCurrent
<1>5. totalAttempt # 0 => AttemptIsAwaited'
  <2> SUFFICES ASSUME totalAttempt # 0, attemptPromise[totalAttempt] \in InFlight
               PROVE  \E s \in ConnectRuns : run'[s] = "awaiting" /\ awaited[s] = totalAttempt
    BY DEF AttemptIsAwaited
  <2>1. PICK s \in ConnectRuns : run[s] = "awaiting" /\ awaited[s] = totalAttempt
    BY DEF TransportInv, AttemptIsAwaited
  <2>2. s # r
    BY <2>1 DEF Runnable, IsSettled, NoAttempt, InFlight, PromiseSettled
  <2> QED BY <1>3, <2>1, <2>2
<1>6. CounterIsRight => CounterIsRight'
  <2> SUFFICES ASSUME lastOpen = totalAttempt, NEW s \in ConnectRuns, s \in Runnable,
                      awaited[s] = totalAttempt, IsUsable(awaited[s])
               PROVE  CounterIsRight'
    BY DEF CounterIsRight
  <2>1. s # r
    OBVIOUS
  <2>2. s \in Runnable' /\ IsUsable(awaited[s])'
    BY <1>3, <2>1 DEF Runnable, IsSettled, IsUsable
  <2> QED BY <2>2 DEF CounterIsRight
<1>7. SocketsFollowPromises' /\ OneAttemptAtATime' /\ OneOpenSocket'
  BY DEF TransportInv, SocketsFollowPromises, OneAttemptAtATime, OneOpenSocket
<1>8. RunsOfClosed'
  BY <1>3 DEF TransportInv, RunsOfClosed, ConnectRuns, Runnable
<1> QED BY <1>2, <1>4, <1>5, <1>6, <1>7, <1>8 DEF TransportInv, FailuresAsConfigured

\* A run that finds the attempt connected resets the counter (getConnectedPeer).
LEMMA ReturnKept ==
  ASSUME TransportInv, NEW r \in ConnectRuns, ReturnPeer(r)
  PROVE  TransportInv'
<1>1. /\ r \in Runnable /\ IsUsable(awaited[r])
      /\ attempt' = 0 /\ run' = [run EXCEPT ![r] = "returned"]
      /\ UNCHANGED <<totalAttempt, current, attemptPromise, socket, awaited, drops, lastOpen, enabled>>
  BY DEF ReturnPeer, Restarted
<1>2. TransportTypeOK /\ LastIsCurrent /\ SocketsFollowPromises /\ OneOpenSocket
  BY DEF TransportInv
<1>3. TransportTypeOK'
  BY <1>1, <1>2, TransportAssumption DEF TransportTypeOK
<1>4. \A s \in ConnectRuns : s # r => run'[s] = run[s]
  BY <1>1, <1>2 DEF TransportTypeOK
<1>5. LastIsCurrent'
  BY <1>1, <1>2 DEF LastIsCurrent
<1>6. totalAttempt # 0 => AttemptIsAwaited'
  <2> SUFFICES ASSUME totalAttempt # 0, attemptPromise[totalAttempt] \in InFlight
               PROVE  \E s \in ConnectRuns : run'[s] = "awaiting" /\ awaited[s] = totalAttempt
    BY <1>1 DEF AttemptIsAwaited
  <2>1. PICK s \in ConnectRuns : run[s] = "awaiting" /\ awaited[s] = totalAttempt
    BY DEF TransportInv, AttemptIsAwaited
  <2>2. s # r
    BY <1>1, <2>1 DEF Runnable, IsSettled, NoAttempt, InFlight, PromiseSettled
  <2> QED BY <1>4, <2>1, <2>2
<1>7. enabled => CounterIsRight'
  <2> SUFFICES ASSUME enabled PROVE attempt' = totalAttempt' - lastOpen'
    BY DEF CounterIsRight
  <2> DEFINE n == awaited[r]
  <2>1. n \in Attempts /\ socket[n] = "open"
    BY <1>1, <1>2, Ranges DEF IsUsable, NoAttempt
  <2>2. n = current /\ n = lastOpen /\ current = totalAttempt
    BY <1>2, <2>1 DEF OneOpenSocket, SocketsFollowPromises, LastIsCurrent
  <2> HIDE DEF n
  <2>3. totalAttempt' = totalAttempt /\ lastOpen' = totalAttempt /\ attempt' = 0
    BY <1>1, <2>2
  <2>4. totalAttempt \in Nat
    BY <1>2, Ranges
  <2> QED BY <2>3, <2>4
<1>8. SocketsFollowPromises' /\ OneAttemptAtATime' /\ OneOpenSocket'
  BY <1>1 DEF TransportInv, SocketsFollowPromises, OneAttemptAtATime, OneOpenSocket
<1>9. RunsOfClosed'
  BY <1>1, <1>4 DEF TransportInv, RunsOfClosed, ConnectRuns, Runnable
<1> QED BY <1>1, <1>3, <1>5, <1>6, <1>7, <1>8, <1>9 DEF TransportInv, FailuresAsConfigured

\* A new attempt starts only when the last one has failed or its socket is gone
\* (getConnectedPeer).
LEMMA StartKept ==
  ASSUME TransportInv, NEW r \in ConnectRuns, Start(r)
  PROVE  TransportInv' /\ attempt' = totalAttempt' - lastOpen
<1> DEFINE m == totalAttempt + 1
<1>1. /\ r \in Runnable /\ ~IsUsable(awaited[r]) /\ awaited[r] = current
      /\ awaited[r] # NoAttempt => attemptPromise[awaited[r]] # "rejected"
      /\ attempt < MaxAttempt /\ totalAttempt < MaxTotal
      /\ totalAttempt' = m /\ attempt' = attempt + 1 /\ current' = m
      /\ attemptPromise' = [attemptPromise EXCEPT ![m] = "delaying"]
      /\ awaited' = [awaited EXCEPT ![r] = m]
      /\ UNCHANGED <<socket, run, drops, lastOpen, enabled>>
  <2>1. attempt \in Nat /\ MaxAttempt \in Nat
    BY Ranges DEF TransportInv
  <2> QED BY <2>1 DEF Start, MustReconnect, IsStale, HasGivenUp
<1>2. /\ TransportTypeOK /\ LastIsCurrent /\ SocketsFollowPromises /\ OneOpenSocket /\ OneAttemptAtATime
      /\ current = totalAttempt /\ totalAttempt \in Nat /\ MaxTotal \in Nat /\ attempt \in Nat
      /\ lastOpen \in Nat /\ MaxAttempt \in Nat /\ lastOpen <= totalAttempt
  BY Ranges DEF TransportInv, LastIsCurrent
<1>3. /\ m \in Attempts /\ attemptPromise[m] = "none" /\ socket[m] = "none" /\ m # totalAttempt /\ m # 0
  BY <1>1, <1>2 DEF LastIsCurrent, Attempts
<1>4. \A n \in Attempts : attemptPromise'[n] = (IF n = m THEN "delaying" ELSE attemptPromise[n])
  BY <1>1, <1>2 DEF TransportTypeOK
<1>5. \A s \in ConnectRuns : awaited'[s] = (IF s = r THEN m ELSE awaited[s])
  BY <1>1, <1>2 DEF TransportTypeOK
<1>6. current # 0 => current \in Attempts /\ attemptPromise[current] \in {"resolved", "undefined"}
  BY <1>1, <1>2, Ranges DEF Runnable, IsSettled, PromiseSettled, NoAttempt
<1>7. \A n \in Attempts : attemptPromise[n] \notin InFlight /\ socket[n] \notin {"connecting", "open"}
  <2> SUFFICES ASSUME NEW n \in Attempts, attemptPromise[n] \in InFlight \/ socket[n] \in {"connecting", "open"}
               PROVE  FALSE
    OBVIOUS
  <2>1. n = current /\ n # 0
    BY <1>2 DEF OneAttemptAtATime, OneOpenSocket, Attempts
  <2>2. attemptPromise[n] \in {"resolved", "undefined"}
    BY <1>6, <2>1
  <2>3. socket[n] = "open" /\ attemptPromise[n] = "resolved"
    BY <1>2, <2>2 DEF SocketsFollowPromises, InFlight
  <2> QED BY <1>1, <2>1, <2>3 DEF IsUsable, NoAttempt
<1>8. TransportTypeOK'
  <2>1. attemptPromise' \in [Attempts -> {"none"} \cup InFlight \cup PromiseSettled]
    BY <1>1, <1>2, <1>3 DEF TransportTypeOK, InFlight
  <2>2. attempt' \in 0..MaxAttempt /\ totalAttempt' \in 0..MaxTotal
    BY <1>1, <1>2
  <2>3. awaited' \in [ConnectRuns -> {NoAttempt} \cup Attempts] /\ current' \in {NoAttempt} \cup Attempts
    BY <1>1, <1>2, <1>3 DEF TransportTypeOK
  <2> QED BY <1>1, <1>2, <2>1, <2>2, <2>3 DEF TransportTypeOK
<1>9. LastIsCurrent'
  <2>1. \A n \in Attempts : n > m => attemptPromise'[n] = "none" /\ socket[n] = "none"
    BY <1>2, <1>4 DEF LastIsCurrent, Attempts
  <2>2. \A s \in ConnectRuns : awaited'[s] <= m
    BY <1>2, <1>5, Ranges DEF LastIsCurrent
  <2> QED BY <1>1, <2>1, <2>2 DEF LastIsCurrent
<1>10. SocketsFollowPromises'
  BY <1>1, <1>2, <1>3, <1>4 DEF SocketsFollowPromises
<1>11. OneAttemptAtATime' /\ OneOpenSocket'
  BY <1>1, <1>4, <1>7 DEF OneAttemptAtATime, OneOpenSocket
<1>12. AttemptIsAwaited'
  BY <1>1, <1>5 DEF AttemptIsAwaited, Runnable
<1>13. attempt = totalAttempt - lastOpen
  <2>1. CASE enabled
    <3>1. CASE attempt = totalAttempt - lastOpen
      BY <3>1
    <3>2. CASE \E s \in ConnectRuns : s \in Runnable /\ awaited[s] = totalAttempt /\ IsUsable(awaited[s])
      BY <1>1, <1>2, <3>2
    <3> QED BY <2>1, <3>1, <3>2 DEF TransportInv, CounterIsRight
  <2>2. CASE ~enabled
    <3>1. current = 0
      BY <1>1, <1>6, <2>2 DEF IsUsable, NoAttempt, TransportInv, FailuresAsConfigured
    <3>2. attempt = 0 /\ totalAttempt = 0 /\ lastOpen = 0
      BY <1>2, <3>1 DEF TransportInv
    <3> QED BY <3>2
  <2> QED BY <2>1, <2>2
<1>14. attempt' = totalAttempt' - lastOpen
  <2> HIDE DEF m
  <2>1. m = totalAttempt + 1
    BY DEF m
  <2> QED BY <1>1, <1>2, <1>13, <2>1
<1>15. (~enabled => totalAttempt <= 1)'
  <2> SUFFICES ASSUME ~enabled PROVE current = 0
    BY <1>1, <1>2
  <2> QED BY <1>1, <1>6 DEF IsUsable, NoAttempt, TransportInv, FailuresAsConfigured
<1>16. FailuresAsConfigured'
  BY <1>1, <1>4 DEF TransportInv, FailuresAsConfigured
<1>17. lastOpen' <= totalAttempt' /\ totalAttempt' # 0
  BY <1>1, <1>2
<1>18. (enabled => CounterIsRight)'
  BY <1>1, <1>14 DEF CounterIsRight
<1>19. RunsOfClosed'
  BY <1>1 DEF TransportInv, RunsOfClosed
<1>20. /\ (totalAttempt # 0 => AttemptIsAwaited)'
       /\ (lastOpen <= totalAttempt)'
       /\ (totalAttempt = 0 => attempt = 0)'
  BY <1>12, <1>17
<1>21. TransportInv'
  BY <1>8, <1>9, <1>10, <1>11, <1>15, <1>16, <1>18, <1>19, <1>20, Zenon DEF TransportInv
<1> QED BY <1>14, <1>21

-----------------------------------------------------------------------------
\* While nothing is runnable, the counter is right, and a run waits for the
\* attempt that is in flight, which is the last one.
LEMMA QuietFacts ==
  ASSUME TransportInv, Runnable = {}
  PROVE  /\ enabled => attempt = totalAttempt - lastOpen
         /\ \A n \in Attempts : attemptPromise[n] \in InFlight =>
              /\ n = totalAttempt /\ n # 0
              /\ \E r \in ConnectRuns : run[r] = "awaiting" /\ awaited[r] = n
<1>1. enabled => attempt = totalAttempt - lastOpen
  BY DEF TransportInv, CounterIsRight
<1>2. ASSUME NEW n \in Attempts, attemptPromise[n] \in InFlight
      PROVE  /\ n = totalAttempt /\ n # 0
             /\ \E r \in ConnectRuns : run[r] = "awaiting" /\ awaited[r] = n
  <2>1. n = totalAttempt /\ n # 0
    BY <1>2 DEF TransportInv, OneAttemptAtATime, LastIsCurrent, Attempts
  <2> QED BY <1>2, <2>1 DEF TransportInv, AttemptIsAwaited
<1> QED BY <1>1, <1>2

\* An attempt in flight goes on to p, with a websocket in state s: connect was
\* called, has failed, or has returned, or the websocket has opened.
Progress(n, p, s) ==
  /\ Runnable = {} /\ attemptPromise[n] \in InFlight
  /\ attemptPromise' = [attemptPromise EXCEPT ![n] = p]
  /\ socket' = [socket EXCEPT ![n] = s]
  /\ lastOpen' = IF s = "open" THEN n ELSE lastOpen
  /\ s = "connecting" <=> p = "opening"
  /\ s = "open" => p = "resolved"
  /\ p \in {"delaying", "connecting", "undefined", "rejected"} => s = "none"
  /\ p = "rejected" => ~enabled
  /\ p = "undefined" => enabled
  /\ drops' \in 0..MaxDrops
  /\ UNCHANGED <<totalAttempt, attempt, current, run, awaited, enabled>>

\* Such a step keeps the invariant (transport.ts: the async function of an attempt).
LEMMA ProgressKept ==
  ASSUME TransportInv, NEW n \in Attempts, NEW p \in InFlight \cup PromiseSettled,
         NEW s \in {"none", "connecting", "open", "closing", "closed"}, Progress(n, p, s)
  PROVE  TransportInv'
<1>0. /\ Runnable = {} /\ attemptPromise[n] \in InFlight
      /\ attemptPromise' = [attemptPromise EXCEPT ![n] = p]
      /\ socket' = [socket EXCEPT ![n] = s]
      /\ lastOpen' = IF s = "open" THEN n ELSE lastOpen
      /\ s = "connecting" <=> p = "opening"
      /\ s = "open" => p = "resolved"
      /\ p \in {"delaying", "connecting", "undefined", "rejected"} => s = "none"
      /\ p = "rejected" => ~enabled
      /\ p = "undefined" => enabled
      /\ drops' \in 0..MaxDrops
      /\ UNCHANGED <<totalAttempt, attempt, current, run, awaited, enabled>>
  BY DEF Progress
<1> USE <1>0
<1>1. /\ TransportTypeOK /\ LastIsCurrent /\ SocketsFollowPromises /\ OneAttemptAtATime /\ OneOpenSocket
      /\ RunsOfClosed /\ lastOpen <= totalAttempt /\ totalAttempt \in Nat /\ current = totalAttempt
  BY Ranges DEF TransportInv, LastIsCurrent
<1>2. /\ enabled => attempt = totalAttempt - lastOpen
      /\ n = totalAttempt /\ n # 0
  BY QuietFacts
<1>3. PICK r \in ConnectRuns : run[r] = "awaiting" /\ awaited[r] = n
  BY QuietFacts
<1>4. \A k \in Attempts : /\ attemptPromise'[k] = (IF k = n THEN p ELSE attemptPromise[k])
                         /\ socket'[k] = (IF k = n THEN s ELSE socket[k])
  BY <1>1 DEF TransportTypeOK
<1>5. TransportTypeOK'
  <2>1. attemptPromise' \in [Attempts -> {"none"} \cup InFlight \cup PromiseSettled]
    BY <1>1 DEF TransportTypeOK
  <2>2. socket' \in [Attempts -> {"none", "connecting", "open", "closing", "closed"}]
    BY <1>1 DEF TransportTypeOK
  <2>3. lastOpen' \in {NoAttempt} \cup Attempts
    BY <1>1 DEF TransportTypeOK
  <2> QED BY <1>1, <2>1, <2>2, <2>3 DEF TransportTypeOK
<1>6. LastIsCurrent'
  BY <1>1, <1>2, <1>4 DEF LastIsCurrent, Attempts
<1>7. \A k \in Attempts : k # n => socket[k] \notin {"connecting", "open"}
  BY <1>1, <1>2 DEF OneOpenSocket
<1>8. SocketsFollowPromises'
  BY <1>1, <1>4, <1>7 DEF SocketsFollowPromises
<1>9. OneAttemptAtATime' /\ OneOpenSocket'
  BY <1>1, <1>2, <1>4 DEF OneAttemptAtATime, OneOpenSocket
<1>10. AttemptIsAwaited'
  BY <1>2, <1>3 DEF AttemptIsAwaited
<1>11. lastOpen' <= totalAttempt'
  BY <1>1, <1>2
<1>12. enabled => CounterIsRight'
  <2> SUFFICES ASSUME enabled PROVE CounterIsRight'
    OBVIOUS
  <2>1. CASE s # "open"
    BY <1>2, <2>1 DEF CounterIsRight
  <2>2. CASE s = "open"
    <3>1. attemptPromise'[n] = "resolved" /\ socket'[n] = "open" /\ lastOpen' = totalAttempt
      BY <1>2, <1>4, <2>2
    <3>2. r \in Runnable' /\ IsUsable(awaited[r])'
      BY <1>2, <1>3, <3>1 DEF Runnable, IsSettled, PromiseSettled, IsUsable, NoAttempt
    <3> QED BY <1>2, <1>3, <3>1, <3>2 DEF CounterIsRight
  <2> QED BY <2>1, <2>2
<1>13. RunsOfClosed'
  <2>1. run[n] = "idle" \/ socket[n] = "closed"
    BY <1>1 DEF RunsOfClosed
  <2>2. socket[n] # "closed"
    BY <1>1 DEF SocketsFollowPromises, InFlight
  <2> QED BY <1>1, <1>4, <2>1, <2>2 DEF RunsOfClosed
<1>14. FailuresAsConfigured'
  BY <1>4 DEF TransportInv, FailuresAsConfigured
<1>15. ~enabled => totalAttempt' <= 1
  BY DEF TransportInv
<1>16. totalAttempt' # 0
  BY <1>2
<1>17. /\ (totalAttempt # 0 => AttemptIsAwaited)'
       /\ (lastOpen <= totalAttempt)'
       /\ (totalAttempt = 0 => attempt = 0)'
  BY <1>10, <1>11, <1>16
<1> QED BY <1>5, <1>6, <1>8, <1>9, <1>12, <1>13, <1>14, <1>15, <1>17, Zenon DEF TransportInv

\* An open socket starts to close (transport.ts: readyState).
LEMMA GoesDownKept ==
  ASSUME TransportInv, NEW n \in Attempts, GoesDown(n)
  PROVE  TransportInv'
<1>1. /\ TransportTypeOK /\ LastIsCurrent /\ SocketsFollowPromises /\ OneAttemptAtATime /\ OneOpenSocket
      /\ RunsOfClosed /\ (enabled => attempt = totalAttempt - lastOpen)
  BY QuietFacts DEF TransportInv, GoesDown
<1>2. /\ socket[n] = "open" /\ socket' = [socket EXCEPT ![n] = "closing"]
      /\ drops < MaxDrops /\ drops' = drops + 1
      /\ UNCHANGED <<totalAttempt, attempt, current, attemptPromise, run, awaited, lastOpen, enabled>>
  BY DEF GoesDown
<1>3. \A k \in Attempts : socket'[k] = (IF k = n THEN "closing" ELSE socket[k])
  BY <1>1, <1>2 DEF TransportTypeOK
<1>4. TransportTypeOK'
  <2>1. socket' \in [Attempts -> {"none", "connecting", "open", "closing", "closed"}]
    BY <1>1, <1>2 DEF TransportTypeOK
  <2>2. drops' \in 0..MaxDrops
    BY <1>1, <1>2, TransportAssumption DEF TransportTypeOK
  <2> QED BY <1>1, <1>2, <2>1, <2>2 DEF TransportTypeOK
<1>5. attemptPromise[n] = "resolved" /\ n <= totalAttempt
  <2>1. attemptPromise[n] = "resolved" /\ n = current
    BY <1>1, <1>2 DEF SocketsFollowPromises, OneOpenSocket
  <2> QED BY <1>1, <2>1, Ranges DEF LastIsCurrent
<1>6. LastIsCurrent'
  BY <1>1, <1>2, <1>3, <1>5, Ranges DEF LastIsCurrent, Attempts
<1>7. SocketsFollowPromises'
  BY <1>1, <1>2, <1>3, <1>5 DEF SocketsFollowPromises
<1>8. OneAttemptAtATime' /\ OneOpenSocket' /\ RunsOfClosed' /\ FailuresAsConfigured'
  BY <1>1, <1>2, <1>3
     DEF OneAttemptAtATime, OneOpenSocket, RunsOfClosed, FailuresAsConfigured, TransportInv
<1>9. (enabled => CounterIsRight)'
  BY <1>1, <1>2 DEF CounterIsRight
<1>10. /\ (totalAttempt # 0 => AttemptIsAwaited)'
       /\ (lastOpen <= totalAttempt)'
       /\ (totalAttempt = 0 => attempt = 0)'
       /\ (~enabled => totalAttempt <= 1)'
  BY <1>2 DEF TransportInv, AttemptIsAwaited
<1> QED BY <1>4, <1>6, <1>7, <1>8, <1>9, <1>10, Zenon DEF TransportInv

\* A socket closes, whether it has ever been open or not (transport.ts: the
\* close event).
LEMMA CloseKept ==
  ASSUME TransportInv, NEW n \in Attempts, Close(n)
  PROVE  TransportInv'
<1>1. /\ TransportTypeOK /\ LastIsCurrent /\ SocketsFollowPromises /\ OneAttemptAtATime /\ OneOpenSocket
      /\ RunsOfClosed /\ (enabled => attempt = totalAttempt - lastOpen)
  BY QuietFacts DEF TransportInv, Close
<1>2. /\ socket[n] \in {"connecting", "closing"} /\ socket' = [socket EXCEPT ![n] = "closed"]
      /\ attemptPromise' = Opened(n)
      /\ run' = IF enabled /\ OnClose THEN [run EXCEPT ![n] = "sleeping"] ELSE run
      /\ UNCHANGED <<totalAttempt, attempt, current, awaited, drops, lastOpen, enabled>>
  BY DEF Close
<1>3. \A k \in Attempts :
        /\ socket'[k] = (IF k = n THEN "closed" ELSE socket[k])
        /\ attemptPromise'[k] = (IF k = n /\ attemptPromise[n] = "opening" THEN "resolved" ELSE attemptPromise[k])
  BY <1>1, <1>2 DEF TransportTypeOK, Opened
<1>4. attemptPromise[n] \notin {"delaying", "connecting", "undefined", "rejected"} /\ n <= totalAttempt
  <2>1. socket[n] # "none"
    BY <1>2
  <2>2. ~(n > totalAttempt)
    BY <1>1, <2>1 DEF LastIsCurrent
  <2>3. attemptPromise[n] \notin {"delaying", "connecting", "undefined", "rejected"}
    BY <1>1, <2>1 DEF SocketsFollowPromises
  <2> QED BY <1>1, <2>2, <2>3, Ranges DEF Attempts
<1>5. run[n] = "idle" /\ n \in ConnectRuns
  BY <1>1, <1>2 DEF RunsOfClosed, ConnectRuns
<1>6. \A r \in ConnectRuns : r # n => run'[r] = run[r]
  BY <1>1, <1>2 DEF TransportTypeOK
<1>7. TransportTypeOK'
  <2>1. socket' \in [Attempts -> {"none", "connecting", "open", "closing", "closed"}]
    BY <1>1, <1>2 DEF TransportTypeOK
  <2>2. attemptPromise' \in [Attempts -> {"none"} \cup InFlight \cup PromiseSettled]
    BY <1>1, <1>2 DEF TransportTypeOK, Opened, PromiseSettled
  <2>3. run' \in [ConnectRuns -> {"idle", "sleeping", "awaiting", "returned", "thrown"}]
    BY <1>1, <1>2 DEF TransportTypeOK
  <2> QED BY <1>1, <1>2, <2>1, <2>2, <2>3 DEF TransportTypeOK
<1>8. LastIsCurrent'
  BY <1>1, <1>2, <1>3, <1>4, Ranges DEF LastIsCurrent, Attempts
<1>9. SocketsFollowPromises'
  BY <1>1, <1>2, <1>3, <1>4 DEF SocketsFollowPromises
<1>10. OneAttemptAtATime' /\ OneOpenSocket' /\ FailuresAsConfigured'
  BY <1>1, <1>2, <1>3
     DEF OneAttemptAtATime, OneOpenSocket, FailuresAsConfigured, TransportInv, InFlight
<1>11. RunsOfClosed'
  BY <1>1, <1>2, <1>3, <1>6 DEF RunsOfClosed, ConnectRuns
<1>12. (enabled => CounterIsRight)'
  BY <1>1, <1>2 DEF CounterIsRight
<1>13. totalAttempt # 0 => AttemptIsAwaited'
  <2> SUFFICES ASSUME totalAttempt # 0, attemptPromise'[totalAttempt] \in InFlight
               PROVE  \E r \in ConnectRuns : run'[r] = "awaiting" /\ awaited[r] = totalAttempt
    BY <1>2 DEF AttemptIsAwaited
  <2>1. attemptPromise[totalAttempt] \in InFlight
    BY <1>1, <1>3, Ranges DEF InFlight
  <2>2. PICK r \in ConnectRuns : run[r] = "awaiting" /\ awaited[r] = totalAttempt
    BY <2>1 DEF TransportInv, AttemptIsAwaited
  <2> QED BY <1>5, <1>6, <2>2
<1>14. /\ (totalAttempt # 0 => AttemptIsAwaited)'
       /\ (lastOpen <= totalAttempt)'
       /\ (totalAttempt = 0 => attempt = 0)'
       /\ (~enabled => totalAttempt <= 1)'
  BY <1>2, <1>13 DEF TransportInv
<1> QED BY <1>7, <1>8, <1>9, <1>10, <1>11, <1>12, <1>14, Zenon DEF TransportInv

-----------------------------------------------------------------------------
\* Every step keeps the invariant.
LEMMA TransportInvKept == TransportInv /\ [TransportNext]_transportVars => TransportInv'
<1> SUFFICES ASSUME TransportInv, [TransportNext]_transportVars PROVE TransportInv'
  OBVIOUS
<1>0. drops \in 0..MaxDrops /\ MaxDrops \in Nat
  BY TransportAssumption DEF TransportInv, TransportTypeOK
<1>1. ASSUME NEW c \in Senders, Call(c) PROVE TransportInv'
  BY <1>1, BeginKept DEF Call, ConnectRuns, Runnable
<1>2. ASSUME NEW r \in ConnectRuns, ReturnPeer(r) PROVE TransportInv'
  BY <1>2, ReturnKept
<1>3. ASSUME NEW r \in ConnectRuns, ThrowError(r) PROVE TransportInv'
  BY <1>3, ThrownKept DEF ThrowError, IsUsable
<1>4. ASSUME NEW r \in ConnectRuns, Rejoin(r) PROVE TransportInv'
  <2>1. r \in Runnable /\ awaited[r] # totalAttempt /\ BeginRun(r)
    BY <1>4 DEF Rejoin, MustReconnect, IsStale, TransportInv, LastIsCurrent
  <2> QED BY <2>1, BeginKept DEF Runnable
<1>5. ASSUME NEW r \in ConnectRuns, GiveUpConnecting(r) PROVE TransportInv'
  BY <1>5, ThrownKept DEF GiveUpConnecting, MustReconnect
<1>6. ASSUME NEW r \in ConnectRuns, Start(r) PROVE TransportInv'
  BY <1>6, StartKept
<1>7. ASSUME NEW n \in Attempts, CallAfterClose(n) PROVE TransportInv'
  <2>1. n \in ConnectRuns /\ run[n] # "idle" /\ Runnable = {} /\ BeginRun(n)
    BY <1>7 DEF CallAfterClose, ConnectRuns
  <2> QED BY <2>1, BeginKept
<1>8. ASSUME NEW n \in Attempts, Connect(n) PROVE TransportInv'
  <2>1. /\ Runnable = {} /\ attemptPromise[n] = "delaying" /\ socket[n] = "none"
        /\ attemptPromise' = [attemptPromise EXCEPT ![n] = "connecting"]
        /\ UNCHANGED <<totalAttempt, attempt, current, socket, run, awaited, drops, lastOpen, enabled>>
    BY <1>8 DEF Connect, TransportInv, SocketsFollowPromises
  <2>2. socket' = [socket EXCEPT ![n] = "none"]
    BY <2>1 DEF TransportInv, TransportTypeOK
  <2>3. Progress(n, "connecting", "none")
    BY <1>0, <2>1, <2>2 DEF Progress, InFlight
  <2> QED BY <2>3, ProgressKept DEF InFlight
<1>9. ASSUME NEW n \in Attempts, ConnectFails(n) PROVE TransportInv'
  <2>1. /\ Runnable = {} /\ attemptPromise[n] = "connecting" /\ socket[n] = "none"
        /\ attemptPromise' = [attemptPromise EXCEPT ![n] = Failed]
        /\ UNCHANGED <<totalAttempt, attempt, current, socket, run, awaited, drops, lastOpen, enabled>>
    BY <1>9 DEF ConnectFails, TransportInv, SocketsFollowPromises
  <2>2. socket' = [socket EXCEPT ![n] = "none"]
    BY <2>1 DEF TransportInv, TransportTypeOK
  <2>3. Failed \in {"undefined", "rejected"} /\ (Failed = "rejected" <=> ~enabled)
    BY DEF Failed
  <2>4. Progress(n, Failed, "none")
    BY <1>0, <2>1, <2>2, <2>3 DEF Progress, InFlight
  <2> QED BY <2>3, <2>4, ProgressKept DEF PromiseSettled
<1>10. ASSUME NEW n \in Attempts, NEW s \in {"connecting", "open", "closing", "closed"}, ConnectReturns(n, s)
       PROVE  TransportInv'
  <2> DEFINE p == IF s = "connecting" THEN "opening" ELSE "resolved"
  <2>1. /\ Runnable = {} /\ attemptPromise[n] = "connecting"
        /\ attemptPromise' = [attemptPromise EXCEPT ![n] = p] /\ socket' = [socket EXCEPT ![n] = s]
        /\ lastOpen' = IF s = "open" THEN n ELSE lastOpen
        /\ UNCHANGED <<totalAttempt, attempt, current, run, awaited, enabled>>
    BY <1>10 DEF ConnectReturns
  <2>4. drops' \in 0..MaxDrops
    BY <1>10, <1>0 DEF ConnectReturns
  <2>2. Progress(n, p, s)
    BY <2>1, <2>4 DEF Progress, InFlight
  <2>3. p \in InFlight \cup PromiseSettled
    BY DEF InFlight, PromiseSettled
  <2> QED BY <2>2, <2>3, ProgressKept
<1>11. ASSUME NEW n \in Attempts, Open(n) PROVE TransportInv'
  <2>1. /\ Runnable = {} /\ attemptPromise[n] = "opening"
        /\ attemptPromise' = [attemptPromise EXCEPT ![n] = "resolved"] /\ socket' = [socket EXCEPT ![n] = "open"]
        /\ lastOpen' = n
        /\ UNCHANGED <<totalAttempt, attempt, current, run, awaited, drops, enabled>>
    BY <1>11 DEF Open, TransportInv, SocketsFollowPromises
  <2>2. Progress(n, "resolved", "open")
    BY <1>0, <2>1 DEF Progress, InFlight
  <2> QED BY <2>2, ProgressKept DEF PromiseSettled
<1>12. CASE UNCHANGED transportVars
  BY <1>12 DEF transportVars, TransportInv, TransportTypeOK, LastIsCurrent, SocketsFollowPromises, RunsOfClosed,
               OneAttemptAtATime, OneOpenSocket, AttemptIsAwaited, CounterIsRight, Runnable,
               IsSettled, IsUsable, FailuresAsConfigured
<1> QED BY <1>1, <1>2, <1>3, <1>4, <1>5, <1>6, <1>7, <1>8, <1>9, <1>10, <1>11, <1>12,
           GoesDownKept, CloseKept DEF TransportNext, ContinueRun, SettleAttempt

\* The invariant holds for any number of calls, attempts and drops
\* (getConnectedPeer and the events of the websocket).
THEOREM TransportInvariant == TransportSpec => []TransportInv
BY InitTransportInv, TransportInvKept, PTL DEF TransportSpec

\* One attempt is made at a time (getConnectedPeer).
THEOREM SingleFlight == TransportSpec => []OneAttemptAtATime
<1>1. TransportInv => OneAttemptAtATime
  BY DEF TransportInv
<1> QED BY <1>1, TransportInvariant, PTL

\* No second connection is open or opening (getConnectedPeer).
THEOREM SingleSocket == TransportSpec => []OneOpenSocket
<1>1. TransportInv => OneOpenSocket
  BY DEF TransportInv
<1> QED BY <1>1, TransportInvariant, PTL

\* info.attempt counts the attempts since the last one that connected
\* (getConnectedPeer: attempt and totalAttempt).
THEOREM AttemptsAreCounted == TransportSpec => AttemptCountsFailures
<1>1. TransportInv /\ [TransportNext]_transportVars =>
        [totalAttempt' # totalAttempt => attempt' = totalAttempt' - lastOpen]_transportVars
  <2> SUFFICES ASSUME TransportInv, TransportNext, totalAttempt' # totalAttempt
               PROVE  attempt' = totalAttempt' - lastOpen
    OBVIOUS
  <2>1. PICK r \in ConnectRuns : Start(r)
    BY DEF TransportNext, Call, ContinueRun, SettleAttempt, BeginRun, ReturnPeer, ThrowError, Rejoin, GiveUpConnecting, CallAfterClose,
           Connect, ConnectFails, ConnectReturns, Open, GoesDown, Close
  <2> QED BY <2>1, StartKept
<1> QED BY <1>1, TransportInvariant, PTL DEF TransportSpec, AttemptCountsFailures

\* Without reconnect there is only one attempt (the catch behind an attempt).
THEOREM OneAttemptWithoutReconnect == TransportSpec => []NoReconnectUnlessEnabled
<1>1. TransportInv => NoReconnectUnlessEnabled
  BY DEF TransportInv, NoReconnectUnlessEnabled
<1> QED BY <1>1, TransportInvariant, PTL

\* A run gives up only after MaxAttempt attempts in a row that did not connect
\* (getConnectedPeer: reconnectMaxAttempt).
THEOREM GivesUpLate == TransportSpec => GivesUpInARow
<1>1. TransportInv /\ [TransportNext]_transportVars =>
        [\A r \in ConnectRuns : enabled /\ run[r] # "thrown" /\ run'[r] = "thrown" =>
           totalAttempt - lastOpen >= MaxAttempt]_transportVars
  <2> SUFFICES ASSUME TransportInv, TransportNext, NEW r \in ConnectRuns, enabled,
                      run[r] # "thrown", run'[r] = "thrown"
               PROVE  totalAttempt - lastOpen >= MaxAttempt
    OBVIOUS
  <2>1. \A s \in ConnectRuns : \A v : run' = [run EXCEPT ![s] = v] =>
          s = r /\ v = "thrown"
    BY DEF TransportInv, TransportTypeOK
  <2>2. PICK s \in ConnectRuns : ThrowError(s) \/ GiveUpConnecting(s)
    <3>1. run' # run
      OBVIOUS
    <3>2. ASSUME NEW s \in ConnectRuns, BeginRun(s) PROVE FALSE
      BY <2>1, <3>2 DEF BeginRun
    <3>3. ASSUME NEW s \in ConnectRuns, ReturnPeer(s) PROVE FALSE
      BY <2>1, <3>3 DEF ReturnPeer
    <3>4. ASSUME NEW n \in Attempts, Close(n) PROVE FALSE
      BY <2>1, <3>1, <3>4 DEF Close, ConnectRuns
    <3> QED BY <3>1, <3>2, <3>3, <3>4 DEF TransportNext, Call, ContinueRun, SettleAttempt, Rejoin, CallAfterClose, Start,
            Connect, ConnectFails, ConnectReturns, Open, GoesDown, ConnectRuns
  <2>3. GiveUpConnecting(s) /\ ~IsUsable(awaited[s]) /\ awaited[s] = totalAttempt /\ attempt >= MaxAttempt
    <3>1. ~ThrowError(s)
      BY DEF ThrowError, TransportInv, FailuresAsConfigured, NoAttempt, TransportTypeOK
    <3> QED BY <2>2, <3>1 DEF GiveUpConnecting, MustReconnect, IsStale, HasGivenUp, TransportInv, LastIsCurrent
  <2>4. attempt = totalAttempt - lastOpen
    BY <2>3 DEF TransportInv, CounterIsRight
  <2> QED BY <2>3, <2>4
<1> QED BY <1>1, TransportInvariant, PTL DEF TransportSpec, GivesUpInARow
=============================================================================
