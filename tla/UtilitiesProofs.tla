----------------------------- MODULE UtilitiesProofs -----------------------------
(***************************************************************************)
(* Replication, uploads and static files are right for any number of         *)
(* replicas, results, files, versions and requests: the proofs of            *)
(* ReplicateIterator, Uploads and StaticFile.                                *)
(***************************************************************************)
EXTENDS ReplicateIterator, AsyncIdQueueProofs, Uploads, StaticFile

-----------------------------------------------------------------------------
(* Replication.  Its actions are calls of the queue, so the queue's lemmas   *)
(* give QueueInv, and what a replica is due next follows from its place in   *)
(* the queue.                                                               *)

\* A registered waiter is a pending call of its own id.
LEMMA WaiterFacts ==
  ASSUME QueueInv, NEW i \in Ids, NEW n \in 1..Len(waiters[i])
  PROVE  /\ waiters[i][n] \in Calls /\ status[waiters[i][n]] = "waiting"
         /\ Len(sent[i]) + n \in 1..Len(pulls[i])
         /\ waiters[i][n] = pulls[i][Len(sent[i]) + n]
<1> DEFINE w == waiters[i]  p == pulls[i]  s == sent[i]  q == queues[i]
<1>1. w \in Seq(Calls) /\ p \in Seq(Calls) /\ s \in Seq(Items) /\ q \in Seq(Items)
  BY DEF QueueInv, QueueTypeOK
<1>2. Fits(q, w, s, p)
  BY DEF QueueInv
<1>3. \A m \in 1..Len(p) : m > Len(s) => status[p[m]] = "waiting"
  BY <1>1 DEF QueueInv, NthPullGetsNthItem
<1>4. n \in 1..Len(w)
  OBVIOUS
<1> HIDE DEF w, p, s, q
<1>5. w # <<>> /\ Len(w) \in Nat /\ Len(p) \in Nat /\ Len(s) \in Nat
  BY <1>1, <1>4
<1>6. Len(p) = Len(s) + Len(w)
  BY <1>1, <1>2, <1>5 DEF Fits
<1>7. Len(s) + n \in 1..Len(p) /\ Len(s) + n > Len(s) /\ w[n] = p[Len(s) + n]
  BY <1>2, <1>4, <1>5, <1>6 DEF Fits
<1> QED BY <1>1, <1>3, <1>4, <1>7 DEF w, p, s

\* Who is served by a push was waiting (queue.ts: push).
LEMMA ServedWait ==
  ASSUME QueueInv, NEW S \in SUBSET Ids, NEW c \in Served(S)
  PROVE  c \in Calls /\ status[c] = "waiting"
<1>1. PICK i \in S : waiters[i] # <<>> /\ c = Head(waiters[i])
  BY DEF Served
<1>2. waiters[i] \in Seq(Calls) /\ i \in Ids
  BY DEF QueueInv, QueueTypeOK
<1>3. 1 \in 1..Len(waiters[i]) /\ c = waiters[i][1]
  BY <1>1, <1>2
<1> QED BY <1>2, <1>3, WaiterFacts

\* Who is rejected by a close was waiting (queue.ts: close).
LEMMA RejectedWait ==
  ASSUME QueueInv, NEW S \in SUBSET Ids, NEW c \in Rejected(S)
  PROVE  c \in Calls /\ status[c] = "waiting"
<1>1. PICK i \in S : c \in Range(waiters[i])
  BY DEF Rejected
<1>2. waiters[i] \in Seq(Calls) /\ i \in Ids
  BY DEF QueueInv, QueueTypeOK
<1>3. PICK n \in 1..Len(waiters[i]) : c = waiters[i][n]
  BY <1>1, <1>2 DEF Range
<1> QED BY <1>2, <1>3, WaiterFacts

\* A settled promise stays as it is, whatever the queue does.
LEMMA SettledStays ==
  ASSUME QueueInv, NEW c \in Calls, status[c] \in {"resolved", "rejected"}
  PROVE  /\ \A S \in SUBSET Ids, x \in Items : PushAll(S, x) => status'[c] = status[c] /\ got'[c] = got[c]
         /\ \A S \in SUBSET Ids : Close(S) => status'[c] = status[c] /\ got'[c] = got[c]
         /\ \A id \in Ids, d \in Calls : Pull(id, d) => status'[c] = status[c] /\ got'[c] = got[c]
<1>1. ASSUME NEW S \in SUBSET Ids, NEW x \in Items, PushAll(S, x)
      PROVE  status'[c] = status[c] /\ got'[c] = got[c]
  <2>1. c \notin Served(S)
    BY ServedWait
  <2> QED BY <1>1, <2>1 DEF PushAll
<1>2. ASSUME NEW S \in SUBSET Ids, Close(S)
      PROVE  status'[c] = status[c] /\ got'[c] = got[c]
  <2>1. c \notin Rejected(S)
    BY RejectedWait
  <2> QED BY <1>2, <2>1 DEF Close
<1>3. ASSUME NEW id \in Ids, NEW d \in Calls, Pull(id, d)
      PROVE  status'[c] = status[c] /\ got'[c] = got[c]
  <2>1. status[d] = "fresh" /\ d # c
    BY <1>3 DEF Pull, PullBuffered, PullWait, PullClosed
  <2> QED BY <1>3, <2>1 DEF Pull, PullBuffered, PullWait, PullClosed, QueueInv, QueueTypeOK
<1> QED BY <1>1, <1>2, <1>3

\* What an open replica awaits: nothing yet when it has seen all there is, and
\* otherwise the next result.
LEMMA OpenAwaits ==
  ASSUME QueueInv, ReplicaInv, NEW r \in openIds, pending[r] # NoCall
  PROVE  /\ r \in Ids /\ pending[r] \in Calls
         /\ status[pending[r]] = "resolved" =>
              Len(seen[r]) < Len(out) /\ got[pending[r]] = out[Len(seen[r]) + 1]
         /\ status[pending[r]] \in {"waiting", "resolved"}
<1>1. r \in Ids /\ pending[r] \in Calls
  BY DEF ReplicaInv, ReplicateTypeOK, QueueInv, QueueTypeOK
<1>2. /\ sent[r] = out
      /\ Len(pulls[r]) = Len(seen[r]) + 1
      /\ pulls[r][Len(pulls[r])] = pending[r]
  BY DEF ReplicaInv, OpenFollows
<1>3. pulls[r] \in Seq(Calls) /\ out \in Seq(Items) /\ seen[r] \in Seq(Items)
  BY <1>1 DEF ReplicaInv, ReplicateTypeOK, QueueInv, QueueTypeOK
<1> DEFINE n == Len(pulls[r])
<1>4. n \in 1..Len(pulls[r]) /\ n = Len(seen[r]) + 1 /\ Len(seen[r]) \in Nat /\ Len(out) \in Nat
  BY <1>2, <1>3
<1>5. IF n <= Len(sent[r])
      THEN status[pulls[r][n]] = "resolved" /\ got[pulls[r][n]] = sent[r][n]
      ELSE status[pulls[r][n]] = "waiting"
  BY <1>1, <1>4 DEF QueueInv, NthPullGetsNthItem
<1> QED BY <1>1, <1>2, <1>4, <1>5

\* A replica whose pull is resolved gets the next result, open or not.
LEMMA ResolvedIsNext ==
  ASSUME QueueInv, ReplicaInv, NEW r \in Ids, IsResolved(r)
  PROVE  Len(seen[r]) < Len(out) /\ got[pending[r]] = out[Len(seen[r]) + 1]
BY OpenAwaits DEF IsResolved, ReplicaInv, ClosedIsSettled

\* The queue's part of the invariant is kept, because every action is a call of
\* the queue or leaves it alone.
LEMMA QueueKept == QueueInv /\ ReplicateTypeOK /\ [ReplicateNext]_replicatingVars => QueueInv'
<1> SUFFICES ASSUME QueueInv, ReplicateTypeOK, [ReplicateNext]_replicatingVars PROVE QueueInv'
  OBVIOUS
<1>1. ASSUME UNCHANGED queueVars PROVE QueueInv'
  BY <1>1 DEF queueVars, QueueInv, QueueTypeOK, DistinctPulls, ClosedForgets,
              NthPullGetsNthItem, WaitingIsRegistered
<1>2. CASE Replicate
  BY <1>2, OpenInv DEF Replicate
<1>3. ASSUME NEW x \in Items, SourceResult(x) PROVE QueueInv'
  <2>1. openIds \in SUBSET Ids
    BY DEF QueueInv, QueueTypeOK
  <2> QED BY <1>3, <2>1, PushAllInv DEF SourceResult, Receivers
<1>4. ASSUME NEW r \in Ids, CallNext(r) PROVE QueueInv'
  <2>1. PICK c \in Calls : Pull(r, c)
    BY <1>4 DEF CallNext
  <2> QED BY <2>1, PullInv
<1>5. ASSUME NEW r \in Ids, Settle(r) PROVE QueueInv'
  BY <1>1, <1>5, CloseInv DEF Settle
<1>6. ASSUME NEW r \in Ids, SettleRejected(r) PROVE QueueInv'
  BY <1>1, <1>6 DEF SettleRejected
<1>7. ASSUME NEW r \in Ids, Return(r) PROVE QueueInv'
  BY <1>7, CloseInv DEF Return
<1>8. CASE UNCHANGED replicatingVars
  BY <1>1, <1>8 DEF replicatingVars
<1> QED BY <1>2, <1>3, <1>4, <1>5, <1>6, <1>7, <1>8 DEF ReplicateNext

-----------------------------------------------------------------------------
\* Opening the replicas (iterator.ts: the last lines of replicateAsyncIterator).
LEMMA ReplicateKept ==
  ASSUME QueueInv, QueueInv', ReplicaInv, Replicate
  PROVE  ReplicaInv' /\ AbandonedSourceIsReleased'
<1>1. /\ loop = "none" /\ loop' = "idle" /\ openIds = {} /\ openIds' = Ids
      /\ UNCHANGED <<isSourceFinished, returned, lateNext, out, pending, isDone, seen,
                     queues, waiters, status, got, sent, pulls>>
  <2>1. loop = "none" /\ openIds = {}
    BY DEF Replicate, ReplicaInv, OpenUntilDone
  <2> QED BY <2>1 DEF Replicate, Open, replicaVars
<1>2. out = <<>> /\ \A r \in Ids : pending[r] = NoCall /\ ~isDone[r]
  BY <1>1 DEF ReplicaInv, NothingBeforeReplicate
<1>3. \A r \in Ids : sent[r] = <<>> /\ pulls[r] = <<>>
  BY <1>1 DEF QueueInv, ClosedForgets
<1>4. \A r \in Ids : Len(seen[r]) = 0
  <2>1. \A r \in Ids : seen[r] \in Seq(Items) /\ Len(seen[r]) <= Len(out)
    BY DEF ReplicaInv, ReplicateTypeOK, SeenIsPrefix
  <2> QED BY <1>2, <2>1
<1>5. ReplicateTypeOK'
  BY <1>1 DEF ReplicaInv, ReplicateTypeOK, QueueInv
<1>6. OpenUntilDone'
  BY <1>1, <1>2 DEF OpenUntilDone
<1> QED BY <1>1, <1>2, <1>3, <1>4, <1>5, <1>6, ReplicateAssumption
        DEF ReplicaInv, OpenFollows, ClosedIsSettled, SeenIsPrefix, LastResultFinishes,
            NothingBeforeReplicate, AbandonedSourceIsReleased

\* A result of the source (iterator.ts: the loop of start).
LEMMA SourceResultKept ==
  ASSUME QueueInv, QueueInv', ReplicaInv, NEW x \in Items, SourceResult(x)
  PROVE  ReplicaInv'
<1>1. /\ loop = "awaiting" /\ loop' \in {"awaiting", "ended"}
      /\ PushAll(openIds, x)
      /\ out' = Append(out, x)
      /\ isSourceFinished' = (isSourceFinished \/ x \in {Done, Error})
      /\ loop' = "ended" <=> x \in {Done, Error}
      /\ lateNext' \in BOOLEAN
      /\ UNCHANGED <<returned, pending, isDone, seen>>
  <2>1. isSourceFinished \in BOOLEAN /\ lateNext \in BOOLEAN /\ returned \in BOOLEAN
    BY DEF ReplicaInv, ReplicateTypeOK
  <2>2. /\ loop = "awaiting" /\ PushAll(openIds, x) /\ out' = Append(out, x)
        /\ UNCHANGED <<returned, pending, isDone, seen>>
    BY DEF SourceResult, Receivers, replicaVars
  <2>3. CASE x \in {Done, Error}
    BY <2>1, <2>2, <2>3 DEF SourceResult
  <2>4. CASE x \notin {Done, Error}
    BY <2>1, <2>2, <2>4 DEF SourceResult
  <2> QED BY <2>3, <2>4
<1>2. /\ out \in Seq(Items) /\ out' \in Seq(Items)
      /\ Len(out') = Len(out) + 1 /\ Len(out) \in Nat
      /\ \A n \in 1..Len(out) : out'[n] = out[n]
      /\ out'[Len(out) + 1] = x
  <2>1. out \in Seq(Items)
    BY DEF ReplicaInv, ReplicateTypeOK
  <2> QED BY <1>1, <2>1, AppendFacts
<1>3. openIds' = openIds /\ pulls' = pulls /\ openIds \subseteq Ids
  BY <1>1 DEF PushAll, QueueInv, QueueTypeOK
<1>4. ReplicateTypeOK'
  BY <1>1, <1>2 DEF ReplicaInv, ReplicateTypeOK, QueueInv
<1>5. OpenUntilDone'
  BY <1>1, <1>3 DEF ReplicaInv, OpenUntilDone
<1>6. OpenFollows'
  <2>1. \A r \in openIds : sent'[r] = out'
    BY <1>1, <1>3 DEF ReplicaInv, OpenFollows, PushAll
  <2> QED BY <1>1, <1>3, <2>1 DEF ReplicaInv, OpenFollows
<1>7. \A r \in Ids : seen[r] \in Seq(Items) /\ Len(seen[r]) \in Nat
  BY DEF ReplicaInv, ReplicateTypeOK
<1>8. ClosedIsSettled'
  <2> SUFFICES ASSUME NEW r \in Ids \ openIds, pending[r] # NoCall
               PROVE  /\ status'[pending[r]] \in {"resolved", "rejected"}
                      /\ status'[pending[r]] = "resolved" =>
                           Len(seen[r]) < Len(out') /\ got'[pending[r]] = out'[Len(seen[r]) + 1]
    BY <1>1, <1>3 DEF ClosedIsSettled
  <2>1. /\ pending[r] \in Calls /\ status[pending[r]] \in {"resolved", "rejected"}
        /\ status[pending[r]] = "resolved" =>
             Len(seen[r]) < Len(out) /\ got[pending[r]] = out[Len(seen[r]) + 1]
    BY DEF ReplicaInv, ReplicateTypeOK, ClosedIsSettled
  <2>2. status'[pending[r]] = status[pending[r]] /\ got'[pending[r]] = got[pending[r]]
    BY <1>1, <1>3, <2>1, SettledStays
  <2> DEFINE k == Len(seen[r])
  <2>3. k < Len(out) => k < Len(out') /\ out'[k + 1] = out[k + 1]
    <3>1. k \in Nat
      BY <1>7
    <3> QED BY <1>2, <3>1
  <2> QED BY <2>1, <2>2, <2>3
<1>9. SeenIsPrefix'
  <2> SUFFICES ASSUME NEW r \in Ids
               PROVE  /\ Len(seen[r]) <= Len(out')
                      /\ \A i \in 1..Len(seen[r]) : seen[r][i] = out'[i]
    BY <1>1 DEF SeenIsPrefix
  <2>1. Len(seen[r]) <= Len(out) /\ \A i \in 1..Len(seen[r]) : seen[r][i] = out[i]
    BY DEF ReplicaInv, SeenIsPrefix
  <2> QED BY <1>2, <1>7, <2>1
<1>10. NothingBeforeReplicate'
  BY <1>1 DEF NothingBeforeReplicate
<1>11. LastResultFinishes'
  <2>1. \A i \in 1..Len(out') : out'[i] \in {Done, Error} => isSourceFinished'
    <3>1. \A i \in 1..Len(out) : out[i] \in {Done, Error} => isSourceFinished
      BY DEF ReplicaInv, LastResultFinishes
    <3> SUFFICES ASSUME NEW i \in 1..Len(out'), out'[i] \in {Done, Error}
                 PROVE  isSourceFinished'
      OBVIOUS
    <3>2. CASE i \in 1..Len(out)
      BY <1>1, <1>2, <3>1, <3>2
    <3>3. CASE i = Len(out) + 1
      BY <1>1, <1>2, <3>3
    <3> QED BY <1>2, <3>2, <3>3
  <2> QED BY <1>1, <2>1 DEF LastResultFinishes
<1> QED BY <1>4, <1>5, <1>6, <1>8, <1>9, <1>10, <1>11 DEF ReplicaInv

\* A call of next (iterator.ts: start and the pull of a replica).
LEMMA CallNextKept ==
  ASSUME QueueInv, QueueInv', ReplicaInv, NEW r \in Ids, CallNext(r)
  PROVE  ReplicaInv'
<1>1. PICK c \in Calls : Pull(r, c) /\ status[c] = "fresh" /\ pending' = [pending EXCEPT ![r] = c]
  BY DEF CallNext, Pull, PullBuffered, PullWait, PullClosed
<1>2. /\ loop # "none" /\ pending[r] = NoCall /\ ~isDone[r]
      /\ loop' \in {"awaiting", loop} /\ loop' # "none" /\ (loop' = "ended" => loop = "ended")
      /\ lateNext' \in BOOLEAN
      /\ UNCHANGED <<isSourceFinished, returned, out, isDone, seen>>
  BY DEF CallNext, Start, ReplicaInv, ReplicateTypeOK
<1>3. r \in openIds
  BY <1>2 DEF ReplicaInv, OpenUntilDone
<1>4. /\ openIds' = openIds /\ sent' = sent
      /\ pulls' = [pulls EXCEPT ![r] = Append(@, c)]
  BY <1>1, <1>3 DEF Pull, PullBuffered, PullWait, PullClosed
<1>5. c # NoCall /\ pending \in [Ids -> Calls \cup {NoCall}]
  BY ReplicateAssumption DEF ReplicaInv, ReplicateTypeOK
<1>6. ReplicateTypeOK'
  BY <1>1, <1>2, <1>5 DEF ReplicaInv, ReplicateTypeOK, QueueInv
<1>7. OpenUntilDone'
  BY <1>2, <1>4 DEF ReplicaInv, OpenUntilDone
<1>8. OpenFollows'
  <2>0. pulls \in [Ids -> Seq(Calls)] /\ openIds \subseteq Ids
    BY DEF QueueInv, QueueTypeOK
  <2>1. /\ pulls'[r] = Append(pulls[r], c)
        /\ \A s \in Ids : s # r => pulls'[s] = pulls[s] /\ pending'[s] = pending[s]
        /\ pending'[r] = c
    BY <1>1, <1>4, <1>5, <2>0
  <2>2. sent[r] = out /\ Len(pulls[r]) = Len(seen[r])
    BY <1>2, <1>3 DEF ReplicaInv, OpenFollows
  <2>3. Len(pulls'[r]) = Len(seen[r]) + 1 /\ pulls'[r][Len(pulls'[r])] = c
    BY <2>0, <2>1, <2>2, AppendFacts
  <2>4. \A s \in openIds : s # r =>
          /\ sent'[s] = out'
          /\ pending'[s] = NoCall => Len(pulls'[s]) = Len(seen'[s])
          /\ pending'[s] # NoCall => /\ Len(pulls'[s]) = Len(seen'[s]) + 1
                                    /\ pulls'[s][Len(pulls'[s])] = pending'[s]
    BY <1>2, <1>4, <2>0, <2>1 DEF ReplicaInv, OpenFollows
  <2>5. /\ sent'[r] = out' /\ pending'[r] # NoCall
        /\ Len(pulls'[r]) = Len(seen'[r]) + 1 /\ pulls'[r][Len(pulls'[r])] = pending'[r]
    BY <1>2, <1>4, <1>5, <2>1, <2>2, <2>3
  <2> QED BY <1>4, <2>4, <2>5 DEF OpenFollows
<1>9. ClosedIsSettled'
  <2> SUFFICES ASSUME NEW s \in Ids \ openIds, pending'[s] # NoCall
               PROVE  /\ status'[pending'[s]] \in {"resolved", "rejected"}
                      /\ status'[pending'[s]] = "resolved" =>
                           Len(seen[s]) < Len(out) /\ got'[pending'[s]] = out[Len(seen[s]) + 1]
    BY <1>2, <1>4 DEF ClosedIsSettled
  <2>1. s # r /\ pending'[s] = pending[s]
    BY <1>1, <1>3, <1>5
  <2>2. /\ pending[s] \in Calls /\ status[pending[s]] \in {"resolved", "rejected"}
        /\ status[pending[s]] = "resolved" =>
             Len(seen[s]) < Len(out) /\ got[pending[s]] = out[Len(seen[s]) + 1]
    BY <2>1 DEF ReplicaInv, ReplicateTypeOK, ClosedIsSettled
  <2>3. status'[pending[s]] = status[pending[s]] /\ got'[pending[s]] = got[pending[s]]
    BY <1>1, <2>2, SettledStays
  <2> QED BY <2>1, <2>2, <2>3
<1>10. SeenIsPrefix' /\ NothingBeforeReplicate' /\ LastResultFinishes'
  BY <1>2 DEF ReplicaInv, SeenIsPrefix, NothingBeforeReplicate, LastResultFinishes
<1> QED BY <1>6, <1>7, <1>8, <1>9, <1>10 DEF ReplicaInv

\* Closing one replica leaves the others as they are (queue.ts: close).
LEMMA CloseOne ==
  ASSUME QueueInv, NEW r \in Ids, Close({r})
  PROVE  /\ openIds' = openIds \ {r}
         /\ \A s \in openIds' : sent'[s] = sent[s] /\ pulls'[s] = pulls[s]
BY DEF Close, QueueInv, QueueTypeOK

\* The awaited pull is resolved (iterator.ts: the next of a replica).
LEMMA SettleKept ==
  ASSUME QueueInv, QueueInv', ReplicaInv, AbandonedSourceIsReleased, NEW r \in Ids, Settle(r)
  PROVE  ReplicaInv' /\ AbandonedSourceIsReleased'
<1> DEFINE x == got[pending[r]]
           ends == x \in {Done, Error}
<1>1. /\ IsResolved(r) /\ pending[r] # NoCall
      /\ seen' = [seen EXCEPT ![r] = Append(@, x)]
      /\ isDone' = [isDone EXCEPT ![r] = @ \/ ends]
      /\ ends /\ ~isDone[r] => Close({r})
      /\ ~(ends /\ ~isDone[r]) => UNCHANGED queueVars
      /\ pending' = [pending EXCEPT ![r] = NoCall]
      /\ UNCHANGED <<loop, isSourceFinished, returned, lateNext, out>>
  BY DEF Settle, IsResolved, loopVars
<1>2. Len(seen[r]) < Len(out) /\ x = out[Len(seen[r]) + 1]
  BY <1>1, ResolvedIsNext
<1>3. /\ seen \in [Ids -> Seq(Items)] /\ out \in Seq(Items) /\ isDone \in [Ids -> BOOLEAN]
      /\ pending \in [Ids -> Calls \cup {NoCall}] /\ openIds \subseteq Ids
      /\ loop \in {"none", "idle", "awaiting", "ended"} /\ isSourceFinished \in BOOLEAN
  BY DEF ReplicaInv, ReplicateTypeOK, QueueInv, QueueTypeOK
<1> DEFINE n == Len(seen[r]) + 1
<1>4. n \in 1..Len(out) /\ x = out[n] /\ x \in Items
  BY <1>2, <1>3
<1>5. loop # "none"
  BY <1>1 DEF ReplicaInv, NothingBeforeReplicate
<1>6. r \in openIds <=> ~isDone[r]
  BY <1>5 DEF ReplicaInv, OpenUntilDone
<1>7. ends => isSourceFinished
  BY <1>4 DEF ReplicaInv, LastResultFinishes
<1> HIDE DEF x
<1>8. /\ openIds' = openIds \ (IF ends THEN {r} ELSE {})
      /\ \A s \in openIds' : sent'[s] = sent[s] /\ pulls'[s] = pulls[s]
  <2>1. CASE ends /\ ~isDone[r]
    BY <1>1, <2>1, CloseOne
  <2>2. CASE ~(ends /\ ~isDone[r])
    BY <1>1, <1>6, <2>2 DEF queueVars
  <2> QED BY <2>1, <2>2
<1>9. \A s \in Ids : s # r => /\ seen'[s] = seen[s] /\ pending'[s] = pending[s]
                             /\ isDone'[s] = isDone[s]
  BY <1>1, <1>3
<1>10. /\ seen'[r] = Append(seen[r], x) /\ pending'[r] = NoCall
       /\ isDone'[r] = (isDone[r] \/ ends)
  BY <1>1, <1>3
<1>11. /\ Len(seen'[r]) = n /\ n \in Nat
       /\ \A i \in 1..Len(seen[r]) : seen'[r][i] = seen[r][i]
       /\ seen'[r][n] = x
  BY <1>3, <1>4, <1>10, AppendFacts
<1>12. ReplicateTypeOK'
  <2>1. seen' \in [Ids -> Seq(Items)]
    BY <1>1, <1>3, <1>4
  <2> QED BY <1>1, <1>3, <2>1 DEF ReplicaInv, ReplicateTypeOK, QueueInv
<1>13. OpenUntilDone'
  <2>1. openIds = {s \in Ids : ~isDone[s]}
    BY <1>5 DEF ReplicaInv, OpenUntilDone
  <2>2. openIds' = {s \in Ids : ~isDone'[s]}
    BY <1>8, <1>9, <1>10, <2>1
  <2> QED BY <1>1, <1>5, <2>2 DEF OpenUntilDone
<1>14. OpenFollows'
  <2> SUFFICES ASSUME NEW s \in openIds'
               PROVE  /\ sent'[s] = out
                      /\ pending'[s] = NoCall => Len(pulls'[s]) = Len(seen'[s])
                      /\ pending'[s] # NoCall => /\ Len(pulls'[s]) = Len(seen'[s]) + 1
                                                /\ pulls'[s][Len(pulls'[s])] = pending'[s]
    BY <1>1 DEF OpenFollows
  <2>1. /\ s \in openIds /\ s \in Ids /\ sent[s] = out /\ sent'[s] = sent[s] /\ pulls'[s] = pulls[s]
        /\ pending[s] = NoCall => Len(pulls[s]) = Len(seen[s])
        /\ pending[s] # NoCall => /\ Len(pulls[s]) = Len(seen[s]) + 1
                                  /\ pulls[s][Len(pulls[s])] = pending[s]
    BY <1>3, <1>8 DEF ReplicaInv, OpenFollows
  <2>2. CASE s = r
    BY <1>1, <1>10, <1>11, <2>1, <2>2
  <2>3. CASE s # r
    BY <1>9, <2>1, <2>3
  <2> QED BY <2>2, <2>3
<1>15. ClosedIsSettled'
  <2> SUFFICES ASSUME NEW s \in Ids \ openIds', pending'[s] # NoCall
               PROVE  /\ status'[pending'[s]] \in {"resolved", "rejected"}
                      /\ status'[pending'[s]] = "resolved" =>
                           Len(seen'[s]) < Len(out) /\ got'[pending'[s]] = out[Len(seen'[s]) + 1]
    BY <1>1 DEF ClosedIsSettled
  <2>1. s # r /\ pending'[s] = pending[s] /\ seen'[s] = seen[s] /\ s \notin openIds
    BY <1>8, <1>9, <1>10
  <2>2. /\ pending[s] \in Calls /\ status[pending[s]] \in {"resolved", "rejected"}
        /\ status[pending[s]] = "resolved" =>
             Len(seen[s]) < Len(out) /\ got[pending[s]] = out[Len(seen[s]) + 1]
    BY <2>1 DEF ReplicaInv, ReplicateTypeOK, ClosedIsSettled
  <2>3. status'[pending[s]] = status[pending[s]] /\ got'[pending[s]] = got[pending[s]]
    BY <1>1, <2>2, SettledStays DEF queueVars
  <2> QED BY <2>1, <2>2, <2>3
<1>16. SeenIsPrefix'
  <2> SUFFICES ASSUME NEW s \in Ids
               PROVE  /\ Len(seen'[s]) <= Len(out)
                      /\ \A i \in 1..Len(seen'[s]) : seen'[s][i] = out[i]
    BY <1>1 DEF SeenIsPrefix
  <2>1. Len(seen[s]) <= Len(out) /\ \A i \in 1..Len(seen[s]) : seen[s][i] = out[i]
    BY DEF ReplicaInv, SeenIsPrefix
  <2>2. CASE s # r
    BY <1>9, <2>1, <2>2
  <2>3. CASE s = r
    <3>1. Len(seen[r]) \in Nat /\ Len(out) \in Nat
      BY <1>3
    <3> SUFFICES ASSUME NEW i \in 1..Len(seen'[r]) PROVE seen'[r][i] = out[i]
      BY <1>4, <1>11, <2>3, <3>1
    <3>2. CASE i \in 1..Len(seen[r])
      BY <1>11, <2>1, <2>3, <3>2
    <3>3. CASE i = n
      BY <1>4, <1>11, <3>3
    <3> QED BY <1>11, <3>1, <3>2, <3>3
  <2> QED BY <2>2, <2>3
<1>17. NothingBeforeReplicate' /\ LastResultFinishes'
  BY <1>1, <1>5 DEF ReplicaInv, NothingBeforeReplicate, LastResultFinishes
<1>18. AbandonedSourceIsReleased'
  BY <1>1, <1>7, <1>8 DEF AbandonedSourceIsReleased
<1> QED BY <1>12, <1>13, <1>14, <1>15, <1>16, <1>17, <1>18 DEF ReplicaInv

\* The awaited pull is rejected: only an ended replica gets here (queue.ts: close).
LEMMA SettleRejectedKept ==
  ASSUME QueueInv, QueueInv', ReplicaInv, NEW r \in Ids, SettleRejected(r)
  PROVE  ReplicaInv'
<1>1. /\ pending[r] # NoCall /\ status[pending[r]] = "rejected"
      /\ pending' = [pending EXCEPT ![r] = NoCall]
      /\ UNCHANGED <<loop, isSourceFinished, returned, lateNext, out, isDone, seen, queueVars>>
  BY DEF SettleRejected, loopVars
<1>2. r \notin openIds
  BY <1>1, OpenAwaits
<1>3. pending \in [Ids -> Calls \cup {NoCall}] /\ openIds \subseteq Ids
  BY DEF ReplicaInv, ReplicateTypeOK, QueueInv, QueueTypeOK
<1>4. ReplicateTypeOK'
  BY <1>1, <1>3 DEF ReplicaInv, ReplicateTypeOK, QueueInv
<1>5. OpenUntilDone' /\ SeenIsPrefix' /\ LastResultFinishes'
  BY <1>1 DEF ReplicaInv, OpenUntilDone, SeenIsPrefix, LastResultFinishes, queueVars
<1>6. OpenFollows'
  BY <1>1, <1>2, <1>3 DEF ReplicaInv, OpenFollows, queueVars
<1>7. ClosedIsSettled'
  BY <1>1, <1>3 DEF ReplicaInv, ClosedIsSettled, queueVars
<1>8. NothingBeforeReplicate'
  BY <1>1, <1>3 DEF ReplicaInv, NothingBeforeReplicate
<1> QED BY <1>4, <1>5, <1>6, <1>7, <1>8 DEF ReplicaInv

\* A replica is cancelled (iterator.ts: the cleanup of kind "cancelled").
LEMMA ReturnKept ==
  ASSUME QueueInv, QueueInv', ReplicaInv, NEW r \in Ids, Return(r)
  PROVE  ReplicaInv' /\ AbandonedSourceIsReleased'
<1>1. /\ loop # "none" /\ ~isDone[r]
      /\ isDone' = [isDone EXCEPT ![r] = TRUE]
      /\ Close({r})
      /\ UNCHANGED <<loop, lateNext, out, pending, seen>>
  BY DEF Return
<1>2. /\ isSourceFinished' = (isSourceFinished \/ openIds \ {r} = {})
      /\ isSourceFinished' \in BOOLEAN /\ returned' \in BOOLEAN
  BY DEF Return, MustCancel, ReplicaInv, ReplicateTypeOK
<1>3. /\ isDone \in [Ids -> BOOLEAN] /\ pending \in [Ids -> Calls \cup {NoCall}]
      /\ openIds \subseteq Ids
  BY DEF ReplicaInv, ReplicateTypeOK, QueueInv, QueueTypeOK
<1>4. r \in openIds
  BY <1>1 DEF ReplicaInv, OpenUntilDone
<1>5. /\ openIds' = openIds \ {r}
      /\ \A s \in openIds' : sent'[s] = sent[s] /\ pulls'[s] = pulls[s]
  BY <1>1, CloseOne
<1>6. ReplicateTypeOK'
  BY <1>1, <1>2, <1>3 DEF ReplicaInv, ReplicateTypeOK, QueueInv
<1>7. OpenUntilDone'
  BY <1>1, <1>3, <1>5 DEF ReplicaInv, OpenUntilDone
<1>8. OpenFollows'
  BY <1>1, <1>5 DEF ReplicaInv, OpenFollows
<1>9. \A c \in Calls : /\ status[c] \in {"resolved", "rejected"} =>
                            status'[c] = status[c] /\ got'[c] = got[c]
                       /\ status[c] = "waiting" => status'[c] \in {"waiting", "rejected"}
  <2>1. \A c \in Calls : status'[c] \in {status[c], "rejected"}
    BY <1>1 DEF Close
  <2> QED BY <1>1, <2>1, SettledStays
<1>10. pending[r] # NoCall => status'[pending[r]] # "waiting"
  <2> SUFFICES ASSUME pending[r] # NoCall, status'[pending[r]] = "waiting" PROVE FALSE
    OBVIOUS
  <2> DEFINE c == pending[r]
             k == Len(pulls[r])
  <2>1. c \in Calls /\ k \in 1..Len(pulls[r]) /\ pulls[r][k] = c
    <3>1. pulls[r] \in Seq(Calls) /\ seen[r] \in Seq(Items)
      BY DEF ReplicaInv, ReplicateTypeOK, QueueInv, QueueTypeOK
    <3>2. k = Len(seen[r]) + 1 /\ pulls[r][k] = c
      BY <1>4 DEF ReplicaInv, OpenFollows
    <3> QED BY <1>3, <3>1, <3>2
  <2>2. PICK i \in Ids : \E m \in 1..Len(waiters'[i]) : waiters'[i][m] = c
    BY <2>1 DEF QueueInv, WaitingIsRegistered
  <2>3. i # r /\ waiters'[i] = waiters[i]
    BY <1>1, <2>2 DEF Close
  <2>4. PICK m \in 1..Len(waiters[i]) : waiters[i][m] = c
    BY <2>2, <2>3
  <2>5. Len(sent[i]) + m \in 1..Len(pulls[i]) /\ pulls[i][Len(sent[i]) + m] = c
    BY <2>4, WaiterFacts
  <2> HIDE DEF c, k
  <2> QED BY <2>1, <2>3, <2>5 DEF QueueInv, DistinctPulls
<1>11. ClosedIsSettled'
  <2> SUFFICES ASSUME NEW s \in Ids \ openIds', pending[s] # NoCall
               PROVE  /\ status'[pending[s]] \in {"resolved", "rejected"}
                      /\ status'[pending[s]] = "resolved" =>
                           Len(seen[s]) < Len(out) /\ got'[pending[s]] = out[Len(seen[s]) + 1]
    BY <1>1 DEF ClosedIsSettled
  <2>1. pending[s] \in Calls
    BY <1>3
  <2>2. CASE s = r
    BY <1>4, <1>9, <1>10, <2>1, <2>2, OpenAwaits
  <2>3. CASE s # r
    <3>1. /\ status[pending[s]] \in {"resolved", "rejected"}
          /\ status[pending[s]] = "resolved" =>
               Len(seen[s]) < Len(out) /\ got[pending[s]] = out[Len(seen[s]) + 1]
      BY <1>5, <2>3 DEF ReplicaInv, ClosedIsSettled
    <3> QED BY <1>9, <2>1, <3>1
  <2> QED BY <2>2, <2>3
<1>12. SeenIsPrefix' /\ NothingBeforeReplicate' /\ LastResultFinishes'
  BY <1>1, <1>2 DEF ReplicaInv, SeenIsPrefix, NothingBeforeReplicate, LastResultFinishes
<1>13. AbandonedSourceIsReleased'
  BY <1>1, <1>2, <1>5 DEF AbandonedSourceIsReleased
<1> QED BY <1>6, <1>7, <1>8, <1>11, <1>12, <1>13 DEF ReplicaInv

-----------------------------------------------------------------------------
\* Nothing is replicated before replicateAsyncIterator is called.
LEMMA InitKept == ReplicateInit => ReplicateInv
<1> SUFFICES ASSUME ReplicateInit PROVE ReplicateInv
  OBVIOUS
<1>1. QueueInv
  BY InitInv DEF ReplicateInit
<1>2. ReplicateTypeOK
  <2>1. QueueTypeOK
    BY <1>1 DEF QueueInv
  <2>2. /\ loop \in {"none", "idle", "awaiting", "ended"}
        /\ {isSourceFinished, returned, lateNext} \subseteq BOOLEAN
    BY Zenon DEF ReplicateInit
  <2>3. /\ pending \in [Ids -> Calls \cup {NoCall}]
        /\ isDone \in [Ids -> BOOLEAN]
        /\ seen \in [Ids -> Seq(Items)] /\ out \in Seq(Items)
    BY DEF ReplicateInit
  <2> QED BY <2>1, <2>2, <2>3 DEF ReplicateTypeOK
<1>3. OpenUntilDone /\ OpenFollows /\ ClosedIsSettled
  BY DEF ReplicateInit, QueueInit, OpenUntilDone, OpenFollows, ClosedIsSettled
<1>4. SeenIsPrefix /\ NothingBeforeReplicate /\ LastResultFinishes /\ AbandonedSourceIsReleased
  BY DEF ReplicateInit, QueueInit, SeenIsPrefix, NothingBeforeReplicate, LastResultFinishes,
         AbandonedSourceIsReleased
<1> QED BY <1>1, <1>2, <1>3, <1>4 DEF ReplicateInv, ReplicaInv

\* Every step keeps the invariant.
LEMMA NextKept == ReplicateInv /\ [ReplicateNext]_replicatingVars => ReplicateInv'
<1> SUFFICES ASSUME ReplicateInv, [ReplicateNext]_replicatingVars PROVE ReplicateInv'
  OBVIOUS
<1>1. QueueInv /\ ReplicaInv /\ AbandonedSourceIsReleased
  BY DEF ReplicateInv
<1>2. QueueInv'
  BY <1>1, QueueKept DEF ReplicaInv
<1>3. CASE Replicate
  BY <1>1, <1>2, <1>3, ReplicateKept DEF ReplicateInv
<1>4. ASSUME NEW x \in Items, SourceResult(x) PROVE ReplicateInv'
  <2>1. ReplicaInv'
    BY <1>1, <1>2, <1>4, SourceResultKept
  <2>2. openIds' = openIds /\ loop = "awaiting" /\ (isSourceFinished => isSourceFinished')
    BY <1>4 DEF SourceResult, PushAll
  <2>3. AbandonedSourceIsReleased'
    BY <1>1, <2>2 DEF AbandonedSourceIsReleased
  <2> QED BY <1>2, <2>1, <2>3 DEF ReplicateInv
<1>5. ASSUME NEW r \in Ids, CallNext(r) PROVE ReplicateInv'
  <2>1. ReplicaInv'
    BY <1>1, <1>2, <1>5, CallNextKept
  <2>2. openIds' = openIds /\ loop # "none" /\ isSourceFinished' = isSourceFinished
    BY <1>5 DEF CallNext, Pull, PullBuffered, PullWait, PullClosed
  <2>3. AbandonedSourceIsReleased'
    BY <1>1, <2>2 DEF AbandonedSourceIsReleased
  <2> QED BY <1>2, <2>1, <2>3 DEF ReplicateInv
<1>6. ASSUME NEW r \in Ids, Settle(r) PROVE ReplicateInv'
  BY <1>1, <1>2, <1>6, SettleKept DEF ReplicateInv
<1>7. ASSUME NEW r \in Ids, SettleRejected(r) PROVE ReplicateInv'
  <2>1. ReplicaInv'
    BY <1>1, <1>2, <1>7, SettleRejectedKept
  <2>2. AbandonedSourceIsReleased'
    BY <1>1, <1>7 DEF AbandonedSourceIsReleased, SettleRejected, queueVars, loopVars
  <2> QED BY <1>2, <2>1, <2>2 DEF ReplicateInv
<1>8. ASSUME NEW r \in Ids, Return(r) PROVE ReplicateInv'
  BY <1>1, <1>2, <1>8, ReturnKept DEF ReplicateInv
<1>9. CASE UNCHANGED replicatingVars
  <2>1. ReplicaInv'
    BY <1>1, <1>2, <1>9 DEF ReplicaInv, ReplicateTypeOK, OpenUntilDone, OpenFollows, ClosedIsSettled,
         SeenIsPrefix, NothingBeforeReplicate, LastResultFinishes, replicatingVars, queueVars, loopVars,
         replicaVars, QueueInv
  <2>2. AbandonedSourceIsReleased'
    BY <1>1, <1>9 DEF AbandonedSourceIsReleased, replicatingVars, queueVars, loopVars
  <2> QED BY <1>2, <2>1, <2>2 DEF ReplicateInv
<1> QED BY <1>3, <1>4, <1>5, <1>6, <1>7, <1>8, <1>9 DEF ReplicateNext

\* The invariant holds for any number of replicas, results and calls
\* (replicateAsyncIterator).
THEOREM ReplicateInvariant == ReplicateSpec => []ReplicateInv
BY InitKept, NextKept, PTL DEF ReplicateSpec

\* Every replica's consumer sees a prefix of the results of the source, in
\* order (replicateAsyncIterator).
THEOREM ReplicasSeeTheSource == ReplicateSpec => []EveryReplicaSeesTheSource
<1>1. ReplicateInv => EveryReplicaSeesTheSource
  <2> SUFFICES ASSUME ReplicateInv, NEW r \in Ids
               PROVE  seen[r] = SubSeq(out, 1, Len(seen[r]))
    BY DEF EveryReplicaSeesTheSource
  <2> DEFINE s == seen[r]
  <2>1. /\ s \in Seq(Items) /\ out \in Seq(Items) /\ Len(s) <= Len(out)
        /\ \A i \in 1..Len(s) : s[i] = out[i]
    BY DEF ReplicateInv, ReplicaInv, ReplicateTypeOK, SeenIsPrefix
  <2> HIDE DEF s
  <2>2. /\ SubSeq(out, 1, Len(s)) \in Seq(Items)
        /\ Len(SubSeq(out, 1, Len(s))) = Len(s)
        /\ \A i \in 1..Len(s) : SubSeq(out, 1, Len(s))[i] = out[i]
    BY <2>1
  <2>3. s = SubSeq(out, 1, Len(s))
    BY <2>1, <2>2
  <2> QED BY <2>3 DEF s
<1> QED BY <1>1, ReplicateInvariant, PTL

\* A replica that nobody cancelled loses nothing (push to every open replica).
THEOREM ReplicasLoseNothing == ReplicateSpec => []NothingIsLost
<1>1. ReplicateInv => NothingIsLost
  <2> SUFFICES ASSUME ReplicateInv, NEW r \in openIds
               PROVE  Len(out) = Len(seen[r]) + Len(queues[r]) + (IF IsResolved(r) THEN 1 ELSE 0)
    BY DEF NothingIsLost
  <2> DEFINE q == queues[r]  w == waiters[r]  p == pulls[r]  s == seen[r]
  <2>1. r \in Ids /\ QueueInv /\ ReplicaInv
    BY DEF ReplicateInv, QueueInv, QueueTypeOK
  <2>2. q \in Seq(Items) /\ w \in Seq(Calls) /\ p \in Seq(Calls) /\ s \in Seq(Items)
        /\ out \in Seq(Items) /\ sent[r] = out
    BY <2>1 DEF ReplicaInv, ReplicateTypeOK, QueueInv, QueueTypeOK, OpenFollows
  <2>3. Fits(q, w, out, p)
    BY <2>1, <2>2 DEF QueueInv
  <2>4. /\ pending[r] # NoCall => Len(p) = Len(s) + 1
        /\ pending[r] = NoCall => Len(p) = Len(s)
    BY <2>1, <2>2 DEF ReplicaInv, OpenFollows
  <2>5. IsResolved(r) => w = <<>>
    <3> SUFFICES ASSUME IsResolved(r), w # <<>> PROVE FALSE
      OBVIOUS
    <3>1. Len(s) < Len(out) /\ pending[r] # NoCall
      BY <2>1, ResolvedIsNext DEF IsResolved
    <3>2. 1 \in 1..Len(w)
      BY <2>2
    <3>3. Len(out) + 1 \in 1..Len(p)
      BY <2>1, <2>2, <3>2, WaiterFacts
    <3> HIDE DEF q, w, p, s
    <3> QED BY <2>2, <2>4, <3>1, <3>3
  <2>6. pending[r] # NoCall /\ ~IsResolved(r) => Len(w) = 1 /\ q = <<>>
    <3> SUFFICES ASSUME pending[r] # NoCall, ~IsResolved(r) PROVE Len(w) = 1 /\ q = <<>>
      OBVIOUS
    <3>1. p[Len(p)] = pending[r] /\ status[pending[r]] = "waiting" /\ Len(p) = Len(s) + 1
      BY <2>1, OpenAwaits DEF IsResolved, ReplicaInv, OpenFollows
    <3>2. Len(p) \in 1..Len(p)
      BY <2>2, <3>1
    <3>3. Len(p) > Len(out)
      <4> DEFINE n == Len(p)
      <4>1. IF n <= Len(out) THEN status[p[n]] = "resolved" ELSE status[p[n]] = "waiting"
        BY <2>1, <2>2, <3>2 DEF QueueInv, NthPullGetsNthItem
      <4> HIDE DEF p
      <4>2. ~(n <= Len(out))
        BY <3>1, <4>1
      <4> QED BY <2>2, <4>2
    <3>4. Len(s) <= Len(out)
      BY <2>1 DEF ReplicaInv, SeenIsPrefix
    <3> HIDE DEF q, w, p, s
    <3>5. Len(w) = 1 + Len(q) /\ Len(q) \in Nat
      BY <2>2, <2>3, <3>1, <3>3, <3>4 DEF Fits
    <3>6. w # <<>>
      BY <2>2, <3>5
    <3> QED BY <2>2, <2>3, <3>5, <3>6 DEF Fits
  <2>7. pending[r] = NoCall => w = <<>>
    <3> SUFFICES ASSUME pending[r] = NoCall, w # <<>> PROVE FALSE
      OBVIOUS
    <3>1. Len(s) <= Len(out)
      BY <2>1 DEF ReplicaInv, SeenIsPrefix
    <3>2. 1 \in 1..Len(w)
      BY <2>2
    <3>3. Len(out) + 1 \in 1..Len(p)
      BY <2>1, <2>2, <3>2, WaiterFacts
    <3> HIDE DEF q, w, p, s
    <3> QED BY <2>2, <2>4, <3>1, <3>3
  <2>8. IsResolved(r) => pending[r] # NoCall
    BY DEF IsResolved
  <2> HIDE DEF q, w, p, s
  <2>9. w = <<>> => Len(w) = 0
    OBVIOUS
  <2>10. q = <<>> => Len(q) = 0
    OBVIOUS
  <2>11. Len(p) + Len(q) = Len(out) + Len(w) /\ Len(q) \in Nat /\ Len(w) \in Nat
         /\ Len(out) \in Nat /\ Len(s) \in Nat /\ Len(p) \in Nat
    BY <2>2, <2>3 DEF Fits
  <2>12. Len(out) = Len(s) + Len(q) + (IF IsResolved(r) THEN 1 ELSE 0)
    <3>1. CASE pending[r] = NoCall
      BY <2>4, <2>7, <2>8, <2>9, <2>11, <3>1
    <3>2. CASE IsResolved(r)
      BY <2>4, <2>5, <2>8, <2>9, <2>11, <3>2
    <3>3. CASE pending[r] # NoCall /\ ~IsResolved(r)
      <4>1. Len(p) = Len(s) + 1 /\ Len(w) = 1 /\ Len(q) = 0
        BY <2>4, <2>6, <2>10, <3>3
      <4>2. Len(out) = Len(s) + Len(q) + 0
        BY <2>11, <4>1
      <4> QED BY <3>3, <4>2
    <3> QED BY <3>1, <3>2, <3>3
  <2> QED BY <2>12 DEF q, s
<1> QED BY <1>1, ReplicateInvariant, PTL

\* Once the last replica is cleaned up, the source has finished or was told to
\* return (the cleanup of a replica).
THEOREM SourceIsReleased == ReplicateSpec => []AbandonedSourceIsReleased
<1>1. ReplicateInv => AbandonedSourceIsReleased
  BY DEF ReplicateInv
<1> QED BY <1>1, ReplicateInvariant, PTL

\* The source is cancelled only while it runs and when nobody wants more of it
\* (the cleanup of a replica).
THEOREM CancelledWhenAbandoned == ReplicateSpec => CancelOnlyWhenAbandoned
<1> DEFINE A == returned' # returned => returned' /\ openIds' = {} /\ loop # "ended"
<1>1. ReplicateInv /\ [ReplicateNext]_replicatingVars => [A]_replicatingVars
  <2> SUFFICES ASSUME ReplicateInv, ReplicateNext, returned' # returned
               PROVE  returned' /\ openIds' = {} /\ loop # "ended"
    OBVIOUS
  <2>1. PICK r \in Ids : Return(r)
    BY DEF ReplicateNext, Replicate, SourceResult, CallNext, Settle, SettleRejected, loopVars
  <2>2. returned' /\ openIds' = openIds \ {r} /\ openIds \ {r} = {} /\ ~isSourceFinished
    BY <2>1 DEF Return, MustCancel, Close
  <2> QED BY <2>2 DEF ReplicateInv, ReplicaInv, LastResultFinishes
<1> QED BY <1>1, ReplicateInvariant, PTL DEF ReplicateSpec, CancelOnlyWhenAbandoned

\* What the flags say of the log and of the readers.
FlagsInv ==
  /\ isSourceFinished <=> returned \/ Shared!HasEnded
  /\ Shared!HasEnded => loop = "ended"
  /\ returned => \A r \in Ids : isDone[r]

\* One more result of the source ends the log just when it is a last one.
LEMMA EndsWithLast ==
  ASSUME out \in Seq(Items), NEW x \in Items, out' = Append(out, x)
  PROVE  Shared!HasEnded' <=> Shared!HasEnded \/ x \in {Done, Error}
<1>1. Len(out') = Len(out) + 1 /\ Len(out) \in Nat
  OBVIOUS
<1>2. out'[Len(out) + 1] = x
  OBVIOUS
<1>3. \A i \in 1..Len(out) : out'[i] = out[i]
  OBVIOUS
<1> QED BY <1>1, <1>2, <1>3 DEF Shared!HasEnded

LEMMA FlagsKept ==
  ASSUME ReplicateInv, FlagsInv, [ReplicateNext]_replicatingVars PROVE FlagsInv'
<1> USE DEF FlagsInv
<1>1. /\ out \in Seq(Items) /\ isDone \in [Ids -> BOOLEAN] /\ isSourceFinished \in BOOLEAN
      /\ returned \in BOOLEAN
      /\ openIds = IF loop = "none" THEN {} ELSE {r \in Ids : ~isDone[r]}
  BY DEF ReplicateInv, ReplicaInv, ReplicateTypeOK, OpenUntilDone
<1>2. out' = out => (Shared!HasEnded' <=> Shared!HasEnded)
  BY DEF Shared!HasEnded
<1>3. CASE Replicate
  BY <1>2, <1>3 DEF Replicate, replicaVars
<1>4. ASSUME NEW x \in Items, SourceResult(x) PROVE FlagsInv'
  <2>1. /\ loop = "awaiting" /\ out' = Append(out, x) /\ UNCHANGED <<returned, isDone>>
        /\ x \in {Done, Error} => loop' = "ended" /\ isSourceFinished' = TRUE
        /\ x \notin {Done, Error} => UNCHANGED <<loop, isSourceFinished>>
    BY <1>4 DEF SourceResult, replicaVars
  <2>2. Shared!HasEnded' <=> x \in {Done, Error}
    BY <1>1, <2>1, EndsWithLast
  <2>3. ~Shared!HasEnded
    BY <2>1
  <2> QED BY <2>1, <2>2, <2>3
<1>5. ASSUME NEW r \in Ids, CallNext(r) PROVE FlagsInv'
  <2>1. /\ UNCHANGED <<isSourceFinished, returned, out, isDone>>
        /\ loop' = IF loop = "idle" THEN "awaiting" ELSE loop
    BY <1>5 DEF CallNext, Start
  <2> QED BY <1>2, <2>1
<1>6. ASSUME NEW r \in Ids, Settle(r) PROVE FlagsInv'
  <2>1. UNCHANGED <<loop, isSourceFinished, returned, out>>
    BY <1>6 DEF Settle, loopVars
  <2>2. \A s \in Ids : isDone[s] => isDone'[s]
    BY <1>1, <1>6 DEF Settle
  <2> QED BY <1>2, <2>1, <2>2
<1>7. ASSUME NEW r \in Ids, SettleRejected(r) PROVE FlagsInv'
  BY <1>2, <1>7 DEF SettleRejected, loopVars
<1>8. ASSUME NEW r \in Ids, Return(r) PROVE FlagsInv'
  <2>1. /\ loop # "none" /\ ~isDone[r] /\ UNCHANGED <<loop, out>>
        /\ isDone' = [isDone EXCEPT ![r] = TRUE]
    BY <1>8 DEF Return
  <2>2. CASE MustCancel(r)
    <3>1. isSourceFinished' = TRUE /\ returned' = TRUE
      BY <1>8, <2>2 DEF Return
    <3>2. \A s \in Ids : isDone'[s]
      BY <1>1, <2>1, <2>2 DEF MustCancel
    <3> QED BY <1>2, <2>1, <3>1, <3>2
  <2>3. CASE ~MustCancel(r)
    <3>1. UNCHANGED <<isSourceFinished, returned>>
      BY <1>8, <2>3 DEF Return
    <3>2. ~returned
      BY <2>1
    <3> QED BY <1>2, <2>1, <3>1, <3>2
  <2> QED BY <2>2, <2>3
<1>9. CASE UNCHANGED replicatingVars
  BY <1>2, <1>9 DEF replicatingVars, loopVars, replicaVars
<1> QED BY <1>3, <1>4, <1>5, <1>6, <1>7, <1>8, <1>9 DEF ReplicateNext

\* Every step of replication is a step of a broadcast, or none (the loop of
\* start, next and return of a replica).
LEMMA StepIsShared ==
  ASSUME ReplicateInv, FlagsInv, [ReplicateNext]_replicatingVars
  PROVE  [Shared!BroadcastNext]_<<out, seen, {r \in Ids : ~isDone[r]}, returned>>
<1>1. /\ out \in Seq(Items) /\ isDone \in [Ids -> BOOLEAN] /\ isSourceFinished \in BOOLEAN
      /\ returned \in BOOLEAN /\ seen \in [Ids -> Seq(Items)]
      /\ openIds = IF loop = "none" THEN {} ELSE {r \in Ids : ~isDone[r]}
      /\ QueueInv /\ ReplicaInv
  BY DEF ReplicateInv, ReplicaInv, ReplicateTypeOK, OpenUntilDone
<1>2. CASE Replicate
  BY <1>2 DEF Replicate, replicaVars
<1>3. ASSUME NEW x \in Items, SourceResult(x) PROVE Shared!BroadcastNext
  <2>1. loop = "awaiting" /\ out' = Append(out, x) /\ UNCHANGED <<returned, isDone, seen>>
    BY <1>3 DEF SourceResult, replicaVars
  <2>2. Shared!Yield(x)
    BY <2>1 DEF Shared!Yield, FlagsInv
  <2> QED BY <2>2 DEF Shared!BroadcastNext
<1>4. ASSUME NEW r \in Ids, CallNext(r)
      PROVE  UNCHANGED <<out, seen, {s \in Ids : ~isDone[s]}, returned>>
  BY <1>4 DEF CallNext
<1>5. ASSUME NEW r \in Ids, Settle(r) PROVE Shared!BroadcastNext
  <2> DEFINE x == got[pending[r]]
  <2>1. /\ IsResolved(r) /\ UNCHANGED <<returned, out>>
        /\ seen' = [seen EXCEPT ![r] = Append(@, x)]
        /\ isDone' = [isDone EXCEPT ![r] = @ \/ x \in {Done, Error}]
    BY <1>5 DEF Settle, loopVars
  <2>2. Len(seen[r]) < Len(out) /\ x = out[Len(seen[r]) + 1]
    BY <1>1, <2>1, ResolvedIsNext
  <2>3. {s \in Ids : ~isDone'[s]} = IF x \in {Done, Error} THEN {s \in Ids : ~isDone[s]} \ {r}
                                    ELSE {s \in Ids : ~isDone[s]}
    BY <1>1, <2>1
  <2>4. Shared!Read(r)
    BY <2>1, <2>2, <2>3 DEF Shared!Read
  <2> QED BY <2>4 DEF Shared!BroadcastNext
<1>6. ASSUME NEW r \in Ids, SettleRejected(r)
      PROVE  UNCHANGED <<out, seen, {s \in Ids : ~isDone[s]}, returned>>
  BY <1>6 DEF SettleRejected, loopVars
<1>7. ASSUME NEW r \in Ids, Return(r) PROVE Shared!BroadcastNext
  <2>1. /\ loop # "none" /\ ~isDone[r] /\ UNCHANGED <<out, seen>>
        /\ isDone' = [isDone EXCEPT ![r] = TRUE]
        /\ IF MustCancel(r) THEN returned' = TRUE ELSE returned' = returned
    BY <1>7 DEF Return
  <2>2. {s \in Ids : ~isDone'[s]} = {s \in Ids : ~isDone[s]} \ {r}
    BY <1>1, <2>1
  <2>3. ~returned /\ (isSourceFinished <=> Shared!HasEnded)
    BY <2>1 DEF FlagsInv
  <2>4. MustCancel(r) <=> {s \in Ids : ~isDone'[s]} = {} /\ ~Shared!HasEnded
    BY <1>1, <2>1, <2>2, <2>3 DEF MustCancel
  <2>5. returned' = ({s \in Ids : ~isDone'[s]} = {} /\ ~Shared!HasEnded)
    BY <1>1, <2>1, <2>3, <2>4 DEF Shared!HasEnded
  <2>6. Shared!Leave(r)
    BY <2>1, <2>2, <2>5 DEF Shared!Leave
  <2> QED BY <2>6 DEF Shared!BroadcastNext
<1>8. CASE UNCHANGED replicatingVars
  BY <1>8 DEF replicatingVars, loopVars, replicaVars
<1> QED BY <1>2, <1>3, <1>4, <1>5, <1>6, <1>7, <1>8 DEF ReplicateNext

\* Replication implements a broadcast, for any number of replicas and results:
\* what Broadcast says of its readers and of its source is true of the replicas
\* (replicateAsyncIterator).
THEOREM ReplicationIsABroadcast == ReplicateSpec => ReplicasShareTheSource
<1>1. ReplicateInit => FlagsInv /\ Shared!BroadcastInit
  BY DEF ReplicateInit, FlagsInv, Shared!BroadcastInit, Shared!HasEnded
<1>2. ReplicateInv /\ FlagsInv /\ [ReplicateNext]_replicatingVars => FlagsInv'
  BY FlagsKept
<1>3. ReplicateSpec => []FlagsInv
  BY <1>1, <1>2, ReplicateInvariant, PTL DEF ReplicateSpec
<1>4. ReplicateInv /\ FlagsInv /\ [ReplicateNext]_replicatingVars
        => [Shared!BroadcastNext]_Shared!broadcastVars
  BY StepIsShared DEF Shared!broadcastVars
<1> QED BY <1>1, <1>3, <1>4, ReplicateInvariant, PTL
       DEF ReplicateSpec, ReplicasShareTheSource, Shared!BroadcastSpec

-----------------------------------------------------------------------------
(* Uploads.  Why the files are there as long as they can be wanted: nobody    *)
(* reads a response after the removal but the one read that a cancelled       *)
(* stream leaves behind.                                                     *)

\* What went where is within its limits, and a body of one kind is counted as one.
SpentWithin ==
  /\ counted \in Nat /\ spent \in [memory : Nat, file : Nat, stream : Nat]
  /\ \A category \in {"memory", "file", "stream"} : spent[category] <= BodyLimits[category]
  /\ hint = "json" => spent.memory = counted
  /\ hint = "octet-stream" => spent.stream = counted

\* Files are made in the directory.
FilesHaveDir ==
  /\ tmpPath # NoPath => dir # "none"
  /\ dir = "none" => onDisk = {} /\ input = {}

\* What the procedure has got is there until the removal, which waits for the response.
FilesAreThere == task \in {"called", "reading", "handling", "streaming"} => input \subseteq onDisk

\* Only a response that streams is read, and it is over before the removal unless it is a
\* stream that was cancelled.
ReadsStream ==
  /\ task \in {"called", "reading", "handling"} => ~pulling /\ ~cancelled
  /\ task = "streaming" => body \in {"iterator", "stream"}
  /\ pulling => task = "streaming" \/ (body = "stream" /\ cancelled)

\* Only a form and a file have parts, and only while they are read.
PartsAreRead == piece # "none" => task = "reading" /\ hint \in {"form-data", "file"}

NothingIsLeft == task = "over" => onDisk = {} \/ kept

UploadInv ==
  SpentWithin /\ FilesHaveDir /\ FilesAreThere /\ ReadsStream /\ PartsAreRead /\ NothingIsLeft

LEMMA UploadStarts == UploadInit => UploadInv
<1> SUFFICES ASSUME UploadInit PROVE UploadInv
  OBVIOUS
<1> USE UploadAssumption DEF UploadInit
<1>1. SpentWithin
  BY DEF SpentWithin
<1>2. FilesHaveDir /\ FilesAreThere
  BY DEF FilesHaveDir, FilesAreThere
<1>3. ReadsStream /\ PartsAreRead /\ NothingIsLeft
  BY DEF ReadsStream, PartsAreRead, NothingIsLeft
<1> QED BY <1>1, <1>2, <1>3 DEF UploadInv

LEMMA SpentStep == UploadInv /\ [UploadNext]_uploadVars => SpentWithin'
<1> SUFFICES ASSUME UploadInv, [UploadNext]_uploadVars PROVE SpentWithin'
  OBVIOUS
<1>0. SpentWithin /\ PartsAreRead
  BY DEF UploadInv
<1> USE <1>0, UploadAssumption DEF SpentWithin
<1>1. CASE UNCHANGED <<hint, counted, spent>>
  BY <1>1
<1>2. ASSUME NEW declared, NEW isStream \in BOOLEAN, ResolveBody(declared, isStream)
      PROVE  SpentWithin'
  BY <1>2 DEF ResolveBody
<1>3. CASE ReadFraming
  BY <1>3 DEF ReadFraming, FitsInAll, TotalLimit, Category, Refused
<1>4. CASE WriteField
  BY <1>4 DEF WriteField, PartsAreRead, FitsIn, Refused
<1>5. CASE ReadStream
  BY <1>5 DEF ReadStream, FitsInAll, TotalLimit, Category
<1>6. ASSUME NEW works \in BOOLEAN, WriteFile(works) PROVE SpentWithin'
  BY <1>6 DEF WriteFile, PartsAreRead, FitsIn, Refused
<1> HIDE <1>0, UploadAssumption DEF SpentWithin
<1> QED
  BY <1>1, <1>2, <1>3, <1>4, <1>5, <1>6
     DEF UploadNext, uploadVars, NotResolved, BeginPart, BeginFile, EndPart, CleanUp, EndBody, RespondWith,
         ReadResponse, ReadEnds, Cancel

LEMMA FilesStep ==
  UploadInv /\ [UploadNext]_uploadVars => FilesHaveDir' /\ FilesAreThere' /\ ReadsStream' /\ PartsAreRead' /\ NothingIsLeft'
<1> SUFFICES ASSUME UploadInv, [UploadNext]_uploadVars
             PROVE  FilesHaveDir' /\ FilesAreThere' /\ ReadsStream' /\ PartsAreRead' /\ NothingIsLeft'
  OBVIOUS
<1>0. FilesHaveDir /\ FilesAreThere /\ ReadsStream /\ PartsAreRead /\ NothingIsLeft
  BY DEF UploadInv
<1> USE <1>0 DEF FilesHaveDir, FilesAreThere, ReadsStream, PartsAreRead, NothingIsLeft, AnswerNow
<1>1. CASE NotResolved
  BY <1>1 DEF NotResolved
<1>2. ASSUME NEW declared, NEW isStream \in BOOLEAN, ResolveBody(declared, isStream)
      PROVE  FilesHaveDir' /\ FilesAreThere' /\ ReadsStream' /\ PartsAreRead' /\ NothingIsLeft'
  BY <1>2 DEF ResolveBody
<1>3. CASE ReadFraming
  BY <1>3 DEF ReadFraming, Refused
<1>4. CASE WriteField
  BY <1>4 DEF WriteField, Refused
<1>5. CASE ReadStream
  BY <1>5 DEF ReadStream
<1>6. ASSUME NEW p, BeginPart(p)
      PROVE  FilesHaveDir' /\ FilesAreThere' /\ ReadsStream' /\ PartsAreRead' /\ NothingIsLeft'
  BY <1>6 DEF BeginPart
<1>7. ASSUME NEW works \in BOOLEAN, BeginFile(works)
      PROVE  FilesHaveDir' /\ FilesAreThere' /\ ReadsStream' /\ PartsAreRead' /\ NothingIsLeft'
  BY <1>7 DEF BeginFile, Allocate, AllocateFails
<1>8. ASSUME NEW works \in BOOLEAN, WriteFile(works)
      PROVE  FilesHaveDir' /\ FilesAreThere' /\ ReadsStream' /\ PartsAreRead' /\ NothingIsLeft'
  BY <1>8 DEF WriteFile, Allocate, AllocateFails, Refused
<1>9. ASSUME NEW works \in BOOLEAN, EndPart(works)
      PROVE  FilesHaveDir' /\ FilesAreThere' /\ ReadsStream' /\ PartsAreRead' /\ NothingIsLeft'
  BY <1>9 DEF EndPart, Allocate, AllocateFails
<1>10. ASSUME NEW works \in BOOLEAN, CleanUp(works)
       PROVE  FilesHaveDir' /\ FilesAreThere' /\ ReadsStream' /\ PartsAreRead' /\ NothingIsLeft'
  BY <1>10 DEF CleanUp, Deferred
<1>11. ASSUME NEW complete \in BOOLEAN, EndBody(complete)
       PROVE  FilesHaveDir' /\ FilesAreThere' /\ ReadsStream' /\ PartsAreRead' /\ NothingIsLeft'
  BY <1>11 DEF EndBody
<1>12. ASSUME NEW b \in {"plain", "iterator", "stream"}, RespondWith(b)
       PROVE  FilesHaveDir' /\ FilesAreThere' /\ ReadsStream' /\ PartsAreRead' /\ NothingIsLeft'
  BY <1>12 DEF RespondWith, Deferred
<1>13. CASE ReadResponse
  BY <1>13 DEF ReadResponse
<1>14. ASSUME NEW last \in BOOLEAN, ReadEnds(last)
       PROVE  FilesHaveDir' /\ FilesAreThere' /\ ReadsStream' /\ PartsAreRead' /\ NothingIsLeft'
  BY <1>14 DEF ReadEnds, Deferred
<1>15. CASE Cancel
  BY <1>15 DEF Cancel, Deferred
<1>16. CASE UNCHANGED uploadVars
  BY <1>16 DEF uploadVars
<1> HIDE <1>0 DEF FilesHaveDir, FilesAreThere, ReadsStream, PartsAreRead, NothingIsLeft, AnswerNow
<1> QED
  BY <1>1, <1>2, <1>3, <1>4, <1>5, <1>6, <1>7, <1>8, <1>9, <1>10, <1>11, <1>12, <1>13, <1>14, <1>15, <1>16
     DEF UploadNext

\* What the files of a request have to do with its body, its task and its response at any
\* time: the inductive invariant.
THEOREM UploadInvariant == UploadInit /\ [][UploadNext]_uploadVars => []UploadInv
<1>1. UploadInv /\ [UploadNext]_uploadVars => UploadInv'
  BY SpentStep, FilesStep DEF UploadInv
<1> QED BY <1>1, UploadStarts, PTL

\* Files are there while the procedure can want them, and gone when the request is over, and
\* no limit is exceeded, for any limits, body and number of files (init, RequestTmpFiles).
THEOREM FilesServe == UploadInit /\ [][UploadNext]_uploadVars => []FilesServeTheRequest
<1>1. UploadInv => FilesServeTheRequest
  BY DEF UploadInv, SpentWithin, FilesAreThere, ReadsStream, NothingIsLeft, FilesServeTheRequest
<1> QED BY <1>1, UploadInvariant, PTL

-----------------------------------------------------------------------------
(* Static files.  Why a download is one version: whatever is resumed is tied  *)
(* to the version of the bytes that the client has, and a range starts where  *)
(* these end.                                                               *)

\* The bytes of an answer, and those that a client has.
ReadBytes == [of : Versions \cup {Nothing}, at : Int]
Downloaded == [of : Versions \cup {Nothing}, at : Int, tie : {"same", "same second", "not newer"}]

\* What a path has is a version, a directory or nothing.
DiskIsOfFiles == disk \in [DOMAIN disk -> Versions \cup {Absent, Folder}]

\* What a byte may be of, as it is tied to the version that the client has.
TiedTo(version, tie, tag) ==
  /\ tie = "same" => version = tag
  /\ tie = "same second" => Second(version.mtime) = Second(tag.mtime)
  /\ tie = "not newer" => Second(version.mtime) <= Second(tag.mtime)

\* What the client has: the bytes of one version from the first, as they are tied to it.
StoredIsOneVersion ==
  stored # Nothing =>
    /\ stored \in [tag : Versions, bytes : Seq(Downloaded), slash : BOOLEAN, accepts : SUBSET ToSet(Encodings)]
    /\ \A i \in DOMAIN stored.bytes :
         /\ stored.bytes[i].at = i - 1
         /\ stored.bytes[i].of # Nothing => TiedTo(stored.bytes[i].of, stored.bytes[i].tie, stored.tag)

\* A request for the rest is for all of it, with one validator of what the client has.
Resumes ==
  LET Validator(weak) == [tag |-> stored.tag, weak |-> weak]
      second == Second(stored.tag.mtime) IN
  /\ request.range = <<Len(stored.bytes), -1>>
  /\ \/ /\ request.match \in {Validator(weak) : weak \in BOOLEAN}
        /\ request.unmodified = Nothing /\ request.ifRange = Nothing
     \/ request.match = Nothing /\ request.unmodified = second /\ request.ifRange = Nothing
     \/ /\ request.match = Nothing /\ request.unmodified = Nothing
        /\ request.ifRange \in {Validator(weak) : weak \in BOOLEAN} \cup {[second |-> second]}

\* What is asked: something new, or about what the client has.
RequestIsAboutStored ==
  /\ request.slash \in BOOLEAN /\ request.accepts \in SUBSET ToSet(Encodings)
  /\ request.range \in Ranges \cup {Nothing}
  /\ stored = Nothing => /\ request.match = Nothing /\ request.unmodified = Nothing /\ request.ifRange = Nothing
                         /\ request.noneMatch = Nothing /\ request.modified = Nothing
  /\ stored # Nothing => /\ request.noneMatch # Nothing => request.noneMatch.tag = stored.tag
                         /\ request.modified # Nothing => request.modified = Second(stored.tag.mtime)
                         /\ request.range # Nothing => Resumes

\* The bytes of an answer are those of its version at their places, or of none.
BytesAreItsOwn ==
  \A i \in DOMAIN answer.bytes :
    answer.bytes[i].at = answer.start + i - 1 /\ answer.bytes[i].of \in {Nothing, answer.tag}

\* A range is within its file and, when the client has something, the rest of that.
RangeIsTheRest ==
  answer.status = 206 =>
    /\ 0 <= answer.start /\ answer.start <= answer.end /\ answer.end < answer.tag.size
    /\ stored # Nothing => answer.start = Len(stored.bytes) /\ TiedTo(answer.tag, Tie, stored.tag)

AnswerIsOfAVersion ==
  /\ answer \in [status : Nat, tag : Versions \cup {Nothing}, start : Int, end : Int, bytes : Seq(ReadBytes)]
  /\ answer.status \in {200, 206} => answer.tag \in Versions
  /\ answer.status = 200 => answer.start = 0
  /\ BytesAreItsOwn /\ RangeIsTheRest /\ StillGood

\* Where serve is.
ServeHasFound ==
  /\ stage \in {"idle", "looking", "fallback", "negotiating"} => answer = NoAnswer
  /\ stage \in {"negotiating", "opening"} => found.version \in Versions
  /\ stage = "opening" => answer.status \in {200, 206} /\ answer.tag = found.version

StaticInv ==
  DiskIsOfFiles /\ StoredIsOneVersion /\ RequestIsAboutStored /\ AnswerIsOfAVersion /\ ServeHasFound

-----------------------------------------------------------------------------
(* What serve answers about a version *)

LEMMA SecondIsNumber == \A version \in Versions : version.mtime \in Nat /\ Second(version.mtime) \in Nat /\ version.size \in Nat
<1> SUFFICES ASSUME NEW version \in Versions
             PROVE  version.mtime \in Nat /\ Second(version.mtime) \in Nat /\ version.size \in Nat
  OBVIOUS
<1>1. version.mtime \in Nat /\ version.size \in Nat
  BY StaticAssumption DEF Versions
<1> QED BY <1>1 DEF Second

LEMMA TiedToItself == \A version \in Versions : \A tie : TiedTo(version, tie, version)
<1> SUFFICES ASSUME NEW version \in Versions, NEW tie PROVE TiedTo(version, tie, version)
  OBVIOUS
<1>1. PICK second \in Nat : second = Second(version.mtime)
  BY SecondIsNumber
<1>2. second <= second
  OBVIOUS
<1> QED BY <1>1, <1>2, Zenon DEF TiedTo

\* What is read of a range is within the file, and from the first byte to the end if it
\* says no more.
LEMMA RangeIsWithin ==
  ASSUME NEW first \in Int, first >= -1, NEW last \in Int, last >= -1, NEW size \in Nat,
         NEW parsed, parsed = ParseByteRange(first, last, size), parsed \notin {Nothing, Unsatisfiable}
  PROVE  /\ parsed[1] \in Int /\ parsed[2] \in Int
         /\ 0 <= parsed[1] /\ parsed[1] <= parsed[2] /\ parsed[2] < size
         /\ first >= 0 => parsed[1] = first
<1>1. CASE first = -1
  BY <1>1 DEF ParseByteRange, Greatest
<1>2. CASE first # -1
  BY <1>2 DEF ParseByteRange, Least
<1> QED BY <1>1, <1>2

\* A response that carries the rest is of a version that the validator allows.
LEMMA RestIsTied ==
  ASSUME stored \in [tag : Versions, bytes : Seq(Downloaded), slash : BOOLEAN, accepts : SUBSET ToSet(Encodings)],
         Resumes, NEW version \in Versions,
         ~IsPreconditionFailed(version), IsRangeApplicable(version)
  PROVE  TiedTo(version, Tie, stored.tag)
<1> DEFINE Validator(weak) == [tag |-> stored.tag, weak |-> weak]
           second == Second(stored.tag.mtime)
<1>1. stored.tag \in Versions /\ second \in Nat /\ Second(version.mtime) \in Nat
  BY SecondIsNumber
<1>2. /\ \A weak \in BOOLEAN : Validator(weak) # Nothing
      /\ [second |-> second] # Nothing /\ second # Nothing
  BY <1>1, StaticAssumption
<1>3. version = stored.tag => TiedTo(version, Tie, stored.tag)
  BY TiedToItself
<1>4. ASSUME NEW weak \in BOOLEAN, Validator(weak) = [tag |-> version, weak |-> FALSE]
      PROVE  version = stored.tag
  BY <1>4
<1>5. CASE request.match \in {Validator(weak) : weak \in BOOLEAN}
  <2>1. PICK weak \in BOOLEAN : request.match = Validator(weak)
    BY <1>5
  <2>2. request.match # Nothing
    BY <2>1, <1>2
  <2>3. Validator(weak) = [tag |-> version, weak |-> FALSE]
    BY <2>1, <2>2 DEF IsPreconditionFailed
  <2> QED BY <2>3, <1>3, <1>4
<1>6. CASE request.match = Nothing /\ request.unmodified = second /\ request.ifRange = Nothing
  <2>1. Second(version.mtime) <= second
    BY <1>6, <1>1, <1>2 DEF IsPreconditionFailed
  <2>2. Tie = "not newer"
    BY <1>6, <1>2 DEF Tie
  <2> QED BY <2>1, <2>2 DEF TiedTo
<1>7. CASE request.ifRange \in {Validator(weak) : weak \in BOOLEAN}
  <2>1. PICK weak \in BOOLEAN : request.ifRange = Validator(weak)
    BY <1>7
  <2>2. request.ifRange # Nothing /\ "tag" \in DOMAIN request.ifRange
    BY <2>1, <1>2
  <2>3. Validator(weak) = [tag |-> version, weak |-> FALSE]
    BY <2>1, <2>2 DEF IsRangeApplicable
  <2> QED BY <2>3, <1>3, <1>4
<1>8. CASE request.unmodified = Nothing /\ request.ifRange = [second |-> second]
  <2>1. request.ifRange # Nothing /\ DOMAIN request.ifRange = {"second"} /\ request.ifRange.second = second
    BY <1>8, <1>2
  <2>2. "tag" \notin DOMAIN request.ifRange /\ "second" \in DOMAIN request.ifRange
    BY <2>1
  <2>3. second = Second(version.mtime)
    BY <2>1, <2>2 DEF IsRangeApplicable
  <2>4. Tie = "same second"
    BY <2>1, <2>2, <1>8 DEF Tie
  <2> QED BY <2>3, <2>4 DEF TiedTo
<1> QED BY <1>5, <1>6, <1>7, <1>8 DEF Resumes

\* Until a file is read the bytes of an answer are none.
LEMMA StatusOnlyIs ==
  \A code, version : StatusOnly(code, version) =
    [status |-> code, tag |-> version, start |-> 0, end |-> -1, bytes |-> <<>>]
<1> SUFFICES ASSUME NEW code, NEW version
             PROVE  StatusOnly(code, version) =
                      [status |-> code, tag |-> version, start |-> 0, end |-> -1, bytes |-> <<>>]
  OBVIOUS
<1> DEFINE coded == [NoAnswer EXCEPT !.status = code]
<1>1. coded = [status |-> code, tag |-> Nothing, start |-> 0, end |-> -1, bytes |-> <<>>]
  BY DEF NoAnswer
<1>2. StatusOnly(code, version) = [coded EXCEPT !.tag = version]
  BY DEF StatusOnly, NoAnswer
<1> HIDE DEF coded
<1> QED BY <1>1, <1>2

LEMMA RespondIsOfAVersion ==
  ASSUME StoredIsOneVersion, RequestIsAboutStored, answer = NoAnswer, UNCHANGED <<request, stored>>,
         NEW path, NEW version \in Versions, Respond(path, version)
  PROVE  AnswerIsOfAVersion' /\ ServeHasFound'
<1> DEFINE parsed == IF request.method = "GET" /\ request.range # Nothing /\ IsRangeApplicable(version)
                       THEN ParseByteRange(request.range[1], request.range[2], version.size) ELSE Nothing
           whole == [StatusOnly(200, version) EXCEPT !.end = version.size - 1]
           part == [whole EXCEPT !.status = 206, !.start = parsed[1], !.end = parsed[2]]
<1>1. version.size \in Nat /\ Second(version.mtime) \in Nat
  BY SecondIsNumber
<1>2. /\ whole = [status |-> 200, tag |-> version, start |-> 0, end |-> version.size - 1, bytes |-> <<>>]
      /\ part = [status |-> 206, tag |-> version, start |-> parsed[1], end |-> parsed[2], bytes |-> <<>>]
  <2> DEFINE ok == StatusOnly(200, version)
             partial == [whole EXCEPT !.status = 206]
             begun == [partial EXCEPT !.start = parsed[1]]
  <2> HIDE DEF parsed
  <2>1. ok = [status |-> 200, tag |-> version, start |-> 0, end |-> -1, bytes |-> <<>>]
    BY StatusOnlyIs
  <2>2. whole = [ok EXCEPT !.end = version.size - 1]
    OBVIOUS
  <2> HIDE DEF ok
  <2>3. whole = [status |-> 200, tag |-> version, start |-> 0, end |-> version.size - 1, bytes |-> <<>>]
    BY <2>1, <2>2
  <2> HIDE DEF whole
  <2>4. partial = [status |-> 206, tag |-> version, start |-> 0, end |-> version.size - 1, bytes |-> <<>>]
    BY <2>3
  <2>5. part = [begun EXCEPT !.end = parsed[2]]
    BY <2>3
  <2> HIDE DEF partial
  <2>6. begun = [status |-> 206, tag |-> version, start |-> parsed[1], end |-> version.size - 1, bytes |-> <<>>]
    BY <2>4
  <2> HIDE DEF begun, part
  <2>7. part = [status |-> 206, tag |-> version, start |-> parsed[1], end |-> parsed[2], bytes |-> <<>>]
    BY <2>5, <2>6
  <2> QED BY <2>3, <2>7
<1>3. found' = [path |-> path, version |-> version]
  BY DEF Respond
<1>4. ASSUME NEW code \in {412, 304, 416}, answer' = StatusOnly(code, version), stage' = "answered",
             code = 304 => IsRequestFresh(version)
      PROVE  AnswerIsOfAVersion' /\ ServeHasFound'
  <2>1. answer' = [status |-> code, tag |-> version, start |-> 0, end |-> -1, bytes |-> <<>>]
    BY <1>4, StatusOnlyIs
  <2>2. StillGood'
    <3>1. answer.status' = code /\ answer.tag' = version
      BY <2>1
    <3>2. ASSUME code = 304 PROVE IF request.noneMatch # Nothing THEN version = stored.tag
                                  ELSE Second(version.mtime) <= Second(stored.tag.mtime)
      <4>1. CASE request.noneMatch # Nothing
        BY <1>4, <3>2, <4>1 DEF IsRequestFresh, RequestIsAboutStored
      <4>2. CASE request.noneMatch = Nothing
        BY <1>4, <3>2, <4>2 DEF IsRequestFresh, RequestIsAboutStored
      <4> QED BY <4>1, <4>2
    <3> QED BY <3>1, <3>2 DEF StillGood
  <2>3. AnswerIsOfAVersion'
    BY <2>1, <2>2 DEF AnswerIsOfAVersion, BytesAreItsOwn, RangeIsTheRest
  <2> QED BY <2>3, <1>4 DEF ServeHasFound
<1>5. ASSUME answer' = whole, stage' \in {"answered", "opening"}
      PROVE  AnswerIsOfAVersion' /\ ServeHasFound'
  <2>0. answer' = [status |-> 200, tag |-> version, start |-> 0, end |-> version.size - 1, bytes |-> <<>>]
    BY <1>2, <1>5
  <2> HIDE DEF whole, part, parsed
  <2>1. AnswerIsOfAVersion'
    BY <1>1, <2>0 DEF AnswerIsOfAVersion, BytesAreItsOwn, RangeIsTheRest, StillGood
  <2> QED BY <2>0, <2>1, <1>3, <1>5 DEF ServeHasFound
<1>6. ASSUME answer' = part, stage' \in {"answered", "opening"}, ~IsPreconditionFailed(version),
             parsed \notin {Nothing, Unsatisfiable}
      PROVE  AnswerIsOfAVersion' /\ ServeHasFound'
  <2>1. request.range # Nothing /\ IsRangeApplicable(version)
    BY <1>6
  <2>2. PICK first \in -1..MaxSize, last \in -1..MaxSize : request.range = <<first, last>>
    BY <2>1 DEF RequestIsAboutStored, Ranges
  <2>3. first \in Int /\ last \in Int /\ first >= -1 /\ last >= -1
    BY StaticAssumption
  <2>4. parsed = ParseByteRange(first, last, version.size)
    BY <1>6, <2>1, <2>2
  <2> HIDE DEF parsed
  <2>5. /\ parsed[1] \in Int /\ parsed[2] \in Int
        /\ 0 <= parsed[1] /\ parsed[1] <= parsed[2] /\ parsed[2] < version.size
        /\ first >= 0 => parsed[1] = first
    BY <1>1, <1>6, <2>3, <2>4, RangeIsWithin
  <2>6. ASSUME stored # Nothing
        PROVE  parsed[1] = Len(stored.bytes) /\ TiedTo(version, Tie, stored.tag)
    <3>1. Resumes /\ stored \in [tag : Versions, bytes : Seq(Downloaded), slash : BOOLEAN, accepts : SUBSET ToSet(Encodings)]
      BY <2>1, <2>6 DEF RequestIsAboutStored, StoredIsOneVersion
    <3>2. first = Len(stored.bytes) /\ first >= 0
      BY <3>1, <2>2 DEF Resumes
    <3> QED BY <3>1, <3>2, <2>1, <2>5, <1>6, RestIsTied
  <2>7. answer' = [status |-> 206, tag |-> version, start |-> parsed[1], end |-> parsed[2], bytes |-> <<>>]
    BY <1>2, <1>6
  <2>8. RangeIsTheRest'
    BY <2>5, <2>6, <2>7 DEF RangeIsTheRest, Tie
  <2>9. AnswerIsOfAVersion'
    BY <2>5, <2>7, <2>8 DEF AnswerIsOfAVersion, BytesAreItsOwn, StillGood
  <2> QED BY <2>7, <2>9, <1>3, <1>6 DEF ServeHasFound
<1> QED
  <2>1. CASE IsPreconditionFailed(version)
    BY <2>1, <1>4 DEF Respond
  <2>2. CASE ~IsPreconditionFailed(version) /\ IsRequestFresh(version)
    BY <2>2, <1>4 DEF Respond
  <2>3. CASE ~IsPreconditionFailed(version) /\ ~IsRequestFresh(version) /\ parsed = Unsatisfiable
    BY <2>3, <1>4, StaticAssumption DEF Respond
  <2>4. CASE ~IsPreconditionFailed(version) /\ ~IsRequestFresh(version) /\ parsed # Unsatisfiable /\ parsed = Nothing
    BY <2>4, <1>5 DEF Respond
  <2>5. CASE /\ ~IsPreconditionFailed(version) /\ ~IsRequestFresh(version)
             /\ parsed \notin {Nothing, Unsatisfiable}
    BY <2>5, <1>6 DEF Respond
  <2> QED BY <2>1, <2>2, <2>3, <2>4, <2>5

-----------------------------------------------------------------------------
(* The steps *)

LEMMA AtIsAVersion == \A path : DiskIsOfFiles /\ IsFile(At(path)) => At(path) \in Versions
  BY DEF DiskIsOfFiles, IsFile, At

\* What only the client and its request say outlives a step of serve.
LEMMA ClientIsKept ==
  ASSUME StoredIsOneVersion, RequestIsAboutStored, UNCHANGED <<request, stored>>
  PROVE  StoredIsOneVersion' /\ RequestIsAboutStored'
<1>1. StoredIsOneVersion'
  BY DEF StoredIsOneVersion
<1>2. RequestIsAboutStored'
  BY DEF RequestIsAboutStored, Resumes
<1> QED BY <1>1, <1>2

LEMMA AnswerIsKept ==
  ASSUME AnswerIsOfAVersion, UNCHANGED <<request, stored, answer>>
  PROVE  AnswerIsOfAVersion'
<1>1. Tie' = Tie
  BY DEF Tie
<1>2. BytesAreItsOwn'
  BY DEF AnswerIsOfAVersion, BytesAreItsOwn
<1>3. RangeIsTheRest'
  BY <1>1 DEF AnswerIsOfAVersion, RangeIsTheRest
<1>4. StillGood'
  BY DEF AnswerIsOfAVersion, StillGood
<1> QED BY <1>2, <1>3, <1>4 DEF AnswerIsOfAVersion

LEMMA NoAnswerIsFine == ASSUME answer' = NoAnswer PROVE AnswerIsOfAVersion'
<1>1. answer' = [status |-> 0, tag |-> Nothing, start |-> 0, end |-> -1, bytes |-> <<>>]
  BY DEF NoAnswer
<1> QED BY <1>1 DEF AnswerIsOfAVersion, BytesAreItsOwn, RangeIsTheRest, StillGood

LEMMA StaticStarts == StaticInit => StaticInv
<1> SUFFICES ASSUME StaticInit PROVE StaticInv
  OBVIOUS
<1>1. DiskIsOfFiles
  BY StaticAssumption DEF StaticInit, DiskIsOfFiles
<1>2. StoredIsOneVersion
  BY DEF StaticInit, StoredIsOneVersion
<1>3. RequestIsAboutStored
  BY DEF StaticInit, RequestIsAboutStored, NoRequest
<1>4. answer = [status |-> 0, tag |-> Nothing, start |-> 0, end |-> -1, bytes |-> <<>>]
  BY DEF StaticInit, NoAnswer
<1>5. AnswerIsOfAVersion
  BY <1>4 DEF AnswerIsOfAVersion, BytesAreItsOwn, RangeIsTheRest, StillGood
<1>6. ServeHasFound
  BY DEF StaticInit, ServeHasFound
<1> QED BY <1>1, <1>2, <1>3, <1>5, <1>6 DEF StaticInv

\* What serve does before it reads a file.
LEMMA RespondStep ==
  ASSUME StaticInv, answer = NoAnswer, UNCHANGED <<disk, request, stored>>,
         NEW path, NEW version \in Versions, Respond(path, version)
  PROVE  StaticInv'
<1>1. StoredIsOneVersion' /\ RequestIsAboutStored'
  BY ClientIsKept DEF StaticInv
<1>2. AnswerIsOfAVersion' /\ ServeHasFound'
  BY RespondIsOfAVersion DEF StaticInv
<1> QED BY <1>1, <1>2 DEF StaticInv, DiskIsOfFiles

LEMMA FoundStep ==
  ASSUME StaticInv, answer = NoAnswer, UNCHANGED <<disk, request, stored>>,
         NEW path, NEW version \in Versions, Found(path, version)
  PROVE  StaticInv'
<1>1. CASE request.accepts = {}
  BY <1>1, RespondStep DEF Found
<1>2. CASE request.accepts # {}
  <2>1. stage' = "negotiating" /\ found' = [path |-> path, version |-> version] /\ UNCHANGED answer
    BY <1>2 DEF Found
  <2>2. StoredIsOneVersion' /\ RequestIsAboutStored' /\ AnswerIsOfAVersion'
    BY <2>1, ClientIsKept, AnswerIsKept DEF StaticInv
  <2> QED BY <2>1, <2>2 DEF StaticInv, DiskIsOfFiles, ServeHasFound
<1> QED BY <1>1, <1>2

LEMMA NotServedStep ==
  ASSUME StaticInv, UNCHANGED <<disk, request, stored>>, NotServed \/ Moved
  PROVE  StaticInv'
<1>1. PICK code \in {404, 301} : stage' = "answered" /\ answer' = StatusOnly(code, Nothing)
  BY DEF NotServed, Moved
<1>2. answer' = [status |-> code, tag |-> Nothing, start |-> 0, end |-> -1, bytes |-> <<>>]
  BY <1>1, StatusOnlyIs
<1>3. AnswerIsOfAVersion'
  BY <1>2 DEF AnswerIsOfAVersion, BytesAreItsOwn, RangeIsTheRest, StillGood
<1>4. StoredIsOneVersion' /\ RequestIsAboutStored'
  BY ClientIsKept DEF StaticInv
<1> QED BY <1>1, <1>3, <1>4 DEF StaticInv, DiskIsOfFiles, ServeHasFound

LEMMA LookUpStep == StaticInv /\ (LookUp \/ LookUpFallback) => StaticInv'
<1> SUFFICES ASSUME StaticInv, LookUp \/ LookUpFallback PROVE StaticInv'
  OBVIOUS
<1>1. answer = NoAnswer /\ UNCHANGED <<disk, request, stored>>
  BY DEF StaticInv, ServeHasFound, LookUp, LookUpFallback
<1>2. ASSUME NEW path, IsFile(At(path)), Found(path, At(path)) PROVE StaticInv'
  <2>1. At(path) \in Versions
    BY <1>2, AtIsAVersion DEF StaticInv
  <2> QED BY <2>1, <1>1, <1>2, FoundStep
<1>3. CASE stage' = "fallback" /\ UNCHANGED <<found, answer>>
  <2>1. StoredIsOneVersion' /\ RequestIsAboutStored' /\ AnswerIsOfAVersion'
    BY <1>1, <1>3, ClientIsKept, AnswerIsKept DEF StaticInv
  <2> QED BY <2>1, <1>1, <1>3 DEF StaticInv, DiskIsOfFiles, ServeHasFound
<1>4. CASE LookUp
  <2> DEFINE path == <<IF request.slash THEN "index" ELSE "page", "">>
  <2>1. CASE IsFile(At(path))
    BY <2>1, <1>4, <1>2 DEF LookUp, IsFile
  <2>2. CASE At(path) = Folder /\ ~request.slash
    BY <2>2, <1>4, <1>1, NotServedStep DEF LookUp, IsFile
  <2>3. CASE ~IsFile(At(path)) /\ ~(At(path) = Folder /\ ~request.slash)
    BY <2>3, <1>4, <1>3 DEF LookUp
  <2> QED BY <2>1, <2>2, <2>3
<1>5. CASE LookUpFallback
  BY <1>1, <1>2, <1>5, NotServedStep DEF LookUpFallback
<1> QED BY <1>4, <1>5

LEMMA NegotiateStep == StaticInv /\ Negotiate => StaticInv'
<1> SUFFICES ASSUME StaticInv, Negotiate PROVE StaticInv'
  OBVIOUS
<1>1. answer = NoAnswer /\ found.version \in Versions /\ UNCHANGED <<disk, request, stored>>
  BY DEF StaticInv, ServeHasFound, Negotiate
<1>2. \/ Respond(found.path, found.version)
      \/ \E path : IsFile(At(path)) /\ Respond(path, At(path))
  BY DEF Negotiate
<1>3. CASE Respond(found.path, found.version)
  BY <1>1, <1>3, RespondStep
<1>4. CASE \E path : IsFile(At(path)) /\ Respond(path, At(path))
  <2>1. PICK path : IsFile(At(path)) /\ Respond(path, At(path))
    BY <1>4
  <2>2. At(path) \in Versions
    BY <2>1, AtIsAVersion DEF StaticInv
  <2> QED BY <2>1, <2>2, <1>1, RespondStep
<1> QED BY <1>2, <1>3, <1>4

\* The bytes that are read are of the version that was found, or of none.
LEMMA ReadStep == ASSUME StaticInv, NEW cut \in 0..MaxSize, Read(cut) PROVE StaticInv'
<1> DEFINE now == At(found.path)
           of == IF now = found.version THEN now ELSE Nothing
           bytes == [i \in 1..cut |-> [of |-> of, at |-> answer.start + i - 1]]
<1>1. /\ answer \in [status : Nat, tag : Versions \cup {Nothing}, start : Int, end : Int, bytes : Seq(ReadBytes)]
      /\ answer.status \in {200, 206} /\ answer.tag = found.version /\ found.version \in Versions
  BY DEF StaticInv, AnswerIsOfAVersion, ServeHasFound, Read
<1>2. /\ answer' = [answer EXCEPT !.bytes = bytes] /\ stage' = "answered"
      /\ UNCHANGED <<disk, request, found, stored>>
  BY DEF Read
<1>3. of \in {Nothing, answer.tag}
  BY <1>1
<1>4. cut \in Nat
  BY StaticAssumption
<1> HIDE DEF of
<1>5. \A i \in 1..cut : bytes[i] \in ReadBytes /\ bytes[i].at = answer.start + i - 1 /\ bytes[i].of \in {Nothing, answer.tag}
  BY <1>1, <1>3, <1>4 DEF ReadBytes
<1>6. bytes \in Seq(ReadBytes) /\ DOMAIN bytes = 1..cut
  BY <1>4, <1>5
<1> HIDE DEF bytes
<1>7. /\ answer' \in [status : Nat, tag : Versions \cup {Nothing}, start : Int, end : Int, bytes : Seq(ReadBytes)]
      /\ answer'.status = answer.status /\ answer'.tag = answer.tag
      /\ answer'.start = answer.start /\ answer'.end = answer.end /\ answer'.bytes = bytes
  BY <1>1, <1>2, <1>6
<1>8. BytesAreItsOwn'
  BY <1>5, <1>6, <1>7 DEF BytesAreItsOwn
<1>9. AnswerIsOfAVersion'
  BY <1>1, <1>2, <1>7, <1>8 DEF StaticInv, AnswerIsOfAVersion, RangeIsTheRest, StillGood, Tie
<1>10. StoredIsOneVersion' /\ RequestIsAboutStored'
  BY <1>2, ClientIsKept DEF StaticInv
<1> QED BY <1>2, <1>9, <1>10 DEF StaticInv, DiskIsOfFiles, ServeHasFound

LEMMA WriteStep == ASSUME StaticInv, NEW path \in DOMAIN disk, Write(path) PROVE StaticInv'
<1>1. UNCHANGED <<request, stage, found, answer, stored>>
  BY DEF Write
<1>2. PICK entry \in Versions \cup {Absent} : disk' = [disk EXCEPT ![path] = entry]
  BY DEF Write
<1>3. DiskIsOfFiles'
  BY <1>2 DEF StaticInv, DiskIsOfFiles
<1>4. StoredIsOneVersion' /\ RequestIsAboutStored' /\ AnswerIsOfAVersion'
  BY <1>1, ClientIsKept, AnswerIsKept DEF StaticInv
<1> QED BY <1>1, <1>3, <1>4 DEF StaticInv, ServeHasFound

LEMMA AskStep ==
  ASSUME StaticInv, NEW what, Ask(what), RequestIsAboutStored' PROVE StaticInv'
<1>1. /\ UNCHANGED <<disk, found, answer, stored>>
      /\ stage' = "looking" /\ answer = NoAnswer
  BY DEF StaticInv, ServeHasFound, Ask
<1>2. AnswerIsOfAVersion'
  BY <1>1, NoAnswerIsFine
<1>3. StoredIsOneVersion'
  BY <1>1 DEF StaticInv, StoredIsOneVersion
<1> QED BY <1>1, <1>2, <1>3 DEF StaticInv, DiskIsOfFiles, ServeHasFound

LEMMA FetchStep ==
  ASSUME StaticInv, NEW slash \in BOOLEAN, NEW accepts \in SUBSET ToSet(Encodings),
         NEW range \in Ranges \cup {Nothing}, Fetch(slash, accepts, range)
  PROVE  StaticInv'
<1> DEFINE what == [NoRequest EXCEPT !.slash = slash, !.accepts = accepts, !.range = range]
<1>1. stored = Nothing /\ Ask(what)
  BY DEF Fetch
<1>2. /\ what.slash = slash /\ what.accepts = accepts /\ what.range = range
      /\ what.match = Nothing /\ what.unmodified = Nothing /\ what.ifRange = Nothing
      /\ what.noneMatch = Nothing /\ what.modified = Nothing
  BY DEF NoRequest
<1> HIDE DEF what
<1>3. request' = what /\ stored' = Nothing
  BY <1>1 DEF Ask
<1>4. RequestIsAboutStored'
  BY <1>2, <1>3 DEF RequestIsAboutStored, Ranges
<1> QED BY <1>1, <1>4, AskStep

LEMMA RevalidateStep ==
  ASSUME StaticInv, NEW method \in {"GET", "HEAD"}, NEW weak \in BOOLEAN, NEW by, Revalidate(method, weak, by)
  PROVE  StaticInv'
<1> DEFINE noneMatch == IF "tag" \in by THEN [tag |-> stored.tag, weak |-> weak] ELSE Nothing
           modified == IF "date" \in by THEN Second(stored.tag.mtime) ELSE Nothing
           what == [NoRequest EXCEPT !.method = method, !.slash = stored.slash, !.accepts = stored.accepts,
                                     !.noneMatch = noneMatch, !.modified = modified]
<1>1. stored # Nothing /\ Ask(what)
  BY DEF Revalidate
<1>2. noneMatch # Nothing => noneMatch.tag = stored.tag
  OBVIOUS
<1>3. modified # Nothing => modified = Second(stored.tag.mtime)
  OBVIOUS
<1> HIDE DEF noneMatch, modified
<1>4. /\ what.slash = stored.slash /\ what.accepts = stored.accepts /\ what.range = Nothing
      /\ what.noneMatch = noneMatch /\ what.modified = modified
  BY DEF NoRequest
<1> HIDE DEF what
<1>5. request' = what /\ stored' = stored
  BY <1>1 DEF Ask
<1>6. stored.slash \in BOOLEAN /\ stored.accepts \in SUBSET ToSet(Encodings)
  BY <1>1 DEF StaticInv, StoredIsOneVersion
<1>7. RequestIsAboutStored'
  BY <1>1, <1>2, <1>3, <1>4, <1>5, <1>6 DEF RequestIsAboutStored
<1> QED BY <1>1, <1>7, AskStep

LEMMA ResumeStep ==
  ASSUME StaticInv, NEW weak \in BOOLEAN, NEW by \in {"ifRange", "second", "match", "unmodified"}, Resume(weak, by)
  PROVE  StaticInv'
<1> DEFINE validator == [tag |-> stored.tag, weak |-> weak]
           second == Second(stored.tag.mtime)
           rest == [NoRequest EXCEPT !.slash = stored.slash, !.accepts = stored.accepts,
                                     !.range = <<Len(stored.bytes), -1>>]
           Rest(what) == /\ what.slash = stored.slash /\ what.accepts = stored.accepts
                         /\ what.range = <<Len(stored.bytes), -1>>
                         /\ what.noneMatch = Nothing /\ what.modified = Nothing
<1>1. stored # Nothing /\ Len(stored.bytes) < stored.tag.size
  BY DEF Resume
<1>2. stored \in [tag : Versions, bytes : Seq(Downloaded), slash : BOOLEAN, accepts : SUBSET ToSet(Encodings)]
  BY <1>1 DEF StaticInv, StoredIsOneVersion
<1>3. <<Len(stored.bytes), -1>> \in Ranges
  <2>1. stored.tag.size \in 0..MaxSize /\ Len(stored.bytes) \in Nat
    BY <1>2 DEF Versions
  <2>2. Len(stored.bytes) \in -1..MaxSize /\ -1 \in -1..MaxSize
    BY <2>1, <1>1, StaticAssumption
  <2> QED BY <2>2 DEF Ranges
<1>4. PICK what : /\ Ask(what) /\ Rest(what)
                  /\ \/ what.match = validator /\ what.unmodified = Nothing /\ what.ifRange = Nothing
                     \/ what.match = Nothing /\ what.unmodified = second /\ what.ifRange = Nothing
                     \/ /\ what.match = Nothing /\ what.unmodified = Nothing
                        /\ what.ifRange \in {validator, [second |-> second]}
  <2> HIDE DEF validator, second
  <2>1. /\ Rest(rest) /\ rest.match = Nothing /\ rest.unmodified = Nothing /\ rest.ifRange = Nothing
        /\ rest = [x \in DOMAIN rest |-> rest[x]]
        /\ {"match", "unmodified", "ifRange", "slash", "accepts", "range", "noneMatch", "modified"} \subseteq DOMAIN rest
    BY DEF NoRequest
  <2>2. Ask(CASE by = "ifRange" -> [rest EXCEPT !.ifRange = validator]
              [] by = "second" -> [rest EXCEPT !.ifRange = [second |-> second]]
              [] by = "match" -> [rest EXCEPT !.match = validator]
              [] by = "unmodified" -> [rest EXCEPT !.unmodified = second])
    BY DEF Resume, validator, second
  <2> HIDE DEF rest
  <2>3. CASE by = "ifRange"
    <3> DEFINE what == [rest EXCEPT !.ifRange = validator]
    <3>1. /\ Rest(what) /\ what.match = Nothing /\ what.unmodified = Nothing
          /\ what.ifRange = validator
      BY <2>1
    <3>2. Ask(what)
      BY <2>2, <2>3
    <3> HIDE DEF what, Rest
    <3> QED BY <3>1, <3>2
  <2>4. CASE by = "second"
    <3> DEFINE what == [rest EXCEPT !.ifRange = [second |-> second]]
    <3>1. /\ Rest(what) /\ what.match = Nothing /\ what.unmodified = Nothing
          /\ what.ifRange = [second |-> second]
      BY <2>1
    <3>2. Ask(what)
      BY <2>2, <2>4
    <3> HIDE DEF what, Rest
    <3> QED BY <3>1, <3>2
  <2>5. CASE by = "match"
    <3> DEFINE what == [rest EXCEPT !.match = validator]
    <3>1. /\ Rest(what) /\ what.match = validator /\ what.unmodified = Nothing
          /\ what.ifRange = Nothing
      BY <2>1
    <3>2. Ask(what)
      BY <2>2, <2>5
    <3> HIDE DEF what, Rest
    <3> QED BY <3>1, <3>2
  <2>6. CASE by = "unmodified"
    <3> DEFINE what == [rest EXCEPT !.unmodified = second]
    <3>1. /\ Rest(what) /\ what.match = Nothing /\ what.unmodified = second
          /\ what.ifRange = Nothing
      BY <2>1
    <3>2. Ask(what)
      BY <2>2, <2>6
    <3> HIDE DEF what, Rest
    <3> QED BY <3>1, <3>2
  <2> QED BY <2>3, <2>4, <2>5, <2>6
<1>5. request' = what /\ stored' = stored
  BY <1>4 DEF Ask
<1>6. Resumes'
  BY <1>4, <1>5 DEF Resumes
<1>7. stored.slash \in BOOLEAN /\ stored.accepts \in SUBSET ToSet(Encodings)
  BY <1>2
<1>8. Rest(what) /\ what.range \in Ranges
  BY <1>3, <1>4
<1>9. RequestIsAboutStored'
  BY <1>1, <1>5, <1>6, <1>7, <1>8 DEF RequestIsAboutStored
<1> QED BY <1>4, <1>9, AskStep

-----------------------------------------------------------------------------
(* The client takes an answer *)

LEMMA TiedBytes ==
  ASSUME StaticInv
  PROVE  /\ Tied \in Seq(Downloaded) /\ Len(Tied) = Len(answer.bytes)
         /\ \A i \in 1..Len(Tied) : Tied[i].at = answer.start + i - 1
         /\ \A i \in 1..Len(Tied) : Tied[i].of \in {Nothing, answer.tag}
         /\ \A i \in 1..Len(Tied) : answer.status = 200 => Tied[i].tie = "same"
         /\ \A i \in 1..Len(Tied) : answer.status # 200 => Tied[i].tie = Tie
<1> DEFINE tie == IF answer.status = 200 THEN "same" ELSE Tie
           bytes == answer.bytes
           Byte(i) == [of |-> bytes[i].of, at |-> bytes[i].at, tie |-> tie]
<1>1. Tie \in {"same", "same second", "not newer"}
  BY DEF Tie
<1>2. PICK n \in Nat : n = Len(bytes) /\ DOMAIN bytes = 1..n
  BY DEF StaticInv, AnswerIsOfAVersion
<1> HIDE DEF tie
<1>3. ASSUME NEW i \in 1..n PROVE bytes[i].of \in Versions \cup {Nothing} /\ bytes[i].at \in Int
  <2>1. bytes[i] \in ReadBytes
    BY <1>2 DEF StaticInv, AnswerIsOfAVersion
  <2> QED BY <2>1 DEF ReadBytes
<1>4. Tied = [i \in 1..n |-> Byte(i)]
  BY <1>2 DEF Tied, tie
<1>5. \A i \in 1..n : bytes[i].at = answer.start + i - 1 /\ bytes[i].of \in {Nothing, answer.tag}
  BY <1>2 DEF StaticInv, AnswerIsOfAVersion, BytesAreItsOwn
<1>6. tie \in {"same", "same second", "not newer"}
  BY <1>1 DEF tie
<1> HIDE DEF bytes
<1>7. \A i \in 1..n : Byte(i) \in Downloaded
  BY <1>3, <1>6 DEF Downloaded
<1>8. Tied \in Seq(Downloaded) /\ Len(Tied) = n
  BY <1>4, <1>7
<1>9. \A i \in 1..n : Tied[i].at = bytes[i].at /\ Tied[i].of = bytes[i].of /\ Tied[i].tie = tie
  BY <1>4
<1>10. (answer.status = 200 => tie = "same") /\ (answer.status # 200 => tie = Tie)
  BY DEF tie
<1>11. Len(Tied) = Len(answer.bytes)
  BY <1>2, <1>8 DEF bytes
<1>12. \A i \in 1..Len(Tied) : Tied[i].at = answer.start + i - 1 /\ Tied[i].of \in {Nothing, answer.tag}
  BY <1>5, <1>8, <1>9
<1>13. \A i \in 1..Len(Tied) : Tied[i].tie = tie
  BY <1>8, <1>9
<1> HIDE DEF Byte
<1> QED BY <1>8, <1>10, <1>11, <1>12, <1>13

\* A version, and the first bytes of it.
Holds(tag, bytes) ==
  /\ tag \in Versions /\ bytes \in Seq(Downloaded)
  /\ \A i \in DOMAIN bytes :
       /\ bytes[i].at = i - 1
       /\ bytes[i].of # Nothing => TiedTo(bytes[i].of, bytes[i].tie, tag)

LEMMA ANewFile ==
  ASSUME StaticInv, answer.status \in {200, 206}, answer.start = 0, answer.status = 206 => Tie = "same"
  PROVE  Holds(answer.tag, Tied)
<1>1. answer.tag \in Versions
  BY DEF StaticInv, AnswerIsOfAVersion
<1>2. Tied \in Seq(Downloaded) /\ DOMAIN Tied = 1..Len(Tied)
  BY TiedBytes
<1>3. ASSUME NEW i \in 1..Len(Tied)
      PROVE  Tied[i].at = i - 1 /\ (Tied[i].of # Nothing => TiedTo(Tied[i].of, Tied[i].tie, answer.tag))
  <2>1. Tied[i].at = i - 1 /\ Tied[i].of \in {Nothing, answer.tag}
    BY TiedBytes
  <2> QED BY <2>1, <1>1, TiedToItself
<1> QED BY <1>1, <1>2, <1>3 DEF Holds

LEMMA TheRestOfIt ==
  ASSUME StaticInv, answer.status = 206, stored # Nothing
  PROVE  Holds(stored.tag, stored.bytes \o Tied)
<1>1. /\ stored.tag \in Versions /\ stored.bytes \in Seq(Downloaded)
      /\ \A i \in DOMAIN stored.bytes :
           /\ stored.bytes[i].at = i - 1
           /\ stored.bytes[i].of # Nothing => TiedTo(stored.bytes[i].of, stored.bytes[i].tie, stored.tag)
  BY DEF StaticInv, StoredIsOneVersion
<1>2. answer.start = Len(stored.bytes) /\ TiedTo(answer.tag, Tie, stored.tag)
  BY DEF StaticInv, AnswerIsOfAVersion, RangeIsTheRest
<1> DEFINE had == stored.bytes  all == had \o Tied
<1>3. PICK n \in Nat, m \in Nat : n = Len(had) /\ m = Len(Tied)
  BY <1>1, TiedBytes
<1>4. /\ all \in Seq(Downloaded) /\ DOMAIN all = 1..(n + m)
      /\ \A i \in 1..(n + m) : all[i] = IF i <= n THEN had[i] ELSE Tied[i - n]
  BY <1>1, <1>3, TiedBytes
<1> HIDE DEF all
<1>5. ASSUME NEW i \in 1..(n + m)
      PROVE  all[i].at = i - 1 /\ (all[i].of # Nothing => TiedTo(all[i].of, all[i].tie, stored.tag))
  <2>1. CASE i <= n
    <3>1. i \in DOMAIN had /\ all[i] = had[i]
      BY <2>1, <1>1, <1>3, <1>4
    <3> QED BY <3>1, <1>1
  <2>2. CASE i > n
    <3>1. PICK j \in 1..m : j = i - n
      BY <2>2
    <3>2. all[i] = Tied[j]
      BY <2>2, <3>1, <1>4
    <3>3. j \in 1..Len(Tied) /\ answer.start = n /\ answer.status # 200
      BY <1>2, <1>3
    <3>4. Tied[j].at = answer.start + j - 1 /\ Tied[j].of \in {Nothing, answer.tag}
      BY <3>3, TiedBytes
    <3>5. Tied[j].tie = Tie
      BY <3>3, TiedBytes
    <3> QED BY <3>1, <3>2, <3>3, <3>4, <3>5, <1>2
  <2> QED BY <2>1, <2>2
<1>6. Holds(stored.tag, all)
  BY <1>1, <1>4, <1>5 DEF Holds
<1> QED BY <1>6 DEF all

LEMMA TakeStep == StaticInv /\ Take => StaticInv'
<1> SUFFICES ASSUME StaticInv, Take PROVE StaticInv'
  OBVIOUS
<1>1. /\ stage' = "idle" /\ request' = NoRequest /\ answer' = NoAnswer /\ UNCHANGED disk
  BY DEF Take
<1>2. AnswerIsOfAVersion' /\ ServeHasFound'
  BY <1>1, NoAnswerIsFine DEF ServeHasFound
<1>3. RequestIsAboutStored'
  BY <1>1 DEF RequestIsAboutStored, NoRequest
<1>4. StoredIsOneVersion'
  <2> DEFINE taken == [tag |-> answer.tag, bytes |-> Tied, slash |-> request.slash, accepts |-> request.accepts]
  <2>1. CASE stored' \in {stored, Nothing}
    BY <2>1 DEF StaticInv, StoredIsOneVersion
  <2>2. CASE /\ stored' = taken /\ answer.status \in {200, 206}
             /\ answer.status = 206 => stored = Nothing /\ answer.start = 0
    <3>1. answer.start = 0
      BY <2>2 DEF StaticInv, AnswerIsOfAVersion
    <3>2. stored = Nothing => Tie = "same"
      BY DEF StaticInv, RequestIsAboutStored, Tie
    <3>3. Holds(answer.tag, Tied)
      BY <2>2, <3>1, <3>2, ANewFile
    <3>4. request.slash \in BOOLEAN /\ request.accepts \in SUBSET ToSet(Encodings)
      BY DEF StaticInv, RequestIsAboutStored
    <3> QED BY <2>2, <3>3, <3>4 DEF StoredIsOneVersion, Holds
  <2>3. CASE answer.status = 206 /\ stored # Nothing /\ stored' = [stored EXCEPT !.bytes = @ \o Tied]
    <3>1. stored \in [tag : Versions, bytes : Seq(Downloaded), slash : BOOLEAN, accepts : SUBSET ToSet(Encodings)]
      BY <2>3 DEF StaticInv, StoredIsOneVersion
    <3> DEFINE all == stored.bytes \o Tied
    <3>2. Holds(stored.tag, all)
      BY <2>3, TheRestOfIt
    <3>3. stored' = [stored EXCEPT !.bytes = all]
      BY <2>3
    <3> HIDE DEF all
    <3>4. stored' \in [tag : Versions, bytes : Seq(Downloaded), slash : BOOLEAN, accepts : SUBSET ToSet(Encodings)]
      BY <3>1, <3>2, <3>3 DEF Holds
    <3>5. stored'.tag = stored.tag /\ stored'.bytes = all
      BY <3>1, <3>3
    <3> QED BY <3>2, <3>4, <3>5 DEF StoredIsOneVersion, Holds
  <2> QED BY <2>1, <2>2, <2>3 DEF Take
<1> QED BY <1>1, <1>2, <1>3, <1>4 DEF StaticInv, DiskIsOfFiles

-----------------------------------------------------------------------------

\* The client, its request, serve and the answer agree at any time: the inductive invariant.
THEOREM StaticInvariant == StaticInit /\ [][StaticNext]_staticVars => []StaticInv
<1>1. ASSUME StaticInv, [StaticNext]_staticVars PROVE StaticInv'
  <2>1. CASE UNCHANGED staticVars
    <3>1. StoredIsOneVersion' /\ RequestIsAboutStored' /\ AnswerIsOfAVersion'
      BY <1>1, <2>1, ClientIsKept, AnswerIsKept DEF staticVars, StaticInv
    <3> QED BY <1>1, <2>1, <3>1 DEF staticVars, StaticInv, DiskIsOfFiles, ServeHasFound
  <2>2. CASE StaticNext
    BY <1>1, <2>2, LookUpStep, NegotiateStep, TakeStep, ReadStep, WriteStep, FetchStep, RevalidateStep, ResumeStep
       DEF StaticNext
  <2> QED BY <1>1, <2>1, <2>2
<1> QED BY <1>1, StaticStarts, PTL

\* A client has the bytes of one version, however often its downloads were cut and resumed
\* and its file replaced, and what it keeps after a 304 is still good (serve).
THEOREM DownloadsAreOneVersion == StaticInit /\ [][StaticNext]_staticVars => []DownloadIsOneVersion
<1>1. ASSUME StaticInv PROVE DownloadIsOneVersion
  <2>1. RangesAreExact /\ StillGood
    BY <1>1 DEF StaticInv, AnswerIsOfAVersion, RangeIsTheRest, BytesAreItsOwn, RangesAreExact
  <2>2. ASSUME stored # Nothing, NEW i \in DOMAIN stored.bytes
        PROVE  LET byte == stored.bytes[i] IN
               /\ byte.at = i - 1
               /\ byte.of # Nothing =>
                    CASE byte.tie = "same" -> byte.of = stored.tag
                      [] byte.tie = "same second" -> Second(byte.of.mtime) = Second(stored.tag.mtime)
                      [] byte.tie = "not newer" -> Second(byte.of.mtime) <= Second(stored.tag.mtime)
    <3> DEFINE byte == stored.bytes[i]
    <3>1. /\ stored.bytes \in Seq(Downloaded) /\ byte.at = i - 1
          /\ byte.of # Nothing => TiedTo(byte.of, byte.tie, stored.tag)
      BY <1>1, <2>2 DEF StaticInv, StoredIsOneVersion
    <3>2. byte \in Downloaded
      BY <3>1, <2>2
    <3>3. byte.tie \in {"same", "same second", "not newer"}
      BY <3>2 DEF Downloaded
    <3> QED BY <3>1, <3>3 DEF TiedTo
  <2> QED BY <2>1, <2>2 DEF DownloadIsOneVersion
<1> QED BY <1>1, StaticInvariant, PTL
=============================================================================
