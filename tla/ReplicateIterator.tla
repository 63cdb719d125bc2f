-------------------------- MODULE ReplicateIterator --------------------------
(***************************************************************************)
(* replicateAsyncIterator of packages/shared/src/iterator.ts: one source   *)
(* iterator is read by one loop and every result is pushed to a queue per  *)
(* replica (AsyncIdQueue, whose ids are the replicas).                     *)
(*                                                                         *)
(* A replica is an AsyncIteratorClass of @standardserver/shared, external  *)
(* to the repository: its next calls run one after another, its return may *)
(* run while a next is pending, and the first of the two to end the        *)
(* iteration runs the cleanup, once.                                       *)
(***************************************************************************)
EXTENDS AsyncIdQueue

CONSTANTS Done,    \* the result { done: true } of the source
          Error,   \* the source throws
          NoCall   \* a replica without a pending next

ASSUME ReplicateAssumption ==
  /\ {Done, Error} \subseteq Items
  /\ Done # Error
  /\ NoCall \notin Calls
  /\ Ids # {}

VARIABLES loop,              \* the loop of start: where its control is
          isSourceFinished,  \* the flag of that name
          returned,          \* source.return has been called
          lateNext,          \* the awaited source.next was called after that
          out,               \* history: the results of the source
          pending,           \* the pull that the next of a replica awaits
          isDone,            \* the replica has ended (AsyncIteratorClass)
          seen               \* history: the results a replica's next returned

loopVars == <<loop, isSourceFinished, returned, lateNext, out>>
replicaVars == <<pending, isDone, seen>>
replicatingVars == <<queueVars, loopVars, replicaVars>>

ReplicateTypeOK ==
  /\ QueueTypeOK
  /\ loop \in {"none", "idle", "awaiting", "ended"}
  /\ {isSourceFinished, returned, lateNext} \subseteq BOOLEAN
  /\ out \in Seq(Items)
  /\ pending \in [Ids -> Calls \cup {NoCall}]
  /\ isDone \in [Ids -> BOOLEAN]
  /\ seen \in [Ids -> Seq(Items)]

ReplicateInit ==
  /\ QueueInit
  /\ loop = "none"
  /\ isSourceFinished = FALSE
  /\ returned = FALSE
  /\ lateNext = FALSE
  /\ out = <<>>
  /\ pending = [r \in Ids |-> NoCall]
  /\ isDone = [r \in Ids |-> FALSE]
  /\ seen = [r \in Ids |-> <<>>]

-----------------------------------------------------------------------------
\* replicateAsyncIterator(source, count): a queue is opened for every replica.
Replicate ==
  /\ loop = "none"
  /\ loop' = "idle"
  /\ Open(Ids)
  /\ UNCHANGED <<isSourceFinished, returned, lateNext, out, replicaVars>>

\* start, run once: the loop calls source.next.
Start ==
  /\ loop' = IF loop = "idle" THEN "awaiting" ELSE loop
  /\ lateNext' = IF loop = "idle" THEN returned ELSE lateNext

\* next() of a replica that has not ended: start the loop and pull.
CallNext(r) ==
  /\ loop # "none"
  /\ pending[r] = NoCall
  /\ ~isDone[r]
  /\ Start
  /\ \E d \in Calls : status[d] = "fresh"
  /\ LET c == CHOOSE d \in Calls : status[d] = "fresh"
     IN  Pull(r, c) /\ pending' = [pending EXCEPT ![r] = c]
  /\ UNCHANGED <<isSourceFinished, returned, out, isDone, seen>>

\* The replicas a result of the source is pushed to: those that are open.
Receivers == openIds

\* The source answers the loop: the result goes to every open replica, and
\* unless it was the last one source.next is called again.
SourceResult(x) ==
  /\ loop = "awaiting"
  /\ lateNext => x \in {Done, Error}
  /\ x \notin {Done, Error} => Len(out) + 1 < MaxPushes
  /\ PushAll(Receivers, x)
  /\ out' = Append(out, x)
  /\ IF x \in {Done, Error}
     THEN loop' = "ended" /\ isSourceFinished' = TRUE /\ UNCHANGED lateNext
     ELSE lateNext' = returned /\ UNCHANGED <<loop, isSourceFinished>>
  /\ UNCHANGED <<returned, replicaVars>>

IsResolved(r) == pending[r] # NoCall /\ status[pending[r]] = "resolved"

\* The pull of a replica is resolved: its next returns the result, or throws
\* the error.  The last result ends the replica and cleans it up (kind
\* "completed" or "error"), unless return has done so before.
Settle(r) ==
  /\ IsResolved(r)
  /\ LET x == got[pending[r]]
         ends == x \in {Done, Error}
     IN  /\ seen' = [seen EXCEPT ![r] = Append(@, x)]
         /\ isDone' = [isDone EXCEPT ![r] = @ \/ ends]
         /\ IF ends /\ ~isDone[r] THEN Close({r}) ELSE UNCHANGED queueVars
  /\ pending' = [pending EXCEPT ![r] = NoCall]
  /\ UNCHANGED loopVars

\* The pull of a replica was rejected, because return closed its queue.
SettleRejected(r) ==
  /\ pending[r] # NoCall
  /\ status[pending[r]] = "rejected"
  /\ pending' = [pending EXCEPT ![r] = NoCall]
  /\ UNCHANGED <<queueVars, loopVars, isDone, seen>>

\* Mutants of MustCancel: the size is read before the queue is closed, the
\* source is never cancelled.
MustCancelBeforeClose(r) == openIds = {} /\ ~isSourceFinished
MustCancelNever(r) == FALSE

\* kind === 'cancelled' && !queue.size && !isSourceFinished, after queue.close.
MustCancel(r) == openIds \ {r} = {} /\ ~isSourceFinished

\* return() of a replica: the cleanup of kind "cancelled", which also cancels
\* the source when no replica is open any more.
Return(r) ==
  /\ loop # "none"
  /\ ~isDone[r]
  /\ isDone' = [isDone EXCEPT ![r] = TRUE]
  /\ Close({r})
  /\ IF MustCancel(r)
     THEN isSourceFinished' = TRUE /\ returned' = TRUE
     ELSE UNCHANGED <<isSourceFinished, returned>>
  /\ UNCHANGED <<loop, lateNext, out, pending, seen>>

ReplicateNext ==
  \/ Replicate
  \/ \E x \in Items : SourceResult(x)
  \/ \E r \in Ids : CallNext(r) \/ Settle(r) \/ SettleRejected(r) \/ Return(r)

\* A settled promise resumes the code that awaits it, and a source that was
\* told to return settles the next that the loop still awaits.  A source that
\* was not (a subscription, say) may stay silent for ever.
ReplicateFairness ==
  /\ WF_replicatingVars(returned /\ \E x \in Items : SourceResult(x))
  /\ \A r \in Ids : WF_replicatingVars(Settle(r)) /\ WF_replicatingVars(SettleRejected(r))

ReplicateSpec == ReplicateInit /\ [][ReplicateNext]_replicatingVars /\ ReplicateFairness

-----------------------------------------------------------------------------
(* What replication promises.                                              *)

\* The replicas share their source as the readers of a broadcast do: they see
\* one sequence of results, each from the first on and at its own pace, and the
\* source is told to return exactly when the last of them is cancelled before
\* the source has ended (all of replicateAsyncIterator).
Shared == INSTANCE Broadcast WITH
  Readers <- Ids, Results <- Items, Last <- {Done, Error},
  log <- out, listening <- {r \in Ids : ~isDone[r]}, stopped <- returned
ReplicasShareTheSource == Shared!BroadcastSpec

\* Every replica's consumer sees the results of the one source, in the order
\* and from the first on, however late it starts to read and whatever the
\* other replicas do.
EveryReplicaSeesTheSource ==
  \A r \in Ids : seen[r] = SubSeq(out, 1, Len(seen[r]))

\* A replica that nobody cancelled loses nothing: what its consumer has not
\* seen yet is buffered for it, or resolved and about to be returned.
NothingIsLost ==
  \A r \in openIds :
    Len(out) = Len(seen[r]) + Len(queues[r])
               + (IF IsResolved(r) THEN 1 ELSE 0)

\* The source is cancelled only when no replica can want more of it, and only
\* while it is still running: an error or the end of the source, seen by the
\* loop, is not followed by source.return.
CancelOnlyWhenAbandoned ==
  [][returned' # returned => returned' /\ openIds' = {} /\ loop # "ended"]_replicatingVars

\* The source is not left running for nobody: as soon as the last replica is
\* cleaned up, the source has either finished or been told to return.
AbandonedSourceIsReleased ==
  loop # "none" /\ openIds = {} => isSourceFinished

\* Cancelling leaves nothing hanging: the next that a cancelled replica awaits
\* settles although the source may never produce anything again, and once all
\* replicas are cancelled the loop that reads the source stops.
CancellingLeavesNothing ==
  /\ \A r \in Ids : (pending[r] # NoCall /\ isDone[r]) ~> (pending[r] = NoCall)
  /\ (loop = "awaiting" /\ openIds = {}) ~> (loop = "ended")

-----------------------------------------------------------------------------
(* The inductive invariant behind the safety properties.                   *)

\* The open queues are those of the replicas that have not ended.
OpenUntilDone ==
  openIds = IF loop = "none" THEN {} ELSE {r \in Ids : ~isDone[r]}

\* What was pushed to an open replica is what the source produced, and its
\* pulls are the ones it has returned and the one it awaits.
OpenFollows ==
  \A r \in openIds :
    /\ sent[r] = out
    /\ pending[r] = NoCall => Len(pulls[r]) = Len(seen[r])
    /\ pending[r] # NoCall => /\ Len(pulls[r]) = Len(seen[r]) + 1
                              /\ pulls[r][Len(pulls[r])] = pending[r]

\* What an ended replica still awaits is settled, with the next result it is due.
ClosedIsSettled ==
  \A r \in Ids \ openIds : pending[r] # NoCall =>
    /\ status[pending[r]] \in {"resolved", "rejected"}
    /\ status[pending[r]] = "resolved" =>
         Len(seen[r]) < Len(out) /\ got[pending[r]] = out[Len(seen[r]) + 1]

SeenIsPrefix ==
  \A r \in Ids :
    /\ Len(seen[r]) <= Len(out)
    /\ \A i \in 1..Len(seen[r]) : seen[r][i] = out[i]

NothingBeforeReplicate ==
  loop = "none" => out = <<>> /\ \A r \in Ids : pending[r] = NoCall /\ ~isDone[r]

\* The last result ends the loop, and an ended loop has finished the source.
LastResultFinishes ==
  /\ loop = "ended" => isSourceFinished
  /\ \A i \in 1..Len(out) : out[i] \in {Done, Error} => isSourceFinished

ReplicaInv ==
  /\ ReplicateTypeOK
  /\ OpenUntilDone
  /\ OpenFollows
  /\ ClosedIsSettled
  /\ SeenIsPrefix
  /\ NothingBeforeReplicate
  /\ LastResultFinishes

\* The invariant of replication (all of replicateAsyncIterator): every replica
\* is at its own place of one and the same sequence of results.
ReplicateInv ==
  /\ QueueInv
  /\ ReplicaInv
  /\ AbandonedSourceIsReleased
=============================================================================
