---------------------------- MODULE AsyncIdQueue ----------------------------
(***************************************************************************)
(* The AsyncIdQueue class of packages/shared/src/queue.ts: one unbounded   *)
(* FIFO per open id.  A pull takes the oldest buffered item or, when there *)
(* is none, leaves a waiter; a push hands its item to the oldest waiter or *)
(* buffers it; closing an id rejects its waiters and drops its buffer.     *)
(*                                                                         *)
(* The class is synchronous code on one thread, so an action is one method *)
(* call.  A call of pull is a member of Calls; status and got say how its  *)
(* promise is settled.  sent and pulls are history: what was pushed to an  *)
(* id, and which calls pulled from it, since the id was last opened.       *)
(***************************************************************************)
EXTENDS Integers, Sequences, Functions

CONSTANTS Ids,       \* the ids a queue may be opened for
          Items,     \* what can be pushed
          NoItem,    \* the value of a promise that has no item (yet)
          Calls,     \* the calls of pull
          MaxPushes  \* bound: the pushes to an id between open and close

ASSUME QueueAssumption ==
  /\ NoItem \notin Items
  /\ MaxPushes \in Nat

VARIABLES openIds,  \* the ids that are open
          queues,   \* the buffered items of each id
          waiters,  \* the calls of pull that wait on each id
          status,   \* how the promise of each call is settled
          got,      \* the item that a resolved call returned
          sent,     \* history: the items pushed to each id since it was opened
          pulls     \* history: the calls made on each id since it was opened

queueVars == <<openIds, queues, waiters, status, got, sent, pulls>>

Status == {"fresh", "waiting", "resolved", "rejected"}

QueueTypeOK ==
  /\ openIds \subseteq Ids
  /\ queues \in [Ids -> Seq(Items)]
  /\ waiters \in [Ids -> Seq(Calls)]
  /\ status \in [Calls -> Status]
  /\ got \in [Calls -> Items \cup {NoItem}]
  /\ sent \in [Ids -> Seq(Items)]
  /\ pulls \in [Ids -> Seq(Calls)]

QueueInit ==
  /\ openIds = {}
  /\ queues = [i \in Ids |-> <<>>]
  /\ waiters = [i \in Ids |-> <<>>]
  /\ status = [c \in Calls |-> "fresh"]
  /\ got = [c \in Calls |-> NoItem]
  /\ sent = [i \in Ids |-> <<>>]
  /\ pulls = [i \in Ids |-> <<>>]

-----------------------------------------------------------------------------
\* open(id) for every id of S.
Open(S) ==
  /\ openIds' = openIds \cup S
  /\ UNCHANGED <<queues, waiters, status, got, sent, pulls>>

\* The calls that a push to every id of S resolves: the oldest waiter of each.
Served(S) == {Head(waiters[i]) : i \in {j \in S : waiters[j] # <<>>}}

\* push(id, x) for every id of S, in one synchronous loop.
PushAll(S, x) ==
  /\ S \subseteq openIds
  /\ \A i \in S : Len(sent[i]) < MaxPushes
  /\ queues' = [i \in Ids |-> IF i \in S /\ waiters[i] = <<>>
                              THEN Append(queues[i], x) ELSE queues[i]]
  /\ waiters' = [i \in Ids |-> IF i \in S /\ waiters[i] # <<>>
                               THEN Tail(waiters[i]) ELSE waiters[i]]
  /\ status' = [c \in Calls |-> IF c \in Served(S) THEN "resolved" ELSE status[c]]
  /\ got' = [c \in Calls |-> IF c \in Served(S) THEN x ELSE got[c]]
  /\ sent' = [i \in Ids |-> IF i \in S THEN Append(sent[i], x) ELSE sent[i]]
  /\ UNCHANGED <<openIds, pulls>>

\* Mutant of Taken: pop for shift.
TakenFromTheEnd(id) == queues[id][Len(queues[id])]

\* The buffered item that a pull takes: items.shift().
Taken(id) == Head(queues[id])

\* pull finds a buffered item: its promise is resolved with the oldest one.
PullBuffered(id, c) ==
  /\ id \in openIds
  /\ status[c] = "fresh"
  /\ queues[id] # <<>>
  /\ queues' = [queues EXCEPT ![id] = Tail(@)]
  /\ status' = [status EXCEPT ![c] = "resolved"]
  /\ got' = [got EXCEPT ![c] = Taken(id)]
  /\ pulls' = [pulls EXCEPT ![id] = Append(@, c)]
  /\ UNCHANGED <<openIds, waiters, sent>>

\* pull finds nothing: its resolve and reject become the last waiter.
PullWait(id, c) ==
  /\ id \in openIds
  /\ status[c] = "fresh"
  /\ queues[id] = <<>>
  /\ waiters' = [waiters EXCEPT ![id] = Append(@, c)]
  /\ status' = [status EXCEPT ![c] = "waiting"]
  /\ pulls' = [pulls EXCEPT ![id] = Append(@, c)]
  /\ UNCHANGED <<openIds, queues, got, sent>>

\* assertOpen throws inside the async method: the promise is rejected.
PullClosed(id, c) ==
  /\ id \notin openIds
  /\ status[c] = "fresh"
  /\ status' = [status EXCEPT ![c] = "rejected"]
  /\ UNCHANGED <<openIds, queues, waiters, got, sent, pulls>>

Pull(id, c) == PullBuffered(id, c) \/ PullWait(id, c) \/ PullClosed(id, c)

\* The calls whose promise closing the ids of S rejects: all their waiters.
Rejected(S) == {c \in Calls : \E i \in S : c \in Range(waiters[i])}

\* The buffers that are left when the ids of S are closed.
QueuesWithout(S) == [i \in Ids |-> IF i \in S THEN <<>> ELSE queues[i]]

\* close({ id }) for S = {id}, close() for S = Ids.
Close(S) ==
  /\ openIds' = openIds \ S
  /\ status' = [c \in Calls |-> IF c \in Rejected(S) THEN "rejected" ELSE status[c]]
  /\ queues' = QueuesWithout(S)
  /\ waiters' = [i \in Ids |-> IF i \in S THEN <<>> ELSE waiters[i]]
  /\ sent' = [i \in Ids |-> IF i \in S THEN <<>> ELSE sent[i]]
  /\ pulls' = [i \in Ids |-> IF i \in S THEN <<>> ELSE pulls[i]]
  /\ UNCHANGED got

QueueNext ==
  \/ \E S \in SUBSET Ids : Open(S)
  \/ \E id \in Ids : Close({id})
  \/ Close(Ids)
  \/ \E S \in SUBSET Ids, x \in Items : PushAll(S, x)
  \/ \E id \in Ids, c \in Calls : Pull(id, c)

QueueSpec == QueueInit /\ [][QueueNext]_queueVars

-----------------------------------------------------------------------------
(* What the queue promises.                                                *)

\* The n-th pull since an id was opened is answered with the n-th item pushed
\* since then, whichever of the two came first: neither a hand-over to a
\* waiter (push) nor the buffer (pull) loses, repeats or reorders an item.
NthPullGetsNthItem ==
  \A id \in Ids : \A n \in 1..Len(pulls[id]) :
    LET c == pulls[id][n]
    IN  IF n <= Len(sent[id])
        THEN status[c] = "resolved" /\ got[c] = sent[id][n]
        ELSE status[c] = "waiting"

\* A promise is left pending only while its id is open and its waiter is
\* registered: close leaves no caller behind that nothing can settle any more.
NoOrphanedCall ==
  \A c \in Calls : status[c] = "waiting" => \E id \in openIds : c \in Range(waiters[id])

\* A closed id keeps nothing that a later open of the same id could see.
ClosedIdIsEmpty ==
  \A id \in Ids \ openIds : queues[id] = <<>> /\ waiters[id] = <<>>

-----------------------------------------------------------------------------
(* The inductive invariant behind them.                                    *)

\* How the buffer q, the waiters w, the items s sent and the calls p made since
\* an id was opened fit together: items are buffered only while nobody waits,
\* the buffer is the end of what was sent, the waiters the end of the calls.
Fits(q, w, s, p) ==
  /\ q = <<>> \/ w = <<>>
  /\ Len(p) + Len(q) = Len(s) + Len(w)
  /\ \A n \in 1..Len(q) : q[n] = s[Len(p) + n]
  /\ \A n \in 1..Len(w) : w[n] = p[Len(s) + n]

\* Every call pulls once.
DistinctPulls ==
  \A i, j \in Ids : \A m \in 1..Len(pulls[i]), n \in 1..Len(pulls[j]) :
    pulls[i][m] = pulls[j][n] => i = j /\ m = n

ClosedForgets == \A id \in Ids \ openIds : sent[id] = <<>> /\ pulls[id] = <<>>

WaitingIsRegistered ==
  \A c \in Calls : status[c] = "waiting" =>
    \E id \in Ids : \E n \in 1..Len(waiters[id]) : waiters[id][n] = c

\* The invariant of the queue: all of its promises follow from it.  The code
\* behaviour is that of all four methods together.
QueueInv ==
  /\ QueueTypeOK
  /\ \A id \in Ids : Fits(queues[id], waiters[id], sent[id], pulls[id])
  /\ DistinctPulls
  /\ ClosedForgets
  /\ NthPullGetsNthItem
  /\ WaitingIsRegistered
=============================================================================
