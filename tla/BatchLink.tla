------------------------------- MODULE BatchLink -------------------------------
(***************************************************************************)
(* BatchLinkPlugin of packages/client/src/plugins/batch.ts: requests of one *)
(* group that are queued in the same turn are sent in one batch request,    *)
(* unless it is too large, and the response is dealt out as it comes in.    *)
(*                                                                         *)
(* The wrapped link and ClientPeer are external.  A peer sends a request    *)
(* message for every member whose signal is not aborted; a member that      *)
(* aborts later is rejected and sends a cancel message; closing the peer    *)
(* rejects the members that have no response yet.  The options maxSize and  *)
(* maxUrlLength may be functions of the batch: each batch may get another    *)
(* of the sizes, and its URL may or may not be too long.                    *)
(***************************************************************************)
EXTENDS Integers, Sequences, SequencesExt, FiniteSets

CONSTANTS Requests,   \* subrequests, each with its promise
          MethodsOf,  \* what their methods may be
          MaxSizes    \* what maxSize may be

ASSUME BatchAssumption ==
  MethodsOf \subseteq [Requests -> {"GET", "QUERY", "POST"}] /\ MaxSizes \subseteq Nat \ {0}

VARIABLES
  method,    \* of each request; POST stands for all that are neither GET nor QUERY
  waiting,   \* queue: the requests of the group
  deferred,  \* how many calls of processPendingBatches are due
  batches,   \* the runs of executeBatch: their items, whether their signal is aborted, and
             \* their phase: "preparing", "starved", "checking", "split", "sent", "reading" or "done"
  given,     \* the requests whose signal is aborted
  answer,    \* each promise: "none", "pending", "response" or "error"
  sent,      \* history: how often the wrapped link was called with each
  late       \* history: the requests aborted after their call and before they were sent

batchVars == <<method, waiting, deferred, batches, given, answer, sent, late>>

BatchInit ==
  /\ method \in MethodsOf
  /\ waiting = <<>> /\ deferred = 0 /\ batches = <<>>
  /\ given = {} /\ late = {}
  /\ answer = [r \in Requests |-> "none"] /\ sent = [r \in Requests |-> 0]

-----------------------------------------------------------------------------
\* executeBatch(method, group, items) up to its first await: a single request is
\* sent as it is.
Execute(items) ==
  [items |-> items, cut |-> FALSE, phase |-> IF Len(items) = 1 THEN "sent" ELSE "preparing"]

\* The run for a list of items, unless it is empty.
Run(items) == IF items = <<>> THEN <<>> ELSE <<Execute(items)>>

\* Mutant of RunHalves: the second half begins one too late.
RunHalvesShort(items) ==
  LET half == (Len(items) + 1) \div 2
  IN  Run(SubSeq(items, 1, half)) \o Run(SubSeq(items, half + 2, Len(items)))

RunHalves(items) ==
  LET half == (Len(items) + 1) \div 2
  IN  Run(SubSeq(items, 1, half)) \o Run(SubSeq(items, half + 1, Len(items)))

InPhase(b, phase) == b \in 1..Len(batches) /\ batches[b].phase = phase
\* The runs begin: their single requests are sent.
Begin(runs) ==
  sent' = [r \in Requests |-> sent[r] + Cardinality({i \in 1..Len(runs) : runs[i].items = <<r>>})]

Items(b) == batches[b].items
Moved(b, phase) == [batches EXCEPT ![b].phase = phase]
Split(b) ==
  /\ batches' = Moved(b, "split") \o RunHalves(Items(b))
  /\ Begin(RunHalves(Items(b)))

\* The members whose promise is not settled yet.
Unsettled(b) == {r \in ToSet(Items(b)) : answer[r] = "pending"}
Settled(requests, how) == [r \in Requests |-> IF r \in requests THEN how ELSE answer[r]]

\* A request is queued, and a run of processPendingBatches is deferred.
Request(r) ==
  /\ answer[r] = "none" /\ r \notin given
  /\ answer' = [answer EXCEPT ![r] = "pending"]
  /\ waiting' = Append(waiting, r)
  /\ deferred' = deferred + 1
  /\ UNCHANGED <<method, batches, given, sent, late>>

\* The requests of the queue whose method is m.
OfMethod(m) ==
  LET of[n \in 0..Len(waiting)] ==
        IF n = 0 THEN <<>>
        ELSE IF method[waiting[n]] = m THEN Append(of[n - 1], waiting[n]) ELSE of[n - 1]
  IN  of[Len(waiting)]

\* processPendingBatches: the queue is split by method.
ProcessPending ==
  /\ deferred > 0 /\ deferred' = deferred - 1
  /\ waiting' = <<>>
  /\ LET runs == Run(OfMethod("GET")) \o Run(OfMethod("QUERY")) \o Run(OfMethod("POST"))
     IN  batches' = batches \o runs /\ Begin(runs)
  /\ UNCHANGED <<method, given, answer, late>>

\* A batch larger than maxSize is split in halves.
SplitLarge(b) ==
  /\ InPhase(b, "preparing") /\ \E maxSize \in MaxSizes : Len(Items(b)) > maxSize
  /\ Split(b)
  /\ UNCHANGED <<method, waiting, deferred, given, answer, late>>

\* The wrapped link is called with the batch request, of all items.
Called(b) == [r \in Requests |-> IF r \in ToSet(Items(b)) THEN sent[r] + 1 ELSE sent[r]]

\* url, headers and mode are known: the peer is made, and every member requests.
\* A member that has been aborted is rejected and sends nothing, so that the
\* peer never has all requests and the batch starves.  With all of them the
\* batch is sent, when it is no GET at once.
OpenPeer(b) ==
  /\ InPhase(b, "preparing") /\ \E maxSize \in MaxSizes : Len(Items(b)) <= maxSize
  /\ answer' = Settled(Unsettled(b) \cap given, "error")
  /\ \/ /\ ToSet(Items(b)) \cap given # {}
        /\ batches' = Moved(b, "starved") /\ UNCHANGED sent
     \/ /\ ToSet(Items(b)) \cap given = {} /\ method[Items(b)[1]] = "GET"
        /\ batches' = Moved(b, "checking") /\ UNCHANGED sent
     \/ /\ ToSet(Items(b)) \cap given = {} /\ method[Items(b)[1]] # "GET"
        /\ batches' = Moved(b, "sent") /\ sent' = Called(b)
  /\ UNCHANGED <<method, waiting, deferred, given, late>>

\* The URL of a GET batch is too long: its halves are sent instead, and the peer
\* is closed without rejecting anybody.
SplitLong(b) ==
  /\ InPhase(b, "checking")
  /\ Split(b)
  /\ UNCHANGED <<method, waiting, deferred, given, answer, late>>

\* Mutant of MaySend: no return after the batch was split.
MaySendSplit(b) ==
  InPhase(b, "checking") \/ (InPhase(b, "split") /\ \A r \in ToSet(Items(b)) : sent[r] < 2)

MaySend(b) == InPhase(b, "checking")

\* The URL is short enough: the wrapped link is called with the batch request.
Send(b) ==
  /\ MaySend(b)
  /\ batches' = Moved(b, "sent") /\ sent' = Called(b)
  /\ UNCHANGED <<method, waiting, deferred, given, answer, late>>

\* The wrapped link fails, or the response to a batch is invalid or ends before it
\* is complete: whoever still waits gets the error.
Fail(b) ==
  /\ InPhase(b, "sent") \/ InPhase(b, "reading")
  /\ batches' = Moved(b, "done")
  /\ answer' = Settled(Unsettled(b), "error")
  /\ UNCHANGED <<method, waiting, deferred, given, sent, late>>

\* The response of a single request, or an error response (status >= 400) to a
\* batch, which every member gets as it is.
Respond(b) ==
  /\ InPhase(b, "sent") /\ ~batches[b].cut
  /\ batches' = Moved(b, "done")
  /\ answer' = Settled(Unsettled(b), "response")
  /\ UNCHANGED <<method, waiting, deferred, given, sent, late>>

\* The response of one member comes in.
Deal(b, r) ==
  /\ InPhase(b, "sent") \/ InPhase(b, "reading")
  /\ Len(Items(b)) > 1 /\ ~batches[b].cut
  /\ r \in Unsettled(b)
  /\ batches' = Moved(b, "reading")
  /\ answer' = [answer EXCEPT ![r] = "response"]
  /\ UNCHANGED <<method, waiting, deferred, given, sent, late>>

\* As many cancel messages as requests: members that were answered send none.
Abandoned(b, r) ==
  \A m \in ToSet(Items(b)) : m = r \/ (m \in given /\ answer[m] = "error")

\* The peers of a batch, while it has one.
HasPeer(b) == Len(Items(b)) > 1 /\ batches[b].phase \in {"starved", "checking", "sent", "reading"}

\* A caller aborts: a member of an open peer is rejected and sends a cancel; the
\* signal of a single request is that of the call.
AbortRequest(r) ==
  /\ r \notin given /\ answer[r] \in {"none", "pending"}
  /\ given' = given \cup {r}
  /\ LET mine  == {b \in 1..Len(batches) : r \in ToSet(Items(b)) /\ batches[b].phase # "split"}
         peers == {b \in mine : HasPeer(b)}
         cuts  == {b \in peers : Abandoned(b, r)} \cup {b \in mine : Len(Items(b)) = 1}
     IN  /\ batches' = [b \in 1..Len(batches) |-> [batches[b] EXCEPT !.cut = @ \/ b \in cuts]]
         /\ answer' = IF peers # {} THEN [answer EXCEPT ![r] = "error"] ELSE answer
         /\ late' = IF answer[r] = "pending" /\ \A b \in mine : batches[b].phase \notin {"sent", "reading"}
                    THEN late \cup {r} ELSE late
  /\ UNCHANGED <<method, waiting, deferred, sent>>

Step(b) ==
  \/ SplitLarge(b) \/ OpenPeer(b) \/ SplitLong(b) \/ Send(b)
  \/ Fail(b) \/ Respond(b)
  \/ \E r \in Requests : Deal(b, r)

BatchNext ==
  \/ \E r \in Requests : Request(r) \/ AbortRequest(r)
  \/ ProcessPending
  \/ \E b \in 1..Len(batches) : Step(b)

\* Deferred callbacks run, awaits end, and the link settles.
BatchFairness == WF_batchVars(ProcessPending) /\ WF_batchVars(\E b \in 1..Len(batches) : Step(b))

BatchSpec == BatchInit /\ [][BatchNext]_batchVars /\ BatchFairness

-----------------------------------------------------------------------------
(* What the plugin promises.                                               *)

\* Members of a batch stay apart.  However it is split, by size or by the length
\* of its URL, each request is sent at most once; nobody gets a response or an
\* error, but the error of his own abort, from a batch that was not sent
\* (executeBatch, suppressErrorFromCurrentBatch); and the batch request is
\* aborted only when every member has aborted (the cancel messages).
MembersStayApart ==
  /\ \A r \in Requests :
       /\ sent[r] <= 1
       /\ answer[r] \in {"response", "error"} /\ r \notin given => sent[r] = 1
  /\ \A b \in 1..Len(batches) : batches[b].cut => ToSet(Items(b)) \subseteq given

\* In the end no request is pending, except beside one that was aborted after its call
\* and before it was sent: their batch, and no other, may never be sent (executeBatch:
\* the batch request waits for as many request messages as there are members).
IsHeldUp(r) ==
  \E b \in 1..Len(batches) :
    /\ batches[b].phase # "split" /\ r \in ToSet(Items(b))
    /\ (ToSet(Items(b)) \cap late) \ {r} # {}
BatchedCallsSettle == <>[](\A r \in Requests : answer[r] = "pending" => IsHeldUp(r))
=============================================================================
