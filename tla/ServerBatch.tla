------------------------------ MODULE ServerBatch ------------------------------
(***************************************************************************)
(* A batch request on the server (server/src/plugins/batch.ts): it is checked, *)
(* its members go through the rest of the handler at once, and their frames    *)
(* are collected, or written to a stream, as they come, which is kept alive     *)
(* between them, as it is unless that is disabled, and may be cancelled.       *)
(*                                                                         *)
(* The ServerPeer, which calls the handler for every message and sends what     *)
(* its response is made of, frame by frame, is external, and so are the handler *)
(* of a member and the reader of the stream.                                 *)
(***************************************************************************)
EXTENDS Integers, Sequences, SequencesExt, FiniteSets

CONSTANTS
  Batches,      \* sequences of members, each the method of a request
  MaxBatchSize, \* maxSize
  MaxFrames     \* bound: frames of a response

VARIABLES
  batch,     \* the members and how they came: [members, method, streaming, valid]
  progress,  \* of the interceptor: "called", "passed", "refused", "running", "replied" or "failed"
  member,    \* each member: "handling", "encoding", "settled" or "rejected"
  frames,    \* the frames each has sent
  output,    \* responseMessages, or what is in the stream: the members of the frames
  channel,   \* the stream: "none", "readable", "closed", "errored" or "cancelled"
  keepAlive, \* keepAliveTimer is set
  over,      \* Promise.all has settled and its continuation has run
  closedPeer \* peer.close was called

serverBatchVars == <<batch, progress, member, frames, output, channel, keepAlive, over, closedPeer>>

BatchMembers == DOMAIN batch.members
Interceptions ==
  [members : Batches, method : {"GET", "QUERY", "POST"}, streaming : BOOLEAN, valid : BOOLEAN, plain : {FALSE}]
Plain == [members |-> <<>>, method |-> "GET", streaming |-> FALSE, valid |-> FALSE, plain |-> TRUE]

ServerBatchInit ==
  /\ batch \in Interceptions \cup {Plain}
  /\ progress = "called" /\ channel = "none" /\ keepAlive = FALSE
  /\ member = [i \in BatchMembers |-> "handling"] /\ frames = [i \in BatchMembers |-> 0]
  /\ output = <<>> /\ over = FALSE /\ closedPeer = FALSE

\* No orpc-batch header, or one that is not understood, does not fit its method or is
\* too large.
IsRefused ==
  \/ ~batch.valid
  \/ batch.method \in {"GET", "QUERY"} /\ \E i \in BatchMembers : batch.members[i] # batch.method
  \/ Len(batch.members) > MaxBatchSize
Refuse ==
  /\ progress = "called" /\ (batch.plain \/ IsRefused)
  /\ progress' = IF batch.plain THEN "passed" ELSE "refused"
  /\ UNCHANGED <<batch, member, frames, output, channel, keepAlive, over, closedPeer>>

\* The members are given to the peer all at once; a streaming response does not wait.
Accept ==
  /\ progress = "called" /\ ~batch.plain /\ ~IsRefused
  /\ progress' = IF batch.streaming THEN "replied" ELSE "running"
  /\ channel' = IF batch.streaming THEN "readable" ELSE "none"
  /\ keepAlive' = batch.streaming
  /\ UNCHANGED <<batch, member, frames, output, over, closedPeer>>

Running == progress \in {"running", "replied"}

\* handleIndividualRequest: a response, a 404 or a 500, each of them a frame; a response
\* that streams has more.  A peer that is closed aborts what is still at work.
NextFrame(i) ==
  /\ Running /\ member[i] = "handling" /\ frames[i] < MaxFrames /\ ~closedPeer
  /\ member' = [member EXCEPT ![i] = "encoding"]
  /\ UNCHANGED <<batch, progress, frames, output, channel, keepAlive, over, closedPeer>>

\* send of the peer: enqueue throws unless the stream is readable, and then what follows
\* it does not run.
Sendable == ~batch.streaming \/ channel = "readable"
KeptAliveFirst == keepAlive \/ batch.streaming \* Mutant of KeptAlive: scheduled before the frame is written.
KeptAlive == keepAlive \/ (batch.streaming /\ channel = "readable")
SendFrame(i) ==
  /\ member[i] = "encoding"
  /\ IF Sendable
       THEN /\ member' = [member EXCEPT ![i] = "handling"]
            /\ frames' = [frames EXCEPT ![i] = @ + 1] /\ output' = Append(output, i)
       ELSE member' = [member EXCEPT ![i] = "rejected"] /\ UNCHANGED <<frames, output>>
  /\ keepAlive' = KeptAlive
  /\ UNCHANGED <<batch, progress, channel, over, closedPeer>>

\* encodePeerMessage fails on the way to the stream.
EncodingFails(i) ==
  /\ batch.streaming /\ member[i] = "encoding"
  /\ member' = [member EXCEPT ![i] = "rejected"]
  /\ UNCHANGED <<batch, progress, frames, output, channel, keepAlive, over, closedPeer>>

\* peer.message resolves: all has been sent, or the peer was closed.
MemberEnds(i) ==
  /\ Running /\ member[i] = "handling" /\ (frames[i] > 0 \/ closedPeer)
  /\ member' = [member EXCEPT ![i] = "settled"]
  /\ UNCHANGED <<batch, progress, frames, output, channel, keepAlive, over, closedPeer>>

AllSettled == \A i \in BatchMembers : member[i] = "settled"
OneRejected == \E i \in BatchMembers : member[i] = "rejected"

\* Promise.all resolves: the response of a buffered batch, or the end of the stream,
\* whose close throws when it was cancelled, so that the catch runs as well.
JoinResolves ==
  /\ Running /\ ~over /\ AllSettled
  /\ over' = TRUE /\ closedPeer' = TRUE /\ keepAlive' = FALSE
  /\ progress' = "replied"
  /\ channel' = IF channel = "readable" THEN "closed" ELSE channel
  /\ UNCHANGED <<batch, member, frames, output>>

\* One of the messages has a binary part, and they cannot be encoded as one Blob: the
\* interceptor throws.
ResponseFails ==
  /\ progress = "running" /\ ~over /\ AllSettled /\ output # <<>>
  /\ over' = TRUE /\ closedPeer' = TRUE /\ progress' = "failed"
  /\ UNCHANGED <<batch, member, frames, output, channel, keepAlive>>

\* It rejects with the first that does: the stream fails, if it is still there.
JoinRejects ==
  /\ Running /\ ~over /\ OneRejected
  /\ over' = TRUE /\ closedPeer' = TRUE /\ keepAlive' = FALSE
  /\ channel' = IF channel = "readable" THEN "errored" ELSE channel
  /\ UNCHANGED <<batch, progress, member, frames, output>>

\* The timer fires: an empty frame, which readers ignore, or the end of the timer.
KeepAliveFires ==
  /\ keepAlive /\ keepAlive' = (channel = "readable")
  /\ UNCHANGED <<batch, progress, member, frames, output, channel, over, closedPeer>>

\* The reader of the stream goes away.
CancelStream ==
  /\ channel = "readable"
  /\ channel' = "cancelled" /\ keepAlive' = FALSE
  /\ UNCHANGED <<batch, progress, member, frames, output, over, closedPeer>>

ServerBatchNext ==
  \/ Refuse \/ Accept \/ JoinResolves \/ ResponseFails \/ JoinRejects \/ KeepAliveFires \/ CancelStream
  \/ \E i \in BatchMembers : NextFrame(i) \/ SendFrame(i) \/ EncodingFails(i) \/ MemberEnds(i)

-----------------------------------------------------------------------------
(* What the plugin promises *)

\* A stream is kept alive exactly as long as it can be read, however it ends and whatever
\* members are still sending then (scheduleKeepAlive, clearKeepAlive); it ends well
\* only when every member was answered in full, and fails only by one that was not.
BatchIsAnswered ==
  /\ keepAlive <=> channel = "readable"
  /\ channel = "closed" \/ (~batch.streaming /\ progress = "replied") =>
       \A i \in BatchMembers : member[i] = "settled" /\ frames[i] > 0
                                 /\ Cardinality({ k \in DOMAIN output : output[k] = i }) = frames[i]
  /\ channel = "errored" => OneRejected
  /\ progress \in {"passed", "refused"} => output = <<>>
=============================================================================
