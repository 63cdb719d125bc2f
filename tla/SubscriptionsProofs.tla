------------------------- MODULE SubscriptionsProofs -------------------------
(***************************************************************************)
(* Proofs about the subscribers of the publishers: the iterator that         *)
(* Publisher.subscribe returns, the listener of a Redis publisher, the       *)
(* connection that the listeners of an Upstash publisher share, and the      *)
(* subscriber of a Durable Object.                                           *)
(***************************************************************************)
EXTENDS SubscribeIterator, RedisSubscription, UpstashSubscriptions, DurablePublisher,
        SequenceTheorems, FiniteSetTheorems, WellFoundedInduction, TLAPS

\* A set of numbers has a least one: induction over numbers, as a fact about sets.
LEMMA LeastElement ==
  ASSUME NEW T \in SUBSET Nat, T # {}
  PROVE  \E k \in T : \A j \in T : k <= j
<1> DEFINE R == OpToRel(<, Nat)
<1>1. \A i, j \in Nat : i < j => <<i, j>> \in R
  BY DEF OpToRel
<1>2. IsWellFoundedOn(R, Nat)
  BY NatLessThanWellFounded
<1> HIDE DEF R
<1>3. PICK k \in T : \A j \in T : ~(<<j, k>> \in R)
  BY <1>2, WFMin
<1>4. ASSUME NEW j \in T PROVE k <= j
  <2>1. j \in Nat /\ k \in Nat /\ ~(j < k)
    BY <1>1, <1>3
  <2> QED BY <2>1
<1> QED BY <1>4

-----------------------------------------------------------------------------
(* The iterator of a subscription.                                         *)

\* What is buffered is the newest there is, and what was returned before, or is
\* on its way, is older than all of it.
HistoryIsOrdered ==
  /\ Len(buffer) <= accepted
  /\ \A i \in 1..Len(buffer) : buffer[i] = accepted - Len(buffer) + i
  /\ \A i \in 1..Len(received) : received[i] <= accepted - Len(buffer)
  /\ \A i, j \in 1..Len(received) : i < j => received[i] < received[j]
  /\ \A n \in InFlight : n <= accepted - Len(buffer) /\ \A i \in 1..Len(received) : received[i] < n

\* At most the last call waits, and never beside a buffered event.  A call that the
\* end of the subscription has answered may be left among the resolvers.
OnlyTheLastWaits ==
  /\ call \in {NoCall, calls} /\ (call = NoCall => result = <<>>)
  /\ resolvers \in {<<>>, <<calls>>}
  /\ resolvers # <<>> => buffer = <<>> /\ calls # NoCall
  /\ terminal = "none" => (resolvers # <<>> <=> call # NoCall /\ result = <<>>)
  /\ terminal # "none" => call = NoCall \/ result # <<>>

\* How a subscription ends, and what its consumer learns of it.
EndIsTold ==
  /\ atEnd <= accepted
  /\ terminal = "none" => ended = "no" /\ result \notin {<<"done">>, <<"error">>}
  /\ terminal = "abort" => aborted /\ buffer = <<>>
  /\ terminal = "cancelled" => ended = "done"
  /\ result = <<"done">> => terminal = "cancelled"
  /\ result = <<"error">> => terminal \in {"error", "abort"}
  /\ ended = "thrown" => terminal \in {"error", "abort"} /\ call = NoCall

\* Every event before the end is accounted for.  Whoever has been told of an error
\* had nothing in the buffer.
EventsAreAccountedFor ==
  ended # "done" /\ terminal # "abort" =>
    \A n \in 1..(IF terminal = "none" THEN accepted ELSE atEnd) :
      \/ n \in Range(received) \/ n \in overflowed \/ n \in InFlight
      \/ ended # "thrown" /\ result # <<"error">> /\ n > accepted - Len(buffer)

IteratorInv ==
  IteratorTypeOK /\ HistoryIsOrdered /\ OnlyTheLastWaits /\ EndIsTold /\ EventsAreAccountedFor

LEMMA RangeOfAppend ==
  ASSUME NEW S, NEW s \in Seq(S), NEW x \in S
  PROVE  Range(Append(s, x)) = Range(s) \cup {x}
<1>1. /\ Len(s) \in Nat /\ DOMAIN s = 1..Len(s)
      /\ DOMAIN Append(s, x) = 1..(Len(s) + 1)
      /\ \A i \in 1..Len(s) : Append(s, x)[i] = s[i]
      /\ Append(s, x)[Len(s) + 1] = x
  BY AppendProperties
<1> QED BY <1>1 DEF Range

\* What the invariant says of types, by conjunct.
LEMMA IteratorTypes ==
  ASSUME IteratorTypeOK
  PROVE  /\ accepted \in Nat /\ accepted <= MaxDelivered /\ MaxDelivered \in Nat /\ MaxBuffered \in Nat
         /\ buffer \in Seq(1..MaxDelivered) /\ Len(buffer) \in Nat /\ Len(buffer) <= MaxBuffered
         /\ received \in Seq(1..MaxDelivered) /\ Len(received) \in Nat
         /\ \A i \in 1..Len(received) : received[i] \in 1..MaxDelivered
         /\ calls \in Nat /\ call \in Nat
         /\ overflowed \subseteq 1..MaxDelivered
         /\ atEnd \in Nat
BY IteratorAssumption DEF IteratorTypeOK

\* What is in flight is a number.
LEMMA InFlightFacts ==
  ASSUME IteratorTypeOK
  PROVE  InFlight \subseteq 1..MaxDelivered
<1>1. CASE result \in {<<>>, <<"done">>, <<"error">>}
  BY <1>1 DEF InFlight
<1>2. CASE \E n \in 1..MaxDelivered : result = <<"value", n>>
  BY <1>2 DEF InFlight
<1> QED BY <1>1, <1>2 DEF IteratorTypeOK, Results

\* An event that is buffered: the buffer stays the newest there is, and what it
\* loses is the oldest of it.
LEMMA BufferedFacts ==
  ASSUME IteratorTypeOK, HistoryIsOrdered, accepted < MaxDelivered,
         buffer' = Buffered(accepted + 1)
  PROVE  /\ buffer' \in Seq(1..MaxDelivered) /\ Len(buffer') \in Nat
         /\ Len(buffer') <= MaxBuffered /\ Len(buffer') <= accepted + 1
         /\ \A i \in 1..Len(buffer') : buffer'[i] = accepted + 1 - Len(buffer') + i
         /\ Len(buffer') \in {Len(buffer), Len(buffer) + 1}
         /\ Range(Append(buffer, accepted + 1)) = (accepted - Len(buffer) + 1)..(accepted + 1)
         /\ Range(buffer') = (accepted + 2 - Len(buffer'))..(accepted + 1)
<1> DEFINE b == Append(buffer, accepted + 1)
<1> DEFINE n == Len(buffer)
<1>1. /\ accepted \in Nat /\ accepted + 1 \in 1..MaxDelivered /\ n \in Nat
      /\ n <= accepted /\ n <= MaxBuffered /\ MaxBuffered \in Nat /\ MaxDelivered \in Nat
      /\ buffer \in Seq(1..MaxDelivered)
  BY IteratorTypes DEF HistoryIsOrdered
<1>2. /\ b \in Seq(1..MaxDelivered) /\ Len(b) = n + 1
      /\ \A i \in 1..n : b[i] = buffer[i]
      /\ b[n + 1] = accepted + 1
  BY <1>1, AppendProperties
<1>3. \A i \in 1..(n + 1) : b[i] = accepted - n + i
  BY <1>1, <1>2 DEF HistoryIsOrdered
<1>4. DOMAIN b = 1..(n + 1)
  BY <1>1, <1>2
<1>5. buffer' = IF Len(b) > MaxBuffered THEN Tail(b) ELSE b
  BY DEF Buffered
<1>6. Range(b) = (accepted - n + 1)..(accepted + 1)
  <2>1. \A x \in (accepted - n + 1)..(accepted + 1) : x - (accepted - n) \in 1..(n + 1) /\ b[x - (accepted - n)] = x
    <3> HIDE DEF b, n
    <3> QED BY <1>1, <1>3
  <2>2. \A i \in 1..(n + 1) : b[i] \in (accepted - n + 1)..(accepted + 1)
    <3> HIDE DEF b, n
    <3> QED BY <1>1, <1>3
  <2> HIDE DEF b, n
  <2> QED BY <2>1, <2>2, <1>4 DEF Range
<1>7. CASE Len(b) > MaxBuffered
  <2>1. /\ buffer' = Tail(b) /\ Tail(b) \in Seq(1..MaxDelivered) /\ Len(Tail(b)) = n
        /\ \A i \in 1..n : Tail(b)[i] = b[i + 1]
    <3>1. b # <<>>
      BY <1>1, <1>2
    <3>2. /\ Tail(b) \in Seq(1..MaxDelivered) /\ Len(Tail(b)) = Len(b) - 1
          /\ \A i \in 1..Len(Tail(b)) : Tail(b)[i] = b[i + 1]
      BY <1>2, <3>1, HeadTailProperties
    <3>3. Len(Tail(b)) = n
      BY <1>1, <1>2, <3>2
    <3> QED BY <1>5, <1>7, <3>2, <3>3
  <2> DEFINE t == Tail(b)
  <2>2. \A i \in 1..n : t[i] = accepted + 1 - n + i
    <3> HIDE DEF b, n
    <3> QED BY <1>1, <1>3, <2>1
  <2>3. DOMAIN t = 1..n
    BY <2>1
  <2>4. Range(t) = (accepted + 2 - n)..(accepted + 1)
    <3>1. \A x \in (accepted + 2 - n)..(accepted + 1) : x - (accepted + 1 - n) \in 1..n /\ t[x - (accepted + 1 - n)] = x
      <4> HIDE DEF b, n, t
      <4> QED BY <1>1, <2>2
    <3>2. \A i \in 1..n : t[i] \in (accepted + 2 - n)..(accepted + 1)
      <4> HIDE DEF b, n, t
      <4> QED BY <1>1, <2>2
    <3> HIDE DEF b, n, t
    <3> QED BY <3>1, <3>2, <2>3 DEF Range
  <2>5. Len(buffer') = n
    BY <2>1
  <2>6. buffer' = t
    BY <2>1
  <2>7. Len(b) = n + 1 /\ n <= accepted + 1
    BY <1>1, <1>2
  <2>8. Append(buffer, accepted + 1) = b /\ Len(buffer) = n
    OBVIOUS
  <2> HIDE DEF b, n, t
  <2> QED BY <1>1, <1>6, <2>1, <2>2, <2>4, <2>5, <2>6, <2>7, <2>8
<1>8. CASE ~(Len(b) > MaxBuffered)
  <2>1. buffer' = b
    BY <1>5, <1>8
  <2>2. Len(buffer') = n + 1 /\ n + 1 <= MaxBuffered
    BY <1>1, <1>2, <1>8, <2>1
  <2>3. Append(buffer, accepted + 1) = b /\ Len(buffer) = n
    OBVIOUS
  <2>4. accepted + 1 - (n + 1) = accepted - n /\ accepted + 2 - (n + 1) = accepted - n + 1
    BY <1>1
  <2> HIDE DEF b, n
  <2>5. /\ Len(buffer') \in Nat /\ Len(buffer') <= accepted + 1 /\ Len(buffer') \in {n, n + 1}
    BY <1>1, <2>2
  <2>6. \A i \in 1..Len(buffer') : buffer'[i] = accepted + 1 - Len(buffer') + i
    BY <1>3, <2>1, <2>2, <2>4
  <2>7. Range(buffer') = (accepted + 2 - Len(buffer'))..(accepted + 1)
    BY <1>6, <2>1, <2>2, <2>4
  <2> QED BY <1>2, <1>6, <2>1, <2>2, <2>3, <2>5, <2>6, <2>7
<1> QED BY <1>7, <1>8

\* The parts of the invariant that an action leaves alone.
LEMMA SameParts ==
  /\ UNCHANGED <<accepted, buffer, received, call, result>> /\ HistoryIsOrdered => HistoryIsOrdered'
  /\ UNCHANGED <<call, result>> => InFlight' = InFlight
BY DEF HistoryIsOrdered, InFlight

\* Deliver keeps the invariant.
LEMMA DeliverKeeps ==
  ASSUME IteratorInv, Deliver
  PROVE  IteratorInv'
<1> USE DEF IteratorInv
<1>1. /\ accepted' = accepted + 1 /\ accepted + 1 \in 1..MaxDelivered /\ accepted \in Nat
      /\ accepted < MaxDelivered /\ MaxDelivered \in Nat
      /\ ~aborted /\ terminal # "abort"
      /\ UNCHANGED <<call, calls, terminal, aborted, listening, sub, unsub, ended, received, atEnd>>
  BY IteratorTypes DEF Deliver, Ignored, EndIsTold
<1>2. CASE resolvers # <<>>
  <2>1. /\ resolvers = <<calls>> /\ buffer = <<>> /\ calls # NoCall
        /\ buffer' = buffer /\ overflowed' = overflowed /\ resolvers' = <<>>
        /\ result' = IF calls = call /\ result = <<>> THEN <<"value", accepted + 1>> ELSE result
    BY <1>2 DEF Deliver, OnlyTheLastWaits, SettleCall
  <2>2. Len(buffer) = 0 /\ Len(buffer') = 0
    BY <2>1
  <2>3. CASE calls = call /\ result = <<>>
    <3>1. result' = <<"value", accepted + 1>> /\ InFlight' = {accepted + 1} /\ InFlight = {}
      BY <1>1, <2>1, <2>3 DEF InFlight
    <3>2. terminal = "none"
      BY <2>1, <2>3 DEF OnlyTheLastWaits
    <3>3. IteratorTypeOK'
      BY <1>1, <2>1, <3>1 DEF IteratorTypeOK, Results
    <3>4. HistoryIsOrdered'
      <4>1. \A i \in 1..Len(received) : received[i] \in Nat /\ received[i] <= accepted
        BY IteratorTypes, <2>2 DEF HistoryIsOrdered
      <4> QED BY <1>1, <2>1, <2>2, <3>1, <4>1 DEF HistoryIsOrdered
    <3>5. OnlyTheLastWaits'
      BY <1>1, <2>1, <2>3, <3>1, <3>2 DEF OnlyTheLastWaits
    <3>6. EndIsTold'
      BY <1>1, <2>1, <3>1, <3>2, IteratorTypes DEF EndIsTold
    <3>7. EventsAreAccountedFor'
      <4>1. ended = "no" /\ terminal' = "none"
        BY <1>1, <3>2 DEF EndIsTold
      <4>2. SUFFICES ASSUME NEW n \in 1..(accepted + 1)
                     PROVE n \in Range(received) \/ n \in overflowed \/ n \in InFlight'
        BY <1>1, <2>1, <4>1 DEF EventsAreAccountedFor
      <4>3. CASE n = accepted + 1
        BY <4>3, <3>1
      <4>4. CASE n \in 1..accepted
        BY <4>4, <1>1, <2>2, <3>1, <3>2, <4>1 DEF EventsAreAccountedFor
      <4> QED BY <1>1, <4>3, <4>4
    <3> QED BY <3>3, <3>4, <3>5, <3>6, <3>7
  <2>4. CASE ~(calls = call /\ result = <<>>)
    <3>1. result' = result /\ InFlight' = InFlight
      BY <1>1, <2>1, <2>4 DEF InFlight
    <3>2. terminal # "none"
      BY <1>2, <2>1, <2>4 DEF OnlyTheLastWaits
    <3>3. IteratorTypeOK'
      BY <1>1, <2>1, <3>1 DEF IteratorTypeOK
    <3>4. HistoryIsOrdered'
      <4>1. \A i \in 1..Len(received) : received[i] \in Nat /\ received[i] <= accepted
        BY IteratorTypes, <2>2 DEF HistoryIsOrdered
      <4>2. \A n \in InFlight : n \in Nat /\ n <= accepted
        BY <2>2, InFlightFacts, <1>1 DEF HistoryIsOrdered
      <4> QED BY <1>1, <2>1, <2>2, <3>1, <4>1, <4>2 DEF HistoryIsOrdered
    <3>5. OnlyTheLastWaits'
      BY <1>1, <2>1, <3>1, <3>2 DEF OnlyTheLastWaits
    <3>6. EndIsTold'
      BY SMTT(20), <1>1, <2>1, <3>1, <3>2, IteratorTypes DEF EndIsTold
    <3>7. EventsAreAccountedFor'
      BY <1>1, <2>1, <2>2, <3>1, <3>2, IteratorTypes DEF EventsAreAccountedFor, EndIsTold
    <3> QED BY <3>3, <3>4, <3>5, <3>6, <3>7
  <2> QED BY <2>3, <2>4
<1>3. CASE resolvers = <<>>
  <2> DEFINE n == Len(buffer)
  <2> DEFINE m == Len(buffer')
  <2> DEFINE all == Range(Append(buffer, accepted + 1))
  <2>1. /\ buffer' = Buffered(accepted + 1)
        /\ overflowed' = overflowed \cup (all \ Range(buffer'))
        /\ UNCHANGED <<resolvers, result>>
    BY <1>3 DEF Deliver
  <2>2. /\ buffer' \in Seq(1..MaxDelivered) /\ m \in Nat /\ n \in Nat
        /\ m <= MaxBuffered /\ m <= accepted + 1 /\ m \in {n, n + 1} /\ n <= accepted
        /\ all = (accepted - n + 1)..(accepted + 1)
        /\ Range(buffer') = (accepted + 2 - m)..(accepted + 1)
    BY <1>1, <2>1, BufferedFacts, IteratorTypes DEF HistoryIsOrdered
  <2>3. \A i \in 1..m : buffer'[i] = accepted + 1 - m + i
    BY <1>1, <2>1, BufferedFacts, Zenon
  <2>4. InFlight' = InFlight
    BY <1>1, <2>1 DEF InFlight
  <2>5. IteratorTypeOK'
    <3>1. all \subseteq 1..MaxDelivered
      <4> HIDE DEF all, n, m
      <4> QED BY <1>1, <2>2
    <3>2. overflowed' \subseteq 1..MaxDelivered
      <4> HIDE DEF all
      <4> QED BY <2>1, <3>1, IteratorTypes
    <3>3. Len(buffer') <= MaxBuffered
      BY <2>2
    <3>4. accepted' \in 0..MaxDelivered
      BY <1>1
    <3> HIDE DEF all, m, n
    <3> QED BY <1>1, <2>1, <2>2, <3>2, <3>3, <3>4 DEF IteratorTypeOK
  <2>6. HistoryIsOrdered'
    <3>1. \A i \in 1..Len(received) : received[i] \in Nat /\ received[i] <= accepted - n
      BY IteratorTypes DEF HistoryIsOrdered
    <3>2. \A x \in InFlight : x \in Nat /\ x <= accepted - n
      BY InFlightFacts, <1>1 DEF HistoryIsOrdered
    <3>3. Len(buffer') = m /\ accepted - n <= accepted + 1 - m
      BY <2>2, <1>1
    <3>4. \A i \in 1..Len(received) : received[i] <= accepted + 1 - m
      <4> HIDE DEF m, n
      <4> QED BY <1>1, <2>2, <3>1, <3>3
    <3>5. \A x \in InFlight : x <= accepted + 1 - m
      <4> HIDE DEF m, n
      <4> QED BY <1>1, <2>2, <3>2, <3>3
    <3>6. /\ \A i, j \in 1..Len(received) : i < j => received[i] < received[j]
          /\ \A x \in InFlight : \A i \in 1..Len(received) : received[i] < x
      BY DEF HistoryIsOrdered
    <3> HIDE DEF m, n
    <3> QED BY <1>1, <2>2, <2>3, <2>4, <3>3, <3>4, <3>5, <3>6 DEF HistoryIsOrdered
  <2>7. OnlyTheLastWaits'
    BY <1>1, <1>3, <2>1 DEF OnlyTheLastWaits
  <2>8. EndIsTold'
    BY <1>1, <2>1, IteratorTypes DEF EndIsTold
  <2>9. EventsAreAccountedFor'
    <3>1. SUFFICES ASSUME ended # "done", terminal # "abort",
                          NEW k \in 1..(IF terminal = "none" THEN accepted + 1 ELSE atEnd)
                   PROVE  \/ k \in Range(received) \/ k \in overflowed' \/ k \in InFlight
                          \/ ended # "thrown" /\ result # <<"error">> /\ k > accepted + 1 - m
      BY <1>1, <2>1, <2>4 DEF EventsAreAccountedFor
    <3>2. k \in Nat /\ atEnd \in Nat /\ atEnd <= accepted /\ k > 0
      BY <1>1, IteratorTypes DEF EndIsTold
    <3>3. CASE terminal = "none" /\ k = accepted + 1
      <4>1. ended # "thrown" /\ result # <<"error">>
        BY <3>3 DEF EndIsTold
      <4>2. CASE m > 0
        <5> HIDE DEF m, n
        <5> QED BY <1>1, <2>2, <3>3, <4>1, <4>2
      <4>3. CASE m = 0
        <5>1. k \in all /\ k \notin Range(buffer')
          <6> HIDE DEF m, n, all
          <6> QED BY <1>1, <2>2, <3>3, <4>3
        <5> QED BY <2>1, <5>1
      <4> QED BY <2>2, <4>2, <4>3
    <3>4. CASE ~(terminal = "none" /\ k = accepted + 1)
      <4>1. k \in 1..(IF terminal = "none" THEN accepted ELSE atEnd) /\ k <= accepted
        BY <1>1, <3>1, <3>2, <3>4
      <4>2. \/ k \in Range(received) \/ k \in overflowed \/ k \in InFlight
            \/ ended # "thrown" /\ result # <<"error">> /\ k > accepted - n
        BY <3>1, <4>1 DEF EventsAreAccountedFor
      <4>3. ASSUME k > accepted - n, ~(k > accepted + 1 - m) PROVE k \in overflowed'
        <5>1. k \in all /\ k \notin Range(buffer')
          <6> HIDE DEF m, n, all
          <6> QED BY <1>1, <2>2, <3>2, <4>1, <4>3
        <5> QED BY <2>1, <5>1
      <4> HIDE DEF m, n, all
      <4> QED BY <2>1, <4>2, <4>3
    <3> QED BY <3>3, <3>4
  <2> QED BY <2>5, <2>6, <2>7, <2>8, <2>9
<1> QED BY <1>2, <1>3

\* terminate keeps the invariant, by whomever it is called.
LEMMA TerminateKeeps ==
  ASSUME IteratorInv, NEW kind \in {"error", "cancelled"}, Terminate(kind),
         UNCHANGED <<accepted, call, calls, aborted, received, overflowed>>,
         sub' \in {"pending", "active", "failed"}, unsub' \in BOOLEAN,
         ended' = IF kind = "cancelled" THEN "done" ELSE ended
  PROVE  IteratorInv'
<1> USE DEF IteratorInv
<1>1. CASE terminal # "none"
  <2>1. UNCHANGED <<terminal, listening, result, resolvers, buffer, atEnd>>
    BY <1>1 DEF Terminate
  <2>2. ended' \in {ended, "done"}
    OBVIOUS
  <2>3. IteratorTypeOK'
    BY <2>1, <2>2 DEF IteratorTypeOK
  <2>4. HistoryIsOrdered' /\ InFlight' = InFlight
    BY <2>1, SameParts
  <2>5. OnlyTheLastWaits'
    BY <2>1 DEF OnlyTheLastWaits
  <2>6. EndIsTold'
    BY <1>1, <2>1, <2>2 DEF EndIsTold
  <2>7. EventsAreAccountedFor'
    BY <1>1, <2>1, <2>2, <2>4 DEF EventsAreAccountedFor
  <2> QED BY <2>3, <2>4, <2>5, <2>6, <2>7
<1>2. CASE terminal = "none"
  <2>1. /\ terminal' = IF kind = "error" /\ aborted THEN "abort" ELSE kind
        /\ listening' = FALSE
        /\ Answer(kind)
        /\ resolvers' = IF aborted THEN <<>> ELSE resolvers
        /\ buffer' = IF aborted THEN <<>> ELSE buffer
        /\ atEnd' = accepted
    BY <1>2 DEF Terminate, Clears
  <2>2. ended = "no" /\ terminal' \in {"error", "abort", "cancelled"} /\ result \notin {<<"done">>, <<"error">>}
    BY <1>2, <2>1 DEF EndIsTold
  <2>3. CASE call # NoCall /\ result = <<>>
    <3>1. resolvers = <<calls>> /\ call = calls /\ buffer = <<>> /\ buffer' = <<>>
      BY <1>2, <2>1, <2>3 DEF OnlyTheLastWaits
    <3>2. \E i \in 1..Len(resolvers) : resolvers[i] = call
      BY <3>1
    <3>3. result' = IF kind = "error" THEN <<"error">> ELSE <<"done">>
      BY <2>1, <2>3, <3>2 DEF Answer, SettleCall
    <3>4. result' \in {<<"error">>, <<"done">>} /\ InFlight = {} /\ InFlight' = {}
      BY <2>3, <3>3 DEF InFlight
    <3>5. Len(buffer) = 0 /\ Len(buffer') = 0 /\ resolvers' \in {<<>>, <<calls>>}
      BY <2>1, <3>1
    <3>6. IteratorTypeOK'
      <4>1. resolvers' = <<>> => resolvers' \in Seq(1..MaxDelivered + 1)
        OBVIOUS
      <4>2. resolvers' \in Seq(1..MaxDelivered + 1)
        BY <2>1, <4>1 DEF IteratorTypeOK
      <4>3. terminal' \in Kinds /\ atEnd' \in 0..MaxDelivered /\ ended' \in {"no", "done"}
        BY <2>1, <2>2, IteratorTypes DEF Kinds
      <4>4. result' \in Results /\ buffer' = buffer
        BY <3>1, <3>4 DEF Results
      <4> QED BY <2>1, <4>2, <4>3, <4>4 DEF IteratorTypeOK
    <3>7. HistoryIsOrdered'
      BY <3>1, <3>4, <3>5 DEF HistoryIsOrdered
    <3>8. OnlyTheLastWaits'
      BY <2>2, <2>3, <3>1, <3>4, <3>5 DEF OnlyTheLastWaits
    <3>9. EndIsTold'
      BY <2>1, <2>2, <3>1, <3>3, IteratorTypes DEF EndIsTold
    <3>10. EventsAreAccountedFor'
      <4>1. SUFFICES ASSUME ended' # "done", NEW n \in 1..accepted
                     PROVE  n \in Range(received) \/ n \in overflowed
        BY <2>1, <2>2, <3>4 DEF EventsAreAccountedFor
      <4>2. ~(n > accepted - Len(buffer))
        BY <3>5, IteratorTypes
      <4> QED BY <1>2, <2>2, <3>4, <4>1, <4>2 DEF EventsAreAccountedFor
    <3> QED BY <3>6, <3>7, <3>8, <3>9, <3>10
  <2>4. CASE ~(call # NoCall /\ result = <<>>)
    <3>1. resolvers = <<>> /\ resolvers' = <<>>
      BY <1>2, <2>1, <2>4 DEF OnlyTheLastWaits
    <3>2. result' = result /\ InFlight' = InFlight
      BY <2>1, <3>1 DEF Answer, InFlight
    <3>3. buffer' \in {<<>>, buffer} /\ Len(buffer') \in Nat /\ Len(buffer') <= Len(buffer)
      BY <2>1, IteratorTypes
    <3>4. IteratorTypeOK'
      <4>1. buffer' \in Seq(1..MaxDelivered) /\ Len(buffer') <= MaxBuffered
        <5>1. buffer' = <<>> => buffer' \in Seq(1..MaxDelivered)
          OBVIOUS
        <5>2. buffer' \in Seq(1..MaxDelivered)
          BY <3>3, <5>1, IteratorTypes
        <5> QED BY <3>3, <5>2, IteratorTypes
      <4>2. terminal' \in Kinds /\ atEnd' \in 0..MaxDelivered /\ ended' \in {"no", "done"}
        BY <2>1, <2>2, IteratorTypes DEF Kinds
      <4> QED BY <2>1, <3>1, <3>2, <4>1, <4>2, IteratorTypes DEF IteratorTypeOK
    <3>5. HistoryIsOrdered'
      <4>1. \A i \in 1..Len(received) : received[i] \in Nat /\ received[i] <= accepted - Len(buffer)
        BY IteratorTypes DEF HistoryIsOrdered
      <4>2. \A n \in InFlight : n \in Nat /\ n <= accepted - Len(buffer)
        BY InFlightFacts, IteratorTypes DEF HistoryIsOrdered
      <4> DEFINE n == Len(buffer)
      <4> DEFINE m == Len(buffer')
      <4>3. /\ n \in Nat /\ m \in Nat /\ m <= n /\ accepted \in Nat /\ n <= accepted
            /\ Len(buffer) = n /\ Len(buffer') = m
        BY <3>3, IteratorTypes DEF HistoryIsOrdered
      <4>4. \A i \in 1..m : buffer'[i] = accepted - m + i
        <5>1. CASE buffer' = buffer
          BY <5>1 DEF HistoryIsOrdered
        <5>2. CASE buffer' = <<>>
          BY <5>2
        <5> QED BY <3>3, <5>1, <5>2
      <4> HIDE DEF n, m
      <4>5. accepted - n <= accepted - m /\ m <= accepted /\ accepted - n \in Int /\ accepted - m \in Int
        BY <4>3
      <4>6. \A i \in 1..Len(received) : received[i] <= accepted - m
        BY <4>1, <4>3, <4>5
      <4>7. \A x \in InFlight : x <= accepted - m
        BY <4>2, <4>3, <4>5
      <4> QED BY <3>2, <4>3, <4>4, <4>5, <4>6, <4>7 DEF HistoryIsOrdered
    <3>6. OnlyTheLastWaits'
      BY <2>2, <2>4, <3>1, <3>2 DEF OnlyTheLastWaits
    <3>7. EndIsTold'
      BY <2>1, <2>2, <3>2, IteratorTypes DEF EndIsTold
    <3>8. EventsAreAccountedFor'
      <4>1. SUFFICES ASSUME ended' # "done", terminal' # "abort", NEW n \in 1..accepted
                     PROVE  n \in Range(received) \/ n \in overflowed \/ n \in InFlight
                            \/ n > accepted - Len(buffer')
        BY <2>1, <2>2, <3>2 DEF EventsAreAccountedFor
      <4>2. buffer' = buffer
        BY <2>1, <4>1
      <4> QED BY <1>2, <2>2, <4>1, <4>2 DEF EventsAreAccountedFor
    <3> QED BY <3>4, <3>5, <3>6, <3>7, <3>8
  <2> QED BY <2>3, <2>4
<1> QED BY <1>1, <1>2

\* next keeps the invariant when it finds a buffered event.
LEMMA NextBufferedKeeps ==
  ASSUME IteratorInv, NextBuffered
  PROVE  IteratorInv'
<1> USE DEF IteratorInv
<1> DEFINE n == Len(buffer)
<1> DEFINE x == Head(buffer)
<1> DEFINE r == Len(received)
<1>1. /\ call = NoCall /\ ended = "no" /\ terminal # "cancelled" /\ buffer # <<>>
      /\ buffer' = Tail(buffer) /\ received' = Append(received, x)
      /\ UNCHANGED <<accepted, resolvers, call, calls, result, terminal, aborted, listening, sub, unsub,
                     ended, overflowed, atEnd>>
  BY DEF NextBuffered, CanCall
<1>2. /\ accepted \in Nat /\ n \in Nat \ {0} /\ n <= MaxBuffered /\ MaxBuffered \in Nat /\ r \in Nat
      /\ buffer \in Seq(1..MaxDelivered) /\ received \in Seq(1..MaxDelivered)
      /\ x = accepted - n + 1 /\ x \in 1..MaxDelivered /\ n <= accepted
  BY SMTT(20), <1>1, IteratorTypes DEF HistoryIsOrdered
<1>3. /\ buffer' \in Seq(1..MaxDelivered) /\ Len(buffer') = n - 1
      /\ \A i \in 1..(n - 1) : buffer'[i] = buffer[i + 1]
  BY <1>1, <1>2, HeadTailProperties
<1>4. /\ received' \in Seq(1..MaxDelivered) /\ Len(received') = r + 1
      /\ \A i \in 1..r : received'[i] = received[i]
      /\ received'[r + 1] = x
      /\ Range(received') = Range(received) \cup {x}
  BY <1>1, <1>2, AppendProperties, RangeOfAppend
<1>5. result = <<>> /\ InFlight' = {} /\ InFlight = {}
  BY <1>1 DEF OnlyTheLastWaits, InFlight
<1>6. IteratorTypeOK'
  BY <1>1, <1>2, <1>3, <1>4 DEF IteratorTypeOK
<1>7. HistoryIsOrdered'
  <2>1. \A i \in 1..n : buffer[i] = accepted - n + i
    BY DEF HistoryIsOrdered
  <2>2. \A i \in 1..(n - 1) : buffer'[i] = accepted - (n - 1) + i
    <3> HIDE DEF n, x, r
    <3> QED BY <1>2, <1>3, <2>1
  <2>3. \A i \in 1..r : received[i] \in Nat /\ received[i] <= accepted - n
    BY IteratorTypes DEF HistoryIsOrdered
  <2>4. \A i, j \in 1..r : i < j => received[i] < received[j]
    BY DEF HistoryIsOrdered
  <2>5. \A i \in 1..(r + 1) : received'[i] <= accepted - (n - 1)
    <3> HIDE DEF n, x, r
    <3>1. \A i \in 1..(r + 1) : i \in 1..r \/ i = r + 1
      BY <1>2
    <3> QED BY SMTT(20), <1>2, <1>4, <2>3, <3>1
  <2>6. \A i, j \in 1..(r + 1) : i < j => received'[i] < received'[j]
    <3> HIDE DEF n, x, r
    <3>1. SUFFICES ASSUME NEW i \in 1..(r + 1), NEW j \in 1..(r + 1), i < j
                   PROVE  received'[i] < received'[j]
      OBVIOUS
    <3>2. i \in 1..r /\ (j \in 1..r \/ j = r + 1)
      BY <1>2, <3>1
    <3>3. received'[i] = received[i]
      BY <1>4, <3>2
    <3>4. CASE j \in 1..r
      BY <1>4, <2>4, <3>1, <3>2, <3>3, <3>4
    <3>5. CASE j = r + 1
      <4>1. received[i] \in Nat /\ received[i] <= accepted - n
        BY <2>3, <3>2
      <4>2. received'[j] = accepted - n + 1
        BY <1>2, <1>4, <3>5
      <4> QED BY <1>2, <3>3, <4>1, <4>2
    <3> QED BY <3>2, <3>4, <3>5
  <2>7. Len(buffer') <= accepted
    BY <1>2, <1>3
  <2> HIDE DEF n, x, r
  <2> QED BY <1>1, <1>3, <1>4, <1>5, <2>2, <2>5, <2>6, <2>7 DEF HistoryIsOrdered
<1>8. OnlyTheLastWaits'
  BY <1>1 DEF OnlyTheLastWaits
<1>9. EndIsTold'
  BY <1>1 DEF EndIsTold
<1>10. EventsAreAccountedFor'
  <2>1. SUFFICES ASSUME terminal # "abort", NEW k \in 1..(IF terminal = "none" THEN accepted ELSE atEnd)
                 PROVE  k \in Range(received) \/ k = x \/ k \in overflowed \/ k > accepted - (n - 1)
    BY <1>1, <1>3, <1>4, <1>5 DEF EventsAreAccountedFor
  <2>2. k \in Range(received) \/ k \in overflowed \/ k > accepted - n
    BY <1>1, <1>5, <2>1 DEF EventsAreAccountedFor
  <2>3. k \in Nat
    BY IteratorTypes, <2>1
  <2> HIDE DEF n, x, r
  <2> QED BY <1>2, <2>2, <2>3
<1> QED BY <1>6, <1>7, <1>8, <1>9, <1>10

\* The promise of a waiting next is settled: the invariant is kept.
LEMMA CallSettlesKeeps ==
  ASSUME IteratorInv, CallSettles
  PROVE  IteratorInv'
<1> USE DEF IteratorInv
<1> DEFINE r == Len(received)
<1>1. /\ call # NoCall /\ result # <<>> /\ call' = NoCall /\ result' = <<>>
      /\ UNCHANGED <<accepted, buffer, resolvers, calls, terminal, aborted, listening, sub, unsub,
                     overflowed, atEnd>>
      /\ ended # "thrown" /\ InFlight' = {}
  BY DEF CallSettles, EndIsTold, InFlight
<1>2. /\ accepted \in Nat /\ r \in Nat /\ Len(buffer) \in Nat
      /\ received \in Seq(1..MaxDelivered) /\ MaxDelivered \in Nat
  BY IteratorTypes
<1>3. OnlyTheLastWaits'
  BY <1>1 DEF OnlyTheLastWaits
<1>4. CASE result[1] = "value"
  <2>1. PICK x \in 1..MaxDelivered : result = <<"value", x>>
    BY <1>1, <1>4 DEF IteratorTypeOK, Results
  <2>2. /\ received' = Append(received, x) /\ ended' = ended
        /\ InFlight = {x}
    BY <1>1, <1>4, <2>1 DEF CallSettles, InFlight
  <2>3. /\ received' \in Seq(1..MaxDelivered) /\ Len(received') = r + 1
        /\ \A i \in 1..r : received'[i] = received[i]
        /\ received'[r + 1] = x
        /\ Range(received') = Range(received) \cup {x}
    BY <1>2, <2>2, AppendProperties, RangeOfAppend
  <2>4. IteratorTypeOK'
    <3>1. call' \in 0..MaxDelivered + 1 /\ result' \in Results
      BY <1>1, <1>2 DEF NoCall, Results
    <3> QED BY <1>1, <2>2, <2>3, <3>1 DEF IteratorTypeOK
  <2>5. HistoryIsOrdered'
    <3>1. /\ \A i \in 1..r : received[i] \in Nat /\ received[i] <= accepted - Len(buffer) /\ received[i] < x
          /\ \A i, j \in 1..r : i < j => received[i] < received[j]
          /\ x \in Nat /\ x <= accepted - Len(buffer)
      BY <2>2, IteratorTypes DEF HistoryIsOrdered
    <3>2. \A i \in 1..(r + 1) : received'[i] <= accepted - Len(buffer)
      <4> HIDE DEF r
      <4>1. \A i \in 1..(r + 1) : i \in 1..r \/ i = r + 1
        BY <1>2
      <4> QED BY <1>2, <2>3, <3>1, <4>1
    <3>3. \A i, j \in 1..(r + 1) : i < j => received'[i] < received'[j]
      <4> HIDE DEF r
      <4>1. SUFFICES ASSUME NEW i \in 1..(r + 1), NEW j \in 1..(r + 1), i < j
                     PROVE  received'[i] < received'[j]
        OBVIOUS
      <4>2. i \in 1..r /\ (j \in 1..r \/ j = r + 1)
        BY <1>2, <4>1
      <4> QED BY <1>2, <2>3, <3>1, <4>1, <4>2
    <3> HIDE DEF r
    <3> QED BY <1>1, <2>3, <3>2, <3>3 DEF HistoryIsOrdered
  <2>6. EndIsTold'
    BY <1>1, <2>1, <2>2 DEF EndIsTold
  <2>7. EventsAreAccountedFor'
    BY <1>1, <2>1, <2>2, <2>3 DEF EventsAreAccountedFor
  <2> QED BY <1>3, <2>4, <2>5, <2>6, <2>7
<1>5. CASE result[1] # "value"
  <2>1. result \in {<<"done">>, <<"error">>}
    BY <1>1, <1>5 DEF IteratorTypeOK, Results
  <2>2. /\ received' = received /\ InFlight = {}
        /\ ended' = IF ended # "no" THEN ended ELSE IF result[1] = "error" THEN "thrown" ELSE "done"
    BY <1>1, <1>5 DEF CallSettles, InFlight
  <2>3. IteratorTypeOK'
    <3>1. call' \in 0..MaxDelivered + 1 /\ result' \in Results
      BY <1>1, <1>2 DEF NoCall, Results
    <3> QED BY <1>1, <2>2, <3>1 DEF IteratorTypeOK
  <2>4. HistoryIsOrdered'
    BY <1>1, <2>2 DEF HistoryIsOrdered
  <2>5. terminal # "none"
    BY <2>1 DEF EndIsTold
  <2>6. EndIsTold'
    BY <1>1, <2>1, <2>2, <2>5 DEF EndIsTold
  <2>7. EventsAreAccountedFor'
    <3>1. CASE result = <<"done">>
      <4>1. ended' = "done"
        BY <3>1, <2>2 DEF EndIsTold
      <4> QED BY <4>1 DEF EventsAreAccountedFor
    <3>2. CASE result = <<"error">>
      <4>1. ended \in {"no", "done"} /\ (ended' = "done" <=> ended = "done")
        BY <1>1, <2>2, <3>2 DEF IteratorTypeOK
      <4> QED BY <1>1, <2>2, <2>5, <3>2, <4>1 DEF EventsAreAccountedFor
    <3> QED BY <2>1, <3>1, <3>2
  <2> QED BY <1>3, <2>3, <2>4, <2>6, <2>7
<1> QED BY <1>4, <1>5

\* next keeps the invariant when it has to wait.
LEMMA NextWaitsKeeps ==
  ASSUME IteratorInv, NextWaits
  PROVE  IteratorInv'
<1> USE DEF IteratorInv
<1>1. /\ call = NoCall /\ ended = "no" /\ buffer = <<>> /\ terminal = "none"
      /\ calls <= MaxDelivered /\ calls' = calls + 1 /\ call' = calls + 1 /\ result' = <<>>
      /\ resolvers' = Append(resolvers, calls + 1)
      /\ UNCHANGED <<accepted, buffer, terminal, aborted, listening, sub, unsub, ended, iteratorHistory>>
  BY DEF NextWaits, CanCall
<1>2. UNCHANGED <<received, overflowed, atEnd>>
  BY <1>1 DEF iteratorHistory
<1>3. resolvers = <<>> /\ result = <<>> /\ InFlight = {} /\ InFlight' = {}
  BY <1>1 DEF OnlyTheLastWaits, InFlight
<1>4. calls + 1 \in 1..MaxDelivered + 1 /\ calls + 1 \in 0..MaxDelivered + 1 /\ calls + 1 # NoCall
  BY <1>1, IteratorTypes DEF NoCall
<1>5. resolvers' = <<calls + 1>>
  BY <1>1, <1>3
<1>6. IteratorTypeOK'
  BY <1>1, <1>2, <1>4, <1>5 DEF IteratorTypeOK, Results
<1>7. HistoryIsOrdered'
  BY <1>1, <1>2, <1>3 DEF HistoryIsOrdered
<1>8. OnlyTheLastWaits'
  BY <1>1, <1>4, <1>5 DEF OnlyTheLastWaits
<1>9. EndIsTold'
  BY <1>1, <1>2 DEF EndIsTold
<1>10. EventsAreAccountedFor'
  BY <1>1, <1>2, <1>3 DEF EventsAreAccountedFor
<1> QED BY <1>6, <1>7, <1>8, <1>9, <1>10

\* next keeps the invariant when it throws the terminal error.
LEMMA NextThrowsKeeps ==
  ASSUME IteratorInv, NextThrows
  PROVE  IteratorInv'
<1> USE DEF IteratorInv
<1>1. /\ call = NoCall /\ ended = "no" /\ buffer = <<>> /\ terminal \in {"error", "abort"} /\ ended' = "thrown"
      /\ UNCHANGED <<accepted, buffer, resolvers, call, calls, result, terminal, aborted, listening,
                     sub, unsub>>
      /\ UNCHANGED <<received, overflowed, atEnd>>
  BY DEF NextThrows, CanCall, Drained, iteratorHistory
<1>2. InFlight' = InFlight
  BY <1>1 DEF InFlight
<1>3. IteratorTypeOK' /\ HistoryIsOrdered' /\ OnlyTheLastWaits'
  BY <1>1, <1>2 DEF IteratorTypeOK, HistoryIsOrdered, OnlyTheLastWaits
<1>4. EndIsTold'
  BY <1>1 DEF EndIsTold
<1>5. EventsAreAccountedFor'
  <2>1. Len(buffer) = 0 /\ accepted \in Nat /\ atEnd \in Nat /\ atEnd <= accepted
    BY <1>1, IteratorTypes DEF EndIsTold
  <2>2. SUFFICES ASSUME terminal # "abort", NEW n \in 1..atEnd
                 PROVE  n \in Range(received) \/ n \in overflowed \/ n \in InFlight
    BY <1>1, <1>2 DEF EventsAreAccountedFor
  <2>3. ~(n > accepted - Len(buffer))
    BY <2>1, <2>2
  <2> QED BY <1>1, <2>2, <2>3 DEF EventsAreAccountedFor
<1> QED BY <1>3, <1>4, <1>5

\* A step that changes nothing of what the invariant relates, but that a signal
\* may abort.
LEMMA OthersKeep ==
  ASSUME IteratorInv,
         UNCHANGED <<accepted, buffer, resolvers, call, calls, result, terminal, listening, ended,
                     received, overflowed, atEnd>>,
         aborted' \in {aborted, TRUE}, unsub' \in {unsub, TRUE},
         sub' \in {sub, "active"}
  PROVE  IteratorInv'
<1> USE DEF IteratorInv
<1>1. InFlight' = InFlight
  BY DEF InFlight
<1>2. IteratorTypeOK'
  BY DEF IteratorTypeOK
<1>3. HistoryIsOrdered' /\ OnlyTheLastWaits' /\ EndIsTold'
  BY <1>1 DEF HistoryIsOrdered, OnlyTheLastWaits, EndIsTold
<1>4. EventsAreAccountedFor'
  BY <1>1 DEF EventsAreAccountedFor
<1> QED BY <1>2, <1>3, <1>4

\* The invariant of the iterator holds throughout (Publisher.subscribe).
THEOREM IteratorInvariant == IteratorSpec => []IteratorInv
<1>1. IteratorInit => IteratorInv
  <2>1. SUFFICES ASSUME IteratorInit PROVE IteratorInv
    OBVIOUS
  <2>2. Len(buffer) = 0 /\ Len(received) = 0 /\ InFlight = {}
    BY <2>1 DEF IteratorInit, InFlight
  <2>3. IteratorTypeOK
    <3>1. /\ buffer \in Seq(1..MaxDelivered) /\ resolvers \in Seq(1..MaxDelivered + 1)
          /\ received \in Seq(1..MaxDelivered)
      BY <2>1 DEF IteratorInit
    <3>2. 0 \in 0..MaxDelivered /\ 0 \in 0..MaxDelivered + 1 /\ Len(buffer) <= MaxBuffered
      BY <2>2, IteratorAssumption
    <3> QED BY <2>1, <3>1, <3>2 DEF IteratorInit, IteratorTypeOK, Results, Kinds, NoCall
  <2> QED BY <2>1, <2>2, <2>3 DEF IteratorInit, IteratorInv, HistoryIsOrdered, OnlyTheLastWaits, EndIsTold,
                                  EventsAreAccountedFor, NoCall
<1>2. IteratorInv /\ [IteratorNext]_iteratorVars => IteratorInv'
  <2> SUFFICES ASSUME IteratorInv, [IteratorNext]_iteratorVars PROVE IteratorInv'
    OBVIOUS
  <2>1. ASSUME Deliver PROVE IteratorInv'
    BY <2>1, DeliverKeeps
  <2>2. ASSUME Abort \/ SubscribeResolves \/ Unlisten PROVE IteratorInv'
    BY <2>2, OthersKeep DEF Abort, SubscribeResolves, Unlisten, iteratorHistory
  <2>3. ASSUME AbortListener \/ AdapterError PROVE IteratorInv'
    <3>1. sub \in {"pending", "active", "failed"} /\ unsub \in BOOLEAN
      BY DEF IteratorInv, IteratorTypeOK
    <3> QED BY <2>3, <3>1, TerminateKeeps DEF AbortListener, AdapterError
  <2>4. ASSUME SubscribeRejects PROVE IteratorInv'
    <3>1. unsub \in BOOLEAN
      BY DEF IteratorInv, IteratorTypeOK
    <3> QED BY <2>4, <3>1, TerminateKeeps DEF SubscribeRejects
  <2>5. ASSUME Return PROVE IteratorInv'
    <3>1. sub \in {"pending", "active", "failed"} /\ unsub \in BOOLEAN
      BY DEF IteratorInv, IteratorTypeOK
    <3> QED BY <2>5, <3>1, TerminateKeeps DEF Return
  <2>6. ASSUME NextBuffered PROVE IteratorInv'
    BY <2>6, NextBufferedKeeps
  <2>7. ASSUME NextThrows PROVE IteratorInv'
    BY <2>7, NextThrowsKeeps
  <2>8. ASSUME NextWaits PROVE IteratorInv'
    BY <2>8, NextWaitsKeeps
  <2>9. ASSUME CallSettles PROVE IteratorInv'
    BY <2>9, CallSettlesKeeps
  <2>10. ASSUME UNCHANGED iteratorVars PROVE IteratorInv'
    BY <2>10, OthersKeep DEF iteratorVars, iteratorHistory
  <2> QED BY <2>1, <2>2, <2>3, <2>4, <2>5, <2>6, <2>7, <2>8, <2>9, <2>10 DEF IteratorNext
<1> QED BY <1>1, <1>2, PTL DEF IteratorSpec

\* A consumer gets the newest events in order, loses none but to a full buffer,
\* and does not wait for what is there, whatever the sizes of buffer and stream
\* and however the subscription ends (Publisher.subscribe).
THEOREM ConsumersAreServed == IteratorSpec => []ConsumerIsServed
<1>1. IteratorInv => ConsumerIsServed
  <2> SUFFICES ASSUME IteratorInv PROVE ConsumerIsServed
    OBVIOUS
  <2> USE DEF IteratorInv
  <2>1. /\ accepted \in Nat /\ Len(buffer) \in Nat /\ Len(received) \in Nat /\ atEnd \in Nat /\ atEnd <= accepted
        /\ \A i \in 1..Len(received) : received[i] \in Nat
        /\ (received # <<>> => Len(received) # 0) /\ (buffer # <<>> => Len(buffer) # 0)
        /\ DOMAIN buffer = 1..Len(buffer)
    BY IteratorTypes DEF EndIsTold
  <2>2. NewestAreKept
    <3>1. \A i \in 1..Len(received) - 1 : received[i] < received[i + 1]
      BY <2>1 DEF HistoryIsOrdered
    <3>2. received # <<>> /\ buffer # <<>> => received[Len(received)] < buffer[1]
      <4>1. SUFFICES ASSUME received # <<>>, buffer # <<>> PROVE received[Len(received)] < buffer[1]
        OBVIOUS
      <4>2. received[Len(received)] <= accepted - Len(buffer) /\ buffer[1] = accepted - Len(buffer) + 1
        BY <2>1, <4>1 DEF HistoryIsOrdered
      <4> QED BY <2>1, <4>1, <4>2
    <3> QED BY <3>1, <3>2 DEF NewestAreKept, HistoryIsOrdered, EndIsTold
  <2>3. OnlyOverflowLoses
    <3>1. SUFFICES ASSUME ended # "done", terminal # "abort",
                          NEW n \in 1..(IF terminal = "none" THEN accepted ELSE atEnd)
                   PROVE  n \in Range(received) \cup overflowed \cup InFlight
                                  \cup (IF ended = "thrown" THEN {} ELSE Range(buffer))
      BY DEF OnlyOverflowLoses
    <3>2. n \in Nat /\ n <= accepted
      BY <2>1, <3>1
    <3>3. ASSUME n > accepted - Len(buffer) PROVE n \in Range(buffer)
      <4> DEFINE i == n - (accepted - Len(buffer))
      <4>1. i \in 1..Len(buffer) /\ accepted - Len(buffer) + i = n
        BY <2>1, <3>2, <3>3
      <4>2. buffer[i] = n
        BY <4>1 DEF HistoryIsOrdered
      <4> HIDE DEF i
      <4> QED BY <2>1, <4>1, <4>2 DEF Range
    <3> QED BY <3>1, <3>3 DEF EventsAreAccountedFor
  <2>4. NobodyWaitsInVain
    BY DEF NobodyWaitsInVain, OnlyTheLastWaits
  <2> QED BY <2>2, <2>3, <2>4 DEF ConsumerIsServed
<1> QED BY <1>1, IteratorInvariant, PTL

-----------------------------------------------------------------------------
(* A subscription to a Redis publisher.                                    *)

\* How far subscribe has got says what its commands and its fields are.
PhasesAgree ==
  /\ after <= last
  /\ channel # "open" => inbox = <<>>
  /\ acked => channel \notin {"asked", "refused"}
  /\ IF isFlushed THEN pending = <<>> ELSE phase \in {"idle", "subscribing"} /\ seen = <<>> /\ resumed = {}
  /\ xread = "none" <=> after = NoLast
  /\ phase = "idle" => channel = "none" /\ after = NoLast /\ ~acked /\ ~isFlushed /\ pending = <<>>
  /\ phase = "subscribing" => (channel # "none" /\ (after = NoLast => isFlushed))
  /\ phase = "active" => isFlushed /\ acked /\ channel = "open"
  /\ phase \in {"subscribing", "active"} /\ isFlushed => xread \in {"none", "served"}

\* The reply of XREAD is a stretch of the stream that starts after lastEventId.
BacklogIsAStretch ==
  xread = "served" =>
    /\ after + Len(backlog) <= last
    /\ \A i \in 1..Len(backlog) : backlog[i] = after + i

\* What comes live was published, and what was seen came live or was resumed.
LiveIsPublished ==
  /\ unsent \subseteq 1..last
  /\ resumed \subseteq 1..last \cap ToSet(seen)
  /\ ToSet(pending) \subseteq Published
  /\ ToSet(inbox) \subseteq Published \cup {Ack}
  /\ ToSet(seen) \subseteq Published \cup resumed

\* No event comes live twice, and what is still to come was not seen but in the backlog.
LiveIsOnce ==
  /\ IsInjective(pending) /\ IsInjective(seen)
  /\ \A i, j \in 1..Len(inbox) : inbox[i] # Ack /\ inbox[i] = inbox[j] => i = j
  /\ ToSet(pending) \cap ToSet(inbox) = {}
  /\ ToSet(seen) \cap ToSet(inbox) \subseteq resumed

\* With one publisher ids rise: along what comes live, and along what was seen
\* after lastEventId and what is still to be.
LiveRises ==
  ordered =>
    /\ unsent \subseteq {last}
    /\ \A i, j \in 1..Len(pending) : i < j => pending[i] < pending[j]
    /\ \A i, j \in 1..Len(inbox) : i < j /\ inbox[j] # Ack => inbox[i] < inbox[j]
    /\ \A i \in 1..Len(pending), j \in 1..Len(inbox) : inbox[j] # Ack => pending[i] < inbox[j]
    /\ \A i, j \in 1..Len(seen) : i < j /\ seen[i] > after /\ seen[j] > after => seen[i] < seen[j]
    /\ isFlushed =>
         \A i \in 1..Len(seen), j \in 1..Len(inbox) :
           /\ seen[i] > after /\ inbox[j] > after /\ inbox[j] \notin {Ack} \cup resumed
           => seen[i] < inbox[j]

\* From when XREAD is served on, what was published after lastEventId is somewhere.
PublishedIsSomewhere ==
  phase \in {"subscribing", "active"} /\ xread = "served" /\ channel # "refused" =>
    \A id \in Published :
      id > after => \/ id \in ToSet(seen) \/ id \in ToSet(pending) \/ id \in ToSet(inbox) \/ id \in blind
                    \/ ~isFlushed /\ id \in ToSet(backlog)

RedisInv ==
  /\ RedisTypeOK
  /\ PhasesAgree /\ BacklogIsAStretch
  /\ LiveIsPublished /\ LiveIsOnce /\ LiveRises
  /\ PublishedIsSomewhere

\* The loop that leaves out what is known gives a sequence.
IsLoop(g, s, known, m) ==
  g = [i \in 0..m |-> IF i = 0 THEN <<>>
                      ELSE IF s[i] \in known THEN g[i - 1] ELSE Append(g[i - 1], s[i])]

LEMMA LoopExists ==
  ASSUME NEW s, NEW known, NEW n \in Nat
  PROVE  \E g : IsLoop(g, s, known, n)
<1> DEFINE T == {m \in Nat : ~ \E g : IsLoop(g, s, known, m)}
<1>1. SUFFICES ASSUME T # {} PROVE FALSE
  OBVIOUS
<1>2. PICK k \in T : \A j \in T : k <= j
  BY <1>1, LeastElement
<1>3. CASE k = 0
  <2> DEFINE g == [i \in 0..0 |-> <<>>]
  <2>1. IsLoop(g, s, known, 0)
    BY DEF IsLoop
  <2> QED BY <1>2, <1>3, <2>1
<1>4. CASE k # 0
  <2>1. k \in Nat /\ k - 1 \in Nat /\ ~(k <= k - 1)
    BY <1>2, <1>4
  <2>2. k - 1 \notin T
    BY <1>2, <2>1
  <2>3. PICK g : IsLoop(g, s, known, k - 1)
    BY <2>1, <2>2
  <2> DEFINE h == [i \in 0..k |-> IF i = k THEN IF s[k] \in known THEN g[k - 1] ELSE Append(g[k - 1], s[k])
                                  ELSE g[i]]
  <2>4. \A i \in 0..(k - 1) : h[i] = g[i] /\ i # k /\ i \in 0..k
    BY <2>1
  <2>5. h = [i \in 0..k |-> IF i = 0 THEN <<>>
                            ELSE IF s[i] \in known THEN h[i - 1] ELSE Append(h[i - 1], s[i])]
    <3>1. SUFFICES ASSUME NEW i \in 0..k
                   PROVE  h[i] = IF i = 0 THEN <<>>
                                 ELSE IF s[i] \in known THEN h[i - 1] ELSE Append(h[i - 1], s[i])
      <4>1. h = [i \in 0..k |-> h[i]]
        OBVIOUS
      <4> HIDE DEF h
      <4> QED BY <3>1, <4>1
    <3>2. CASE i = k
      <4>1. h[i] = IF s[k] \in known THEN g[k - 1] ELSE Append(g[k - 1], s[k])
        BY <3>2
      <4>2. h[k - 1] = g[k - 1]
        BY <2>1, <2>4
      <4> HIDE DEF h
      <4> QED BY <1>4, <3>2, <4>1, <4>2
    <3>3. CASE i # k
      <4>1. i \in 0..(k - 1) /\ (i # 0 => i - 1 \in 0..(k - 1))
        BY <2>1, <3>3
      <4>2. g[i] = IF i = 0 THEN <<>>
                   ELSE IF s[i] \in known THEN g[i - 1] ELSE Append(g[i - 1], s[i])
        BY <2>3, <4>1 DEF IsLoop
      <4>3. h[i] = g[i] /\ (i # 0 => h[i - 1] = g[i - 1])
        BY <2>4, <4>1
      <4> HIDE DEF h
      <4> QED BY <4>2, <4>3
    <3> QED BY <3>2, <3>3
  <2> HIDE DEF h
  <2>6. IsLoop(h, s, known, k)
    BY <2>5 DEF IsLoop
  <2> QED BY <1>2, <2>6
<1> QED BY <1>3, <1>4

\* What is fresh is what is not known, in its order.
IsFresh(r, s, known) ==
  /\ \A i \in 1..Len(r) : \E k \in 1..Len(s) : r[i] = s[k] /\ s[k] \notin known
  /\ \A k \in 1..Len(s) : s[k] \notin known => \E i \in 1..Len(r) : r[i] = s[k]
  /\ \A i, j \in 1..Len(r) : i < j => \E k, l \in 1..Len(s) : k < l /\ r[i] = s[k] /\ r[j] = s[l]

LEMMA FreshFacts ==
  ASSUME NEW S, NEW s \in Seq(S), NEW known
  PROVE  Fresh(s, known) \in Seq(S) /\ IsFresh(Fresh(s, known), s, known)
<1> DEFINE n == Len(s)
<1> DEFINE g == CHOOSE f : IsLoop(f, s, known, n)
<1>1. n \in Nat /\ \A k \in 1..n : s[k] \in S
  OBVIOUS
<1>2. Fresh(s, known) = g[n]
  BY DEF Fresh, IsLoop
<1>3. IsLoop(g, s, known, n)
  BY <1>1, LoopExists
<1> HIDE DEF g, n
<1>4. g[0] = <<>>
  <2>1. 0 \in 0..n
    BY <1>1
  <2> QED BY <1>3, <2>1 DEF IsLoop
<1>5. \A i \in 1..n : g[i] = IF s[i] \in known THEN g[i - 1] ELSE Append(g[i - 1], s[i])
  <2>1. \A i \in 1..n : i \in 0..n /\ i # 0
    BY <1>1
  <2> QED BY <1>3, <2>1 DEF IsLoop
<1> DEFINE P(m) ==
      /\ g[m] \in Seq(S)
      /\ \A i \in 1..Len(g[m]) : \E k \in 1..m : g[m][i] = s[k] /\ s[k] \notin known
      /\ \A k \in 1..m : s[k] \notin known => \E i \in 1..Len(g[m]) : g[m][i] = s[k]
      /\ \A i, j \in 1..Len(g[m]) : i < j =>
           \E k, l \in 1..m : k < l /\ g[m][i] = s[k] /\ g[m][j] = s[l]
<1>6. P(0)
  <2>1. g[0] \in Seq(S) /\ Len(g[0]) = 0
    BY <1>4
  <2> QED BY <2>1
<1>7. ASSUME NEW m \in 1..n, P(m - 1) PROVE P(m)
  <2> DEFINE q == g[m - 1]
  <2> DEFINE r == Len(q)
  <2>1. /\ m \in Nat /\ m - 1 \in Nat /\ s[m] \in S /\ q \in Seq(S) /\ r \in Nat
        /\ \A k \in 1..(m - 1) : k \in 1..m /\ k < m
        /\ \A k \in 1..m : k \in 1..(m - 1) \/ k = m
    BY <1>1, <1>7
  <2>2. /\ \A i \in 1..r : \E k \in 1..(m - 1) : q[i] = s[k] /\ s[k] \notin known
        /\ \A k \in 1..(m - 1) : s[k] \notin known => \E i \in 1..r : q[i] = s[k]
        /\ \A i, j \in 1..r : i < j =>
             \E k, l \in 1..(m - 1) : k < l /\ q[i] = s[k] /\ q[j] = s[l]
    BY <1>7
  <2>3. CASE s[m] \in known
    <3>1. g[m] = q
      BY <1>5, <2>3
    <3> HIDE DEF q
    <3> QED BY <2>1, <2>2, <2>3, <3>1
  <2>4. CASE s[m] \notin known
    <3>1. g[m] = Append(q, s[m])
      BY <1>5, <2>4
    <3>2. /\ g[m] \in Seq(S) /\ Len(g[m]) = r + 1
          /\ \A i \in 1..r : g[m][i] = q[i]
          /\ g[m][r + 1] = s[m]
      BY <2>1, <3>1, AppendProperties
    <3>3. \A i \in 1..(r + 1) : i \in 1..r \/ i = r + 1
      BY <2>1
    <3>4. r + 1 \in 1..(r + 1) /\ \A i \in 1..r : i \in 1..(r + 1)
      BY <2>1
    <3> HIDE DEF q, r
    <3>5. \A i \in 1..(r + 1) : \E k \in 1..m : g[m][i] = s[k] /\ s[k] \notin known
      <4>1. SUFFICES ASSUME NEW i \in 1..(r + 1)
                     PROVE  \E k \in 1..m : g[m][i] = s[k] /\ s[k] \notin known
        OBVIOUS
      <4>2. CASE i \in 1..r
        <5>1. PICK k \in 1..(m - 1) : q[i] = s[k] /\ s[k] \notin known
          BY <2>2, <4>2
        <5> QED BY <2>1, <3>2, <4>2, <5>1
      <4>3. CASE i = r + 1
        <5>1. m \in 1..m
          BY <2>1, <1>7
        <5> QED BY <2>4, <3>2, <4>3, <5>1
      <4> QED BY <3>3, <4>2, <4>3
    <3>6. \A k \in 1..m : s[k] \notin known => \E i \in 1..(r + 1) : g[m][i] = s[k]
      <4>1. SUFFICES ASSUME NEW k \in 1..m, s[k] \notin known
                     PROVE  \E i \in 1..(r + 1) : g[m][i] = s[k]
        OBVIOUS
      <4>2. CASE k \in 1..(m - 1)
        <5>1. PICK i \in 1..r : q[i] = s[k]
          BY <2>2, <4>1, <4>2
        <5> QED BY <3>2, <3>4, <5>1
      <4>3. CASE k = m
        BY <3>2, <3>4, <4>3
      <4> QED
        <5>1. k \in 1..(m - 1) \/ k = m
          BY <2>1, <1>7
        <5> QED BY <4>2, <4>3, <5>1
    <3>7. ASSUME NEW i \in 1..(r + 1), NEW j \in 1..(r + 1), i < j
          PROVE  \E k, l \in 1..m : k < l /\ g[m][i] = s[k] /\ g[m][j] = s[l]
      <4>1. i \in 1..r
        BY <2>1, <3>7
      <4>2. CASE j \in 1..r
        <5>1. PICK k \in 1..(m - 1), l \in 1..(m - 1) : k < l /\ q[i] = s[k] /\ q[j] = s[l]
          BY <2>2, <3>7, <4>1, <4>2
        <5>2. k \in 1..m /\ l \in 1..m /\ g[m][i] = q[i] /\ g[m][j] = q[j]
          BY <2>1, <3>2, <4>1, <4>2
        <5> QED BY <5>1, <5>2
      <4>3. CASE j = r + 1
        <5>1. PICK k \in 1..(m - 1) : q[i] = s[k]
          BY <2>2, <4>1
        <5> QED BY <2>1, <3>2, <4>1, <4>3, <5>1
      <4> QED BY <3>3, <4>2, <4>3
    <3> QED BY <3>2, <3>5, <3>6, <3>7
  <2> QED BY <2>3, <2>4
<1> HIDE DEF P
<1>8. P(n)
  <2> DEFINE T == {m \in 0..n : ~P(m)}
  <2>1. SUFFICES ASSUME T # {} PROVE FALSE
    BY <1>1
  <2>0. T \in SUBSET Nat
    BY <1>1
  <2>2. PICK k \in T : \A j \in T : k <= j
    BY <2>0, <2>1, LeastElement
  <2>3. k \in 1..n /\ k - 1 \in 0..n /\ ~(k <= k - 1)
    BY <1>1, <1>6, <2>2
  <2> QED BY <1>7, <2>2, <2>3
<1> QED BY <1>2, <1>8 DEF P, n, IsFresh

LEMMA ToSetFacts ==
  ASSUME NEW S, NEW s \in Seq(S)
  PROVE  /\ Len(s) \in Nat
         /\ \A i \in 1..Len(s) : s[i] \in ToSet(s) /\ s[i] \in S
         /\ \A x \in ToSet(s) : x \in S /\ \E i \in 1..Len(s) : s[i] = x
<1>1. DOMAIN s = 1..Len(s) /\ Len(s) \in Nat /\ \A i \in 1..Len(s) : s[i] \in S
  OBVIOUS
<1> QED BY <1>1 DEF ToSet

LEMMA ToSetOfAppend ==
  ASSUME NEW S, NEW s \in Seq(S), NEW x \in S
  PROVE  ToSet(Append(s, x)) = ToSet(s) \cup {x}
<1>1. /\ Len(s) \in Nat /\ DOMAIN s = 1..Len(s)
      /\ DOMAIN Append(s, x) = 1..(Len(s) + 1)
      /\ \A i \in 1..Len(s) : Append(s, x)[i] = s[i]
      /\ Append(s, x)[Len(s) + 1] = x
  BY AppendProperties
<1> QED BY <1>1 DEF ToSet

LEMMA ToSetOfTail ==
  ASSUME NEW S, NEW s \in Seq(S), s # <<>>
  PROVE  /\ Tail(s) \in Seq(S) /\ Len(Tail(s)) = Len(s) - 1 /\ Len(s) \in Nat \ {0}
         /\ Head(s) = s[1] /\ Head(s) \in S
         /\ \A i \in 1..Len(Tail(s)) : Tail(s)[i] = s[i + 1] /\ i + 1 \in 1..Len(s)
         /\ ToSet(s) = {Head(s)} \cup ToSet(Tail(s))
<1>1. /\ Tail(s) \in Seq(S) /\ Len(Tail(s)) = Len(s) - 1 /\ Len(s) \in Nat \ {0}
      /\ \A i \in 1..Len(Tail(s)) : Tail(s)[i] = s[i + 1]
      /\ Head(s) = s[1] /\ Head(s) \in S
  BY HeadTailProperties
<1>2. \A i \in 1..Len(Tail(s)) : i + 1 \in 1..Len(s)
  BY <1>1
<1>3. \A i \in 1..Len(s) : i = 1 \/ (i - 1 \in 1..Len(Tail(s)) /\ (i - 1) + 1 = i)
  BY <1>1
<1>4. 1 \in 1..Len(s)
  BY <1>1
<1>5. ASSUME NEW x \in ToSet(s) PROVE x \in {Head(s)} \cup ToSet(Tail(s))
  <2>1. PICK i \in 1..Len(s) : s[i] = x
    BY <1>5, ToSetFacts
  <2>2. CASE i = 1
    BY <1>1, <2>1, <2>2
  <2>3. CASE i # 1
    <3>1. i - 1 \in 1..Len(Tail(s)) /\ Tail(s)[i - 1] = x
      BY <1>1, <1>3, <2>1, <2>3
    <3>2. Tail(s)[i - 1] \in ToSet(Tail(s))
      BY <1>1, <3>1, ToSetFacts
    <3> QED BY <3>1, <3>2
  <2> QED BY <2>2, <2>3
<1>6. ASSUME NEW x \in {Head(s)} \cup ToSet(Tail(s)) PROVE x \in ToSet(s)
  <2>1. CASE x = Head(s)
    BY <1>1, <1>4, <2>1, ToSetFacts
  <2>2. CASE x \in ToSet(Tail(s))
    <3>1. PICK i \in 1..Len(Tail(s)) : Tail(s)[i] = x
      <4>1. PICK t \in Seq(S) : t = Tail(s)
        BY <1>1
      <4>2. x \in ToSet(t)
        BY <2>2, <4>1, Zenon
      <4>3. \E i \in 1..Len(t) : t[i] = x
        BY <4>2, ToSetFacts
      <4> QED BY <4>1, <4>3, Zenon
    <3>2. s[i + 1] = x /\ i + 1 \in 1..Len(s)
      BY <1>1, <1>2, <3>1
    <3> QED BY <3>2, ToSetFacts
  <2> QED BY <1>6, <2>1, <2>2
<1> QED BY <1>1, <1>2, <1>5, <1>6

LEMMA ToSetOfConcat ==
  ASSUME NEW S, NEW s \in Seq(S), NEW t \in Seq(S)
  PROVE  /\ s \o t \in Seq(S) /\ Len(s \o t) = Len(s) + Len(t) /\ Len(s) \in Nat /\ Len(t) \in Nat
         /\ \A i \in 1..Len(s) : (s \o t)[i] = s[i]
         /\ \A i \in (Len(s) + 1)..(Len(s) + Len(t)) : (s \o t)[i] = t[i - Len(s)] /\ i - Len(s) \in 1..Len(t)
         /\ \A i \in 1..Len(s \o t) : i \in 1..Len(s) \/ i \in (Len(s) + 1)..(Len(s) + Len(t))
         /\ ToSet(s \o t) = ToSet(s) \cup ToSet(t)
<1>1. /\ s \o t \in Seq(S) /\ Len(s \o t) = Len(s) + Len(t) /\ Len(s) \in Nat /\ Len(t) \in Nat
      /\ \A i \in 1..(Len(s) + Len(t)) :
           (s \o t)[i] = IF i <= Len(s) THEN s[i] ELSE t[i - Len(s)]
  BY ConcatProperties
<1>2. /\ \A i \in 1..Len(s) : i \in 1..(Len(s) + Len(t)) /\ i <= Len(s)
      /\ \A i \in (Len(s) + 1)..(Len(s) + Len(t)) :
           i \in 1..(Len(s) + Len(t)) /\ ~(i <= Len(s)) /\ i - Len(s) \in 1..Len(t)
      /\ \A i \in 1..(Len(s) + Len(t)) : i \in 1..Len(s) \/ i \in (Len(s) + 1)..(Len(s) + Len(t))
      /\ \A i \in 1..Len(t) : i + Len(s) \in (Len(s) + 1)..(Len(s) + Len(t)) /\ (i + Len(s)) - Len(s) = i
  BY <1>1
<1>3. /\ \A i \in 1..Len(s) : (s \o t)[i] = s[i]
      /\ \A i \in (Len(s) + 1)..(Len(s) + Len(t)) : (s \o t)[i] = t[i - Len(s)]
  BY <1>1, <1>2
<1>4. ASSUME NEW x \in ToSet(s \o t) PROVE x \in ToSet(s) \cup ToSet(t)
  <2>1. PICK i \in 1..(Len(s) + Len(t)) : (s \o t)[i] = x
    BY <1>1, <1>4, ToSetFacts
  <2>2. CASE i \in 1..Len(s)
    BY <1>3, <2>1, <2>2, ToSetFacts
  <2>3. CASE i \in (Len(s) + 1)..(Len(s) + Len(t))
    <3>1. i - Len(s) \in 1..Len(t) /\ t[i - Len(s)] = x
      BY <1>2, <1>3, <2>1, <2>3
    <3> QED BY <3>1, ToSetFacts
  <2> QED BY <1>2, <2>2, <2>3
<1>5. ASSUME NEW x \in ToSet(s) \cup ToSet(t) PROVE x \in ToSet(s \o t)
  <2>1. CASE x \in ToSet(s)
    <3>1. PICK i \in 1..Len(s) : s[i] = x
      BY <2>1, ToSetFacts
    <3>2. (s \o t)[i] = x /\ i \in 1..Len(s \o t)
      BY <1>1, <1>2, <1>3, <3>1
    <3> QED BY <1>1, <3>2, ToSetFacts
  <2>2. CASE x \in ToSet(t)
    <3>1. PICK i \in 1..Len(t) : t[i] = x
      BY <2>2, ToSetFacts
    <3>2. (s \o t)[i + Len(s)] = x /\ i + Len(s) \in 1..Len(s \o t)
      BY <1>1, <1>2, <1>3, <3>1
    <3> QED BY <1>1, <3>2, ToSetFacts
  <2> QED BY <1>5, <2>1, <2>2
<1> QED BY <1>1, <1>2, <1>3, <1>4, <1>5

\* The types of the invariant, as the steps use them.
LEMMA RedisTypes ==
  ASSUME RedisTypeOK
  PROVE  /\ last \in Nat /\ MaxEvents \in Nat /\ last <= MaxEvents /\ after \in Int /\ after >= -1
         /\ \A id \in Ids : id \in Nat /\ id > 0 /\ id # Ack
         /\ inbox \in Seq({Ack} \cup Ids) /\ backlog \in Seq(Ids) /\ pending \in Seq(Ids) /\ seen \in Seq(Ids)
         /\ Len(inbox) \in Nat /\ Len(backlog) \in Nat /\ Len(pending) \in Nat /\ Len(seen) \in Nat
         /\ \A i \in 1..Len(inbox) : inbox[i] \in Nat /\ inbox[i] \in ToSet(inbox)
         /\ \A i \in 1..Len(pending) : pending[i] \in Ids /\ pending[i] \in ToSet(pending)
         /\ \A i \in 1..Len(seen) : seen[i] \in Ids /\ seen[i] \in ToSet(seen)
<1>1. /\ last \in Nat /\ MaxEvents \in Nat /\ last <= MaxEvents /\ after \in Int /\ after >= -1
      /\ \A id \in Ids : id \in Nat /\ id > 0 /\ id # Ack
  BY RedisAssumption DEF RedisTypeOK, Ids, Ack, NoLast
<1>2. /\ inbox \in Seq({Ack} \cup Ids) /\ backlog \in Seq(Ids) /\ pending \in Seq(Ids) /\ seen \in Seq(Ids)
  BY DEF RedisTypeOK
<1>3. \A x \in {Ack} \cup Ids : x \in Nat
  BY <1>1 DEF Ack
<1> QED BY <1>1, <1>2, <1>3, ToSetFacts

\* XADD keeps the invariant: what is added is not published yet.
LEMMA AddKeeps ==
  ASSUME RedisInv, Add
  PROVE  RedisInv'
<1> USE DEF RedisInv
<1>1. /\ last' = last + 1 /\ unsent' = unsent \cup {last + 1} /\ last < MaxEvents
      /\ (ordered => unsent = {})
      /\ UNCHANGED <<ordered, phase, after, acked, pending, isFlushed, resumed, seen>>
      /\ UNCHANGED <<channel, inbox, xread, backlog, blind>>
  BY DEF Add, client, wire
<1>2. last \in Nat /\ MaxEvents \in Nat /\ after \in Int /\ Len(backlog) \in Nat
  BY RedisTypes
<1>3. Published' = Published
  <2>1. 1..(last + 1) = 1..last \cup {last + 1}
    BY <1>2
  <2>2. last + 1 \notin 1..last
    BY <1>2
  <2> QED BY <1>1, <2>1, <2>2 DEF Published
<1>4. RedisTypeOK'
  BY <1>1, <1>2 DEF RedisTypeOK, Ids
<1>5. PhasesAgree' /\ BacklogIsAStretch'
  BY <1>1, <1>2 DEF PhasesAgree, BacklogIsAStretch
<1>6. LiveIsPublished'
  <2>1. 1..last \subseteq 1..(last + 1) /\ last + 1 \in 1..(last + 1)
    BY <1>2
  <2> QED BY <1>1, <1>3, <2>1 DEF LiveIsPublished
<1>7. LiveIsOnce' /\ LiveRises' /\ PublishedIsSomewhere'
  BY <1>1, <1>3 DEF LiveIsOnce, LiveRises, PublishedIsSomewhere
<1> QED BY <1>4, <1>5, <1>6, <1>7

\* PUBLISH keeps the invariant: an event that comes live has not come before.
LEMMA PublishKeeps ==
  ASSUME RedisInv, NEW id \in Ids, Publish(id)
  PROVE  RedisInv'
<1> USE DEF RedisInv
<1>1. /\ id \in unsent /\ unsent' = unsent \ {id}
      /\ inbox' = IF channel = "open" THEN Append(inbox, id) ELSE inbox
      /\ blind' = IF xread = "served" /\ channel = "asked" THEN blind \cup {id} ELSE blind
      /\ UNCHANGED <<ordered, last, channel, xread, backlog>>
      /\ UNCHANGED <<phase, after, acked, pending, isFlushed, resumed, seen>>
  BY DEF Publish, client
<1>2. /\ id \in 1..last /\ id \notin Published /\ Published' = Published \cup {id} /\ id # Ack /\ id > 0 /\ id \in Nat
      /\ id \notin ToSet(inbox) /\ id \notin ToSet(pending) /\ (id \in ToSet(seen) => id \in resumed)
  BY <1>1, RedisTypes DEF Published, LiveIsPublished
<1>3. /\ inbox \in Seq({Ack} \cup Ids) /\ inbox' \in Seq({Ack} \cup Ids)
      /\ Len(inbox) \in Nat /\ Len(inbox') \in {Len(inbox), Len(inbox) + 1}
      /\ \A i \in 1..Len(inbox) : inbox'[i] = inbox[i]
      /\ (Len(inbox') = Len(inbox) + 1 => inbox'[Len(inbox) + 1] = id)
      /\ ToSet(inbox') \subseteq ToSet(inbox) \cup {id} /\ ToSet(inbox) \subseteq ToSet(inbox')
      /\ (channel = "open" => id \in ToSet(inbox'))
  <2>1. inbox \in Seq({Ack} \cup Ids) /\ Len(inbox) \in Nat /\ id \in {Ack} \cup Ids
    BY RedisTypes
  <2>2. CASE channel = "open"
    <3>1. /\ inbox' = Append(inbox, id) /\ inbox' \in Seq({Ack} \cup Ids) /\ Len(inbox') = Len(inbox) + 1
          /\ \A i \in 1..Len(inbox) : inbox'[i] = inbox[i]
          /\ inbox'[Len(inbox) + 1] = id
      BY <1>1, <2>1, <2>2, AppendProperties
    <3>2. ToSet(inbox') = ToSet(inbox) \cup {id}
      BY <2>1, <3>1, ToSetOfAppend
    <3> QED BY <2>1, <3>1, <3>2
  <2>3. CASE channel # "open"
    BY <1>1, <2>1, <2>3
  <2> QED BY <2>2, <2>3
<1>4. \A i \in 1..Len(inbox') : i \in 1..Len(inbox) \/ (i = Len(inbox) + 1 /\ inbox'[i] = id)
  <2>1. SUFFICES ASSUME NEW i \in 1..Len(inbox'), i \notin 1..Len(inbox)
                 PROVE  i = Len(inbox) + 1 /\ inbox'[i] = id
    OBVIOUS
  <2>2. i = Len(inbox) + 1 /\ Len(inbox') = Len(inbox) + 1
    BY <1>3, <2>1
  <2> QED BY <1>3, <2>2
<1>5. RedisTypeOK'
  BY <1>1, <1>3 DEF RedisTypeOK
<1>6. PhasesAgree' /\ BacklogIsAStretch'
  BY <1>1 DEF PhasesAgree, BacklogIsAStretch
<1>7. LiveIsPublished'
  BY <1>1, <1>2, <1>3 DEF LiveIsPublished
<1>8. LiveIsOnce'
  <2>1. \A i \in 1..Len(inbox) : inbox[i] # id
    BY <1>2, RedisTypes
  <2>2. \A i, j \in 1..Len(inbox') : inbox'[i] # Ack /\ inbox'[i] = inbox'[j] => i = j
    BY <1>3, <1>4, <2>1 DEF LiveIsOnce
  <2>3. ToSet(pending') \cap ToSet(inbox') = {} /\ ToSet(seen') \cap ToSet(inbox') \subseteq resumed'
    BY <1>1, <1>2, <1>3 DEF LiveIsOnce
  <2> QED BY <1>1, <2>2, <2>3 DEF LiveIsOnce
<1>9. LiveRises'
  <2>1. SUFFICES ASSUME ordered PROVE LiveRises'
    BY <1>1 DEF LiveRises
  <2>2. id = last /\ unsent' = {}
    BY <1>1, <2>1 DEF LiveRises
  <2>3. \A x \in Published : x \in Nat /\ x < last
    <3>1. \A x \in Published : x \in 1..last /\ x # last
      BY <1>2, <2>2 DEF Published
    <3> QED BY <3>1, RedisTypes
  <2>4. /\ \A i \in 1..Len(pending) : pending[i] < id
        /\ \A i \in 1..Len(inbox) : inbox[i] < id
    BY <1>2, <2>2, <2>3, RedisTypes DEF LiveIsPublished, Ack
  <2>5. id \notin resumed => \A i \in 1..Len(seen) : seen[i] < id
    <3>1. SUFFICES ASSUME id \notin resumed, NEW i \in 1..Len(seen) PROVE seen[i] < id
      OBVIOUS
    <3>2. seen[i] \in ToSet(seen) /\ seen[i] # id
      BY <1>2, <3>1, RedisTypes
    <3>3. seen[i] \in 1..last
      BY <3>2 DEF LiveIsPublished, Published
    <3> QED BY <2>2, <3>2, <3>3, RedisTypes
  <2>6. \A i, j \in 1..Len(inbox') : i < j /\ inbox'[j] # Ack => inbox'[i] < inbox'[j]
    <3>1. SUFFICES ASSUME NEW i \in 1..Len(inbox'), NEW j \in 1..Len(inbox'), i < j, inbox'[j] # Ack
                   PROVE  inbox'[i] < inbox'[j]
      OBVIOUS
    <3>2. i \in 1..Len(inbox)
      BY <1>3, <3>1
    <3> QED BY <1>3, <1>4, <2>1, <2>4, <3>1, <3>2 DEF LiveRises
  <2>7. \A i \in 1..Len(pending), j \in 1..Len(inbox') : inbox'[j] # Ack => pending[i] < inbox'[j]
    BY <1>3, <1>4, <2>1, <2>4 DEF LiveRises
  <2>8. isFlushed =>
          \A i \in 1..Len(seen), j \in 1..Len(inbox') :
            /\ seen[i] > after /\ inbox'[j] > after /\ inbox'[j] \notin {Ack} \cup resumed
            => seen[i] < inbox'[j]
    BY <1>3, <1>4, <2>1, <2>5 DEF LiveRises
  <2> QED BY <1>1, <2>1, <2>2, <2>6, <2>7, <2>8 DEF LiveRises
<1>10. PublishedIsSomewhere'
  <2>1. SUFFICES ASSUME phase \in {"subscribing", "active"}, xread = "served", channel # "refused",
                        NEW x \in Published \cup {id}, x > after
                 PROVE  \/ x \in ToSet(seen) \/ x \in ToSet(pending) \/ x \in ToSet(inbox') \/ x \in blind'
                        \/ ~isFlushed /\ x \in ToSet(backlog)
    BY <1>1, <1>2 DEF PublishedIsSomewhere
  <2>2. channel \in {"asked", "open"}
    BY <2>1 DEF PhasesAgree, RedisTypeOK
  <2>3. blind \subseteq blind' /\ (x = id => x \in ToSet(inbox') \/ x \in blind')
    BY <1>1, <1>3, <2>1, <2>2
  <2> QED BY <1>3, <2>1, <2>3 DEF PublishedIsSomewhere
<1> QED BY <1>5, <1>6, <1>7, <1>8, <1>9, <1>10

\* subscribe keeps the invariant up to its first await.
LEMMA SubscribesRedisKeeps ==
  ASSUME RedisInv, NEW id \in {NoLast} \cup 0..last, SubscribesRedis(id)
  PROVE  RedisInv'
<1> USE DEF RedisInv
<1>1. /\ phase = "idle" /\ phase' = "subscribing" /\ after' = id /\ channel' = "asked"
      /\ xread' = IF id = NoLast THEN "none" ELSE "asked"
      /\ isFlushed' = (id = NoLast)
      /\ UNCHANGED <<ordered, last, unsent, inbox, acked, backlog, pending, resumed, seen, blind>>
  BY DEF SubscribesRedis, redis
<1>2. channel = "none" /\ after = NoLast /\ ~acked /\ ~isFlushed /\ pending = <<>> /\ inbox = <<>> /\ seen = <<>>
      /\ resumed = {}
  BY <1>1 DEF PhasesAgree
<1>3. id <= last /\ id \in {NoLast} \cup 0..MaxEvents /\ xread' \in {"none", "asked"} /\ (xread' = "none" <=> id = NoLast)
  BY <1>1, RedisTypes DEF NoLast
<1>4. isFlushed' \in BOOLEAN
  BY <1>1
<1>5. RedisTypeOK'
  BY <1>1, <1>3, <1>4 DEF RedisTypeOK
<1>6. PhasesAgree'
  BY <1>1, <1>2, <1>3 DEF PhasesAgree
<1>7. BacklogIsAStretch' /\ PublishedIsSomewhere'
  BY <1>1, <1>3 DEF BacklogIsAStretch, PublishedIsSomewhere
<1>8. Published' = Published
  BY <1>1 DEF Published
<1>9. LiveIsPublished' /\ LiveIsOnce'
  BY <1>1, <1>8 DEF LiveIsPublished, LiveIsOnce
<1>10. LiveRises'
  <2>1. Len(seen) = 0
    BY <1>2
  <2> QED BY <1>1, <2>1 DEF LiveRises
<1> QED BY <1>5, <1>6, <1>7, <1>9, <1>10

\* SUBSCRIBE is served, or not: the invariant is kept.
LEMMA ServeSubscribeKeeps ==
  ASSUME RedisInv, ServeSubscribe
  PROVE  RedisInv'
<1> USE DEF RedisInv
<1>1. /\ channel = "asked" /\ inbox = <<>> /\ ~acked
      /\ \/ channel' = "open" /\ inbox' = Append(inbox, Ack)
         \/ channel' = "refused" /\ inbox' = inbox
      /\ UNCHANGED <<ordered, last, unsent, xread, backlog, blind>>
      /\ UNCHANGED <<phase, after, acked, pending, isFlushed, resumed, seen>>
  BY DEF ServeSubscribe, redis, client, PhasesAgree
<1>2. /\ inbox' \in Seq({Ack} \cup Ids) /\ Len(inbox') \in {0, 1}
      /\ (Len(inbox') = 1 => inbox'[1] = Ack) /\ ToSet(inbox') \subseteq {Ack}
      /\ (channel' = "refused" => inbox' = <<>>)
  <2>1. CASE inbox' = <<Ack>>
    <3>1. inbox' \in Seq({Ack} \cup Ids) /\ Len(inbox') = 1 /\ inbox'[1] = Ack /\ DOMAIN inbox' = 1..1
      BY <2>1
    <3> QED BY <1>1, <3>1 DEF ToSet
  <2>2. CASE inbox' = <<>>
    BY <2>2 DEF ToSet
  <2> QED BY <1>1, <2>1, <2>2
<1>3. Published' = Published
  BY <1>1 DEF Published
<1>4. Ack \notin ToSet(pending) /\ Ack \notin ToSet(seen)
  BY RedisTypes, ToSetFacts
<1>5. RedisTypeOK'
  BY <1>1, <1>2 DEF RedisTypeOK
<1>6. PhasesAgree' /\ BacklogIsAStretch'
  BY <1>1, <1>2 DEF PhasesAgree, BacklogIsAStretch
<1>7. LiveIsPublished' /\ LiveIsOnce' /\ LiveRises'
  <2>1. \A i \in 1..Len(inbox') : inbox'[i] = Ack /\ i = 1
    <3>1. CASE Len(inbox') = 0
      BY <3>1
    <3>2. CASE Len(inbox') = 1
      BY <1>2, <3>2
    <3> QED BY <1>2, <3>1, <3>2
  <2> QED BY <1>1, <1>2, <1>3, <1>4, <2>1 DEF LiveIsPublished, LiveIsOnce, LiveRises
<1>8. PublishedIsSomewhere'
  <2>1. ToSet(inbox) = {}
    BY <1>1 DEF ToSet
  <2> QED BY <1>1, <1>3, <2>1 DEF PublishedIsSomewhere
<1> QED BY <1>5, <1>6, <1>7, <1>8

\* XREAD is served, or not: the invariant is kept.
LEMMA ServeXreadKeeps ==
  ASSUME RedisInv, ServeXread
  PROVE  RedisInv'
<1> USE DEF RedisInv
<1>1. /\ xread = "asked"
      /\ \/ xread' = "served" /\ backlog' = EventsAfter(after)
         \/ xread' = "refused" /\ backlog' = backlog
      /\ UNCHANGED <<ordered, last, unsent, channel, inbox, blind>>
      /\ UNCHANGED <<phase, after, acked, pending, isFlushed, resumed, seen>>
  BY DEF ServeXread, redis, client
<1>2. after # NoLast /\ after \in Nat /\ after <= last /\ last \in Nat /\ last - after \in Nat /\ last <= MaxEvents /\ MaxEvents \in Nat
      /\ ~(phase \in {"subscribing", "active"} /\ isFlushed)
  BY SMTT(20), <1>1, RedisTypes DEF PhasesAgree, NoLast
<1>3. Published' = Published
  BY <1>1 DEF Published
<1>4. xread' = "served" => /\ backlog' \in Seq(Ids) /\ Len(backlog') = last - after
                           /\ \A i \in 1..Len(backlog') : backlog'[i] = after + i
  <2>1. ASSUME NEW i \in 1..(last - after) PROVE after + i \in Ids
    BY <1>2, <2>1 DEF Ids
  <2> QED BY <1>1, <1>2, <2>1 DEF EventsAfter
<1>5. RedisTypeOK'
  BY <1>1, <1>4 DEF RedisTypeOK
<1>6. PhasesAgree'
  BY <1>1, <1>2 DEF PhasesAgree
<1>7. BacklogIsAStretch'
  BY <1>1, <1>2, <1>4 DEF BacklogIsAStretch
<1>8. LiveIsPublished' /\ LiveIsOnce' /\ LiveRises'
  BY <1>1, <1>3 DEF LiveIsPublished, LiveIsOnce, LiveRises
<1>9. PublishedIsSomewhere'
  <2>1. SUFFICES ASSUME xread' = "served", NEW x \in Published, x > after
                 PROVE  x \in ToSet(backlog')
    BY <1>1, <1>2, <1>3 DEF PublishedIsSomewhere
  <2>2. x - after \in 1..Len(backlog') /\ after + (x - after) = x
    BY <1>2, <1>4, <2>1 DEF Published
  <2>3. backlog'[x - after] = x
    BY <1>4, <2>1, <2>2
  <2>4. backlog' \in Seq(Ids)
    BY <1>4, <2>1
  <2> QED BY <2>2, <2>3, <2>4, ToSetFacts
<1> QED BY <1>5, <1>6, <1>7, <1>8, <1>9

\* What the reply of XREAD holds.
LEMMA BacklogFacts ==
  ASSUME RedisInv, xread = "served"
  PROVE  /\ after \in Nat /\ last \in Nat /\ backlog \in Seq(Ids) /\ Len(backlog) \in Nat
         /\ after + Len(backlog) <= last
         /\ \A i \in 1..Len(backlog) : backlog[i] = after + i
         /\ \A x \in Int : x \in ToSet(backlog) <=> after < x /\ x <= after + Len(backlog)
<1> USE DEF RedisInv
<1>1. /\ after \in Nat /\ last \in Nat /\ backlog \in Seq(Ids) /\ Len(backlog) \in Nat
      /\ after + Len(backlog) <= last
      /\ \A i \in 1..Len(backlog) : backlog[i] = after + i
  BY RedisTypes DEF PhasesAgree, BacklogIsAStretch, NoLast
<1>2. ASSUME NEW x \in ToSet(backlog) PROVE after < x /\ x <= after + Len(backlog)
  <2>1. PICK i \in 1..Len(backlog) : backlog[i] = x
    BY <1>1, <1>2, ToSetFacts
  <2> QED BY <1>1, <2>1
<1>3. ASSUME NEW x \in Int, after < x, x <= after + Len(backlog) PROVE x \in ToSet(backlog)
  <2>1. x - after \in 1..Len(backlog) /\ after + (x - after) = x
    BY <1>1, <1>3
  <2>2. backlog[x - after] = x
    BY <1>1, <2>1
  <2> QED BY <1>1, <2>1, <2>2, ToSetFacts
<1> QED BY <1>1, <1>2, <1>3

\* The backlog is delivered and what is pending after it: the invariant is kept.
LEMMA ResumeKeeps ==
  ASSUME RedisInv, Resume
  PROVE  RedisInv'
<1> USE DEF RedisInv
<1> DEFINE b == Len(backlog)
<1>1. /\ phase = "subscribing" /\ ~isFlushed /\ xread = "served" /\ seen = <<>>
      /\ resumed' = ToSet(backlog) /\ seen' = seen \o Flushed(backlog)
      /\ isFlushed' = TRUE /\ pending' = <<>>
      /\ UNCHANGED <<ordered, last, unsent, phase, after, acked>>
      /\ UNCHANGED <<channel, inbox, xread, backlog, blind>>
  BY DEF Resume, redis, wire, PhasesAgree
<1>2. PICK r : r = Fresh(pending, ToSet(backlog))
  OBVIOUS
<1>3. /\ pending \in Seq(Ids) /\ r \in Seq(Ids) /\ Len(r) \in Nat
      /\ \A i \in 1..Len(r) : r[i] \notin ToSet(backlog) /\ r[i] \in Ids
                              /\ \E k \in 1..Len(pending) : r[i] = pending[k]
      /\ \A k \in 1..Len(pending) : pending[k] \notin ToSet(backlog) => \E i \in 1..Len(r) : r[i] = pending[k]
      /\ \A i, j \in 1..Len(r) : i < j =>
           \E k, l \in 1..Len(pending) : k < l /\ r[i] = pending[k] /\ r[j] = pending[l]
  <2>1. pending \in Seq(Ids)
    BY RedisTypes
  <2>2. /\ r \in Seq(Ids)
        /\ \A i \in 1..Len(r) : \E k \in 1..Len(pending) : r[i] = pending[k] /\ pending[k] \notin ToSet(backlog)
        /\ \A k \in 1..Len(pending) : pending[k] \notin ToSet(backlog) => \E i \in 1..Len(r) : r[i] = pending[k]
        /\ \A i, j \in 1..Len(r) : i < j =>
             \E k, l \in 1..Len(pending) : k < l /\ r[i] = pending[k] /\ r[j] = pending[l]
    <3>1. r \in Seq(Ids) /\ IsFresh(r, pending, ToSet(backlog))
      BY <1>2, <2>1, FreshFacts
    <3> QED BY <3>1 DEF IsFresh
  <2> QED BY <2>1, <2>2, ToSetFacts
<1>4. /\ after \in Nat /\ last \in Nat /\ backlog \in Seq(Ids) /\ b \in Nat /\ after + b <= last
      /\ \A i \in 1..b : backlog[i] = after + i
      /\ \A x \in Int : x \in ToSet(backlog) <=> after < x /\ x <= after + b
  BY <1>1, BacklogFacts
<1>5. seen' = backlog \o r
  <2>1. backlog \o r \in Seq(Ids)
    BY <1>3, <1>4
  <2> QED BY <1>1, <1>2, <2>1, ConcatEmptySeq DEF Flushed
<1>6. /\ seen' \in Seq(Ids) /\ Len(seen') = b + Len(r)
      /\ \A i \in 1..b : seen'[i] = backlog[i]
      /\ \A i \in (b + 1)..(b + Len(r)) : seen'[i] = r[i - b] /\ i - b \in 1..Len(r)
      /\ \A i \in 1..Len(seen') : i \in 1..b \/ i \in (b + 1)..(b + Len(r))
      /\ ToSet(seen') = ToSet(backlog) \cup ToSet(r)
  BY <1>3, <1>4, <1>5, ToSetOfConcat
<1> HIDE DEF b
<1>7. ToSet(r) \subseteq ToSet(pending) /\ ToSet(pending) \subseteq ToSet(r) \cup ToSet(backlog)
  <2>1. ASSUME NEW x \in ToSet(r) PROVE x \in ToSet(pending)
    <3>1. PICK i \in 1..Len(r) : r[i] = x
      BY <1>3, <2>1, ToSetFacts
    <3>2. PICK k \in 1..Len(pending) : r[i] = pending[k]
      BY <1>3
    <3> QED BY <1>3, <3>1, <3>2, ToSetFacts
  <2>2. ASSUME NEW x \in ToSet(pending), x \notin ToSet(backlog) PROVE x \in ToSet(r)
    <3>1. PICK k \in 1..Len(pending) : pending[k] = x
      BY <1>3, <2>2, ToSetFacts
    <3>2. PICK i \in 1..Len(r) : r[i] = x
      BY <1>3, <2>2, <3>1
    <3> QED BY <1>3, <3>2, ToSetFacts
  <2> QED BY <2>1, <2>2
<1>8. Published' = Published
  BY <1>1 DEF Published
<1>9. ToSet(pending') = {} /\ Len(pending') = 0
  BY <1>1 DEF ToSet
<1>10. ToSet(backlog) \subseteq 1..last /\ ToSet(backlog) \subseteq Ids
  <2>1. ToSet(backlog) \subseteq Ids
    BY <1>4, ToSetFacts
  <2>2. \A x \in ToSet(backlog) : x \in Int
    BY <2>1, RedisTypes
  <2> QED BY <1>4, <2>1, <2>2
<1>11. RedisTypeOK'
  BY <1>1, <1>6, <1>10 DEF RedisTypeOK
<1>12. PhasesAgree' /\ BacklogIsAStretch'
  BY <1>1 DEF PhasesAgree, BacklogIsAStretch
<1>13. LiveIsPublished'
  BY <1>1, <1>6, <1>7, <1>8, <1>9, <1>10 DEF LiveIsPublished
<1>14. \A i \in 1..Len(seen') : seen'[i] \in Nat
  BY <1>6, ToSetFacts, RedisTypes
<1>15. LiveIsOnce'
  <2>1. ASSUME NEW i \in 1..Len(seen'), NEW j \in 1..Len(seen'), i < j PROVE seen'[i] # seen'[j]
    <3>1. CASE i \in 1..b /\ j \in 1..b
      BY <1>4, <1>6, <2>1, <3>1
    <3>2. CASE i \in 1..b /\ j \in (b + 1)..(b + Len(r))
      <4>1. seen'[i] \in ToSet(backlog)
        <5>1. seen'[i] = backlog[i] /\ i \in 1..Len(backlog)
          BY <1>6, <3>2 DEF b
        <5> QED BY <1>4, <5>1, ToSetFacts
      <4>2. seen'[j] \notin ToSet(backlog)
        BY <1>3, <1>6, <3>2
      <4> QED BY <4>1, <4>2
    <3>3. CASE i \in (b + 1)..(b + Len(r)) /\ j \in (b + 1)..(b + Len(r))
      <4>1. PICK m \in 1..Len(r), n \in 1..Len(r) : m < n /\ seen'[i] = r[m] /\ seen'[j] = r[n]
        <5>1. i - b < j - b
          BY <1>4, <2>1, <3>3
        <5> QED BY <1>6, <3>3, <5>1
      <4>2. PICK k \in 1..Len(pending), l \in 1..Len(pending) : k < l /\ seen'[i] = pending[k] /\ seen'[j] = pending[l]
        BY <1>3, <4>1
      <4>3. k # l
        BY <4>2
      <4> QED BY <1>3, <4>2, <4>3 DEF LiveIsOnce, IsInjective
    <3> QED BY <1>3, <1>4, <1>6, <2>1, <3>1, <3>2, <3>3
  <2>2. IsInjective(seen')
    <3>1. DOMAIN seen' = 1..Len(seen')
      BY <1>6
    <3>2. \A i, j \in 1..Len(seen') : i < j \/ j < i \/ i = j
      BY <1>6
    <3> QED BY <2>1, <3>1, <3>2 DEF IsInjective
  <2>3. IsInjective(pending')
    BY <1>1 DEF IsInjective
  <2>4. ToSet(seen') \cap ToSet(inbox) \subseteq resumed'
    BY <1>1, <1>6, <1>7 DEF LiveIsOnce
  <2> QED BY <1>1, <1>9, <2>2, <2>3, <2>4 DEF LiveIsOnce
<1>16. LiveRises'
  <2>1. SUFFICES ASSUME ordered PROVE LiveRises'
    BY <1>1 DEF LiveRises
  <2>2. ASSUME NEW i \in 1..Len(seen'), NEW j \in 1..Len(seen'), i < j, seen'[i] > after, seen'[j] > after
        PROVE  seen'[i] < seen'[j]
    <3>1. CASE i \in 1..b /\ j \in 1..b
      BY <1>4, <1>6, <2>2, <3>1
    <3>2. CASE i \in 1..b /\ j \in (b + 1)..(b + Len(r))
      <4>1. seen'[i] <= after + b /\ seen'[i] \in Nat
        BY <1>4, <1>6, <1>14, <3>2
      <4>2. seen'[j] \notin ToSet(backlog) /\ seen'[j] \in Nat
        BY <1>3, <1>6, <1>14, <3>2
      <4>3. seen'[j] > after + b
        BY <1>4, <2>2, <4>2
      <4> QED BY <1>4, <4>1, <4>2, <4>3
    <3>3. CASE i \in (b + 1)..(b + Len(r)) /\ j \in (b + 1)..(b + Len(r))
      <4>1. PICK m \in 1..Len(r), n \in 1..Len(r) : m < n /\ seen'[i] = r[m] /\ seen'[j] = r[n]
        <5>1. i - b < j - b
          BY <1>4, <2>2, <3>3
        <5> QED BY <1>6, <3>3, <5>1
      <4>2. PICK k \in 1..Len(pending), l \in 1..Len(pending) : k < l /\ seen'[i] = pending[k] /\ seen'[j] = pending[l]
        BY <1>3, <4>1
      <4> QED BY <2>1, <4>2 DEF LiveRises
    <3> QED BY <1>3, <1>4, <1>6, <2>2, <3>1, <3>2, <3>3
  <2>3. ASSUME NEW i \in 1..Len(seen'), NEW j \in 1..Len(inbox), inbox[j] > after,
               inbox[j] \notin {Ack} \cup ToSet(backlog)
        PROVE  seen'[i] < inbox[j]
    <3>0. inbox[j] \in Nat
      BY RedisTypes
    <3>1. CASE i \in 1..b
      <4>1. seen'[i] <= after + b /\ seen'[i] \in Nat
        BY <1>4, <1>6, <1>14, <3>1
      <4>2. inbox[j] > after + b
        BY <1>4, <2>3, <3>0
      <4> QED BY <1>4, <3>0, <4>1, <4>2
    <3>2. CASE i \in (b + 1)..(b + Len(r))
      <4>0. PICK m \in 1..Len(r) : seen'[i] = r[m]
        BY <1>6, <3>2
      <4>1. PICK k \in 1..Len(pending) : seen'[i] = pending[k]
        BY <1>3, <4>0
      <4> QED BY <2>1, <2>3, <4>1 DEF LiveRises
    <3> QED BY <1>6, <3>1, <3>2
  <2> QED BY <1>1, <1>9, <2>1, <2>2, <2>3 DEF LiveRises
<1>17. PublishedIsSomewhere'
  BY <1>1, <1>6, <1>7, <1>8 DEF PublishedIsSomewhere
<1> QED BY <1>11, <1>12, <1>13, <1>15, <1>16, <1>17

\* XREAD failed, and what is pending is delivered: the invariant is kept.
LEMMA ResumeFailsKeeps ==
  ASSUME RedisInv, ResumeFails
  PROVE  RedisInv'
<1> USE DEF RedisInv
<1>1. /\ phase = "subscribing" /\ ~isFlushed /\ xread = "refused" /\ seen = <<>> /\ resumed = {}
      /\ seen' = seen \o pending /\ isFlushed' = TRUE /\ pending' = <<>> /\ phase' = "failing"
      /\ UNCHANGED <<ordered, last, unsent, after, acked, resumed>>
      /\ UNCHANGED <<channel, inbox, xread, backlog, blind>>
  BY DEF ResumeFails, redis, wire, PhasesAgree
<1>2. pending \in Seq(Ids)
  BY RedisTypes
<1>3. seen' = pending
  BY <1>1, <1>2, ConcatEmptySeq
<1>4. Published' = Published /\ ToSet(pending') = {} /\ Len(pending') = 0
  BY <1>1 DEF Published, ToSet
<1>5. RedisTypeOK'
  BY <1>1, <1>2, <1>3 DEF RedisTypeOK
<1>6. PhasesAgree' /\ BacklogIsAStretch' /\ PublishedIsSomewhere'
  BY <1>1 DEF PhasesAgree, BacklogIsAStretch, PublishedIsSomewhere
<1>7. LiveIsPublished'
  BY <1>1, <1>3, <1>4 DEF LiveIsPublished
<1>8. LiveIsOnce'
  <2>1. IsInjective(pending')
    BY <1>1 DEF IsInjective
  <2> QED BY <1>1, <1>3, <1>4, <2>1 DEF LiveIsOnce
<1>9. LiveRises'
  BY <1>1, <1>3, <1>4 DEF LiveRises
<1> QED BY <1>5, <1>6, <1>7, <1>8, <1>9

\* deduplicatingListener, for one event.
LEMMA FreshOfOne ==
  ASSUME NEW S, NEW x \in S, NEW known
  PROVE  Fresh(<<x>>, known) = IF x \in known THEN <<>> ELSE <<x>>
<1>1. PICK s \in Seq(S) : s = <<x>>
  <2>1. <<x>> \in Seq(S)
    OBVIOUS
  <2> QED BY <2>1
<1>2. Len(s) = 1 /\ s[1] = x
  BY <1>1
<1>3. PICK r : r = Fresh(s, known)
  OBVIOUS
<1>4. /\ r \in Seq(S) /\ Len(r) \in Nat
      /\ \A i \in 1..Len(r) : r[i] = x /\ x \notin known
      /\ x \notin known => \E i \in 1..Len(r) : r[i] = x
      /\ \A i, j \in 1..Len(r) : ~(i < j)
  <2>1. /\ r \in Seq(S)
        /\ \A i \in 1..Len(r) : \E k \in 1..Len(s) : r[i] = s[k] /\ s[k] \notin known
        /\ \A k \in 1..Len(s) : s[k] \notin known => \E i \in 1..Len(r) : r[i] = s[k]
        /\ \A i, j \in 1..Len(r) : i < j =>
             \E k, l \in 1..Len(s) : k < l /\ r[i] = s[k] /\ r[j] = s[l]
    <3>1. r \in Seq(S) /\ IsFresh(r, s, known)
      BY <1>3, FreshFacts
    <3> QED BY <3>1 DEF IsFresh
  <2>2. \A k \in 1..Len(s) : k = 1
    BY <1>2
  <2>3. 1 \in 1..Len(s) /\ ~(1 < 1)
    BY <1>2
  <2>4. Len(r) \in Nat
    BY <2>1
  <2>5. \A i \in 1..Len(r) : r[i] = x /\ x \notin known
    BY <1>2, <2>1, <2>2
  <2>6. x \notin known => \E i \in 1..Len(r) : r[i] = x
    BY <1>2, <2>1, <2>3
  <2>7. ASSUME NEW i \in 1..Len(r), NEW j \in 1..Len(r), i < j PROVE FALSE
    <3>1. PICK k \in 1..Len(s), l \in 1..Len(s) : k < l
      BY <2>1, <2>7
    <3> QED BY <1>2, <3>1
  <2> QED BY <2>1, <2>4, <2>5, <2>6, <2>7
<1>5. CASE x \in known
  <2>1. Len(r) = 0
    <3>1. SUFFICES ASSUME Len(r) # 0 PROVE FALSE
      OBVIOUS
    <3>2. 1 \in 1..Len(r)
      BY <1>4, <3>1
    <3> QED BY <1>4, <1>5, <3>2
  <2>2. r = <<>>
    BY <1>4, <2>1, EmptySeq
  <2> QED BY <1>1, <1>3, <1>5, <2>2
<1>6. CASE x \notin known
  <2>1. Len(r) = 1
    <3>1. Len(r) # 0
      BY <1>4, <1>6
    <3>2. ASSUME Len(r) > 1 PROVE FALSE
      <4>1. 1 \in 1..Len(r) /\ 2 \in 1..Len(r) /\ 1 < 2
        BY <1>4, <3>2
      <4> QED BY <1>4, <4>1
    <3> QED BY <1>4, <3>1, <3>2
  <2>2. r = [i \in 1..1 |-> r[i]] /\ r[1] = x
    BY <1>4, <2>1
  <2>3. r = <<x>>
    <3>1. <<x>> \in Seq(S) /\ Len(<<x>>) = 1 /\ <<x>>[1] = x
      OBVIOUS
    <3>2. \A i \in 1..Len(r) : r[i] = <<x>>[i]
      BY <2>1, <2>2, <3>1
    <3> QED BY <1>4, <2>1, <3>1, <3>2, SeqEqual
  <2> QED BY <1>1, <1>3, <1>6, <2>3
<1> QED BY <1>5, <1>6

\* What a message that arrives leaves behind.
LEMMA InboxFacts ==
  ASSUME RedisInv, Receive
  PROVE  /\ inbox # <<>> /\ inbox' = Tail(inbox) /\ channel = "open" /\ phase # "idle"
         /\ inbox' \in Seq({Ack} \cup Ids) /\ Head(inbox) \in {Ack} \cup Ids
         /\ Head(inbox) = inbox[1] /\ 1 \in 1..Len(inbox)
         /\ \A i \in 1..Len(inbox') : inbox'[i] = inbox[i + 1] /\ i + 1 \in 1..Len(inbox) /\ i \in Nat
         /\ ToSet(inbox) = {Head(inbox)} \cup ToSet(inbox')
         /\ Head(inbox) # Ack => Head(inbox) \notin ToSet(inbox')
<1> USE DEF RedisInv
<1>1. inbox # <<>> /\ inbox' = Tail(inbox) /\ inbox \in Seq({Ack} \cup Ids) /\ phase # "idle"
  BY RedisTypes DEF Receive
<1>2. /\ inbox' \in Seq({Ack} \cup Ids) /\ Len(inbox) \in Nat \ {0}
      /\ Head(inbox) = inbox[1] /\ Head(inbox) \in {Ack} \cup Ids
      /\ \A i \in 1..Len(inbox') : inbox'[i] = inbox[i + 1] /\ i + 1 \in 1..Len(inbox)
      /\ ToSet(inbox) = {Head(inbox)} \cup ToSet(inbox')
  BY <1>1, ToSetOfTail
<1>3. 1 \in 1..Len(inbox) /\ \A i \in 1..Len(inbox') : i \in Nat /\ i + 1 # 1
  BY <1>2
<1>4. ASSUME Head(inbox) # Ack, Head(inbox) \in ToSet(inbox') PROVE FALSE
  <2>1. PICK i \in 1..Len(inbox') : inbox'[i] = Head(inbox)
    BY <1>2, <1>4, ToSetFacts
  <2>2. inbox[i + 1] = inbox[1] /\ i + 1 \in 1..Len(inbox) /\ i + 1 # 1
    BY <1>2, <1>3, <2>1
  <2> QED BY <1>2, <1>3, <1>4, <2>2 DEF LiveIsOnce
<1>5. channel = "open"
  BY <1>1 DEF PhasesAgree
<1> QED BY <1>1, <1>2, <1>3, <1>4, <1>5

\* A message arrives: the invariant is kept.
LEMMA ReceiveKeeps ==
  ASSUME RedisInv, Receive
  PROVE  RedisInv'
<1> USE DEF RedisInv
<1>1. PICK id : id = Head(inbox)
  OBVIOUS
<1>2. /\ inbox # <<>> /\ channel = "open" /\ phase # "idle" /\ inbox' \in Seq({Ack} \cup Ids)
      /\ id \in {Ack} \cup Ids /\ id = inbox[1] /\ 1 \in 1..Len(inbox)
      /\ \A i \in 1..Len(inbox') : inbox'[i] = inbox[i + 1] /\ i + 1 \in 1..Len(inbox) /\ i \in Nat
      /\ ToSet(inbox) = {id} \cup ToSet(inbox')
      /\ id # Ack => id \notin ToSet(inbox')
  BY <1>1, InboxFacts, Zenon
<1>3. /\ UNCHANGED <<ordered, last, unsent, phase, after, isFlushed, resumed, channel, xread, backlog, blind>>
      /\ \/ id = Ack /\ acked' = TRUE /\ UNCHANGED <<pending, seen>>
         \/ id # Ack /\ ~isFlushed /\ pending' = Append(pending, id) /\ UNCHANGED <<acked, seen>>
         \/ id # Ack /\ isFlushed /\ seen' = seen \o Fresh(<<id>>, resumed) /\ UNCHANGED <<acked, pending>>
  BY <1>1 DEF Receive, redis
<1>4. Published' = Published
  BY <1>3 DEF Published
<1>5. \A i, j \in 1..Len(inbox') : i < j => i + 1 < j + 1
  BY <1>2
<1>6. \A i, j \in 1..Len(inbox') : i + 1 = j + 1 => i = j
  BY <1>2
<1>7. \A i, j \in 1..Len(inbox') : inbox'[i] # Ack /\ inbox'[i] = inbox'[j] => i = j
  BY <1>2, <1>6 DEF LiveIsOnce
<1>8. ordered => /\ \A i, j \in 1..Len(inbox') : i < j /\ inbox'[j] # Ack => inbox'[i] < inbox'[j]
                 /\ \A j \in 1..Len(inbox') : inbox'[j] # Ack => id < inbox'[j]
  <2>1. \A j \in 1..Len(inbox') : 1 < j + 1
    BY <1>2
  <2> QED BY <1>2, <1>5, <2>1 DEF LiveRises
<1>9. BacklogIsAStretch'
  BY <1>3 DEF BacklogIsAStretch
<1>10. ToSet(inbox') \subseteq Published \cup {Ack} /\ (id # Ack => id \in Published)
  BY <1>2 DEF LiveIsPublished
<1>11. CASE id = Ack
  <2>1. acked' = TRUE /\ UNCHANGED <<pending, seen>>
    BY <1>3, <1>11
  <2>2. RedisTypeOK'
    BY <1>2, <1>3, <2>1 DEF RedisTypeOK
  <2>3. PhasesAgree'
    BY <1>2, <1>3, <2>1 DEF PhasesAgree
  <2>4. LiveIsPublished' /\ LiveIsOnce'
    BY <1>2, <1>3, <1>4, <1>7, <2>1 DEF LiveIsPublished, LiveIsOnce
  <2>5. LiveRises'
    BY <1>2, <1>3, <1>8, <2>1 DEF LiveRises
  <2>6. PublishedIsSomewhere'
    <3>1. \A x \in Published : x # Ack
      BY RedisTypes DEF Published, Ack
    <3> QED BY <1>2, <1>3, <1>4, <1>11, <2>1, <3>1 DEF PublishedIsSomewhere
  <2> QED BY <1>9, <2>2, <2>3, <2>4, <2>5, <2>6
<1>12. CASE id # Ack /\ ~isFlushed
  <2>1. pending' = Append(pending, id) /\ UNCHANGED <<acked, seen>> /\ id \in Ids /\ pending \in Seq(Ids)
    BY <1>2, <1>3, <1>12, RedisTypes
  <2>2. /\ pending' \in Seq(Ids) /\ Len(pending') = Len(pending) + 1 /\ Len(pending) \in Nat
        /\ \A i \in 1..Len(pending) : pending'[i] = pending[i]
        /\ pending'[Len(pending) + 1] = id
        /\ ToSet(pending') = ToSet(pending) \cup {id}
    BY <2>1, AppendProperties, ToSetOfAppend
  <2>3. \A i \in 1..Len(pending') : i \in 1..Len(pending) \/ i = Len(pending) + 1
    BY <2>2
  <2>4. RedisTypeOK'
    BY <1>2, <1>3, <2>1, <2>2 DEF RedisTypeOK
  <2>5. PhasesAgree'
    BY <1>2, <1>3, <1>12, <2>1 DEF PhasesAgree
  <2>6. LiveIsPublished'
    BY <1>3, <1>4, <1>10, <1>12, <2>1, <2>2 DEF LiveIsPublished
  <2>7. LiveIsOnce'
    <3>1. id \notin ToSet(pending) /\ ToSet(pending) \cap ToSet(inbox') = {}
      BY <1>2 DEF LiveIsOnce
    <3>2. \A i \in 1..Len(pending) : pending[i] # id
      BY <3>1, RedisTypes
    <3>3. IsInjective(pending')
      <4>1. DOMAIN pending' = 1..Len(pending') /\ DOMAIN pending = 1..Len(pending)
        BY <2>1, <2>2
      <4> QED BY <2>2, <2>3, <3>2, <4>1 DEF LiveIsOnce, IsInjective
    <3>4. ToSet(pending') \cap ToSet(inbox') = {}
      BY <1>2, <1>12, <2>2, <3>1
    <3> QED BY <1>2, <1>3, <1>7, <2>1, <3>3, <3>4 DEF LiveIsOnce
  <2>8. LiveRises'
    <3>1. SUFFICES ASSUME ordered PROVE LiveRises'
      BY <1>3 DEF LiveRises
    <3>2. \A i \in 1..Len(pending) : pending[i] < id
      BY <1>2, <1>12, <3>1 DEF LiveRises
    <3>3. \A i, j \in 1..Len(pending') : i < j => pending'[i] < pending'[j]
      <4>1. SUFFICES ASSUME NEW i \in 1..Len(pending'), NEW j \in 1..Len(pending'), i < j
                     PROVE  pending'[i] < pending'[j]
        OBVIOUS
      <4>2. i \in 1..Len(pending)
        BY <2>2, <4>1
      <4> QED BY <2>2, <2>3, <3>1, <3>2, <4>1, <4>2 DEF LiveRises
    <3>4. \A i \in 1..Len(pending'), j \in 1..Len(inbox') : inbox'[j] # Ack => pending'[i] < inbox'[j]
      BY <1>2, <1>8, <2>2, <2>3, <3>1 DEF LiveRises
    <3> QED BY <1>3, <1>8, <1>12, <2>1, <3>1, <3>3, <3>4 DEF LiveRises
  <2>9. PublishedIsSomewhere'
    BY <1>2, <1>3, <1>4, <2>1, <2>2 DEF PublishedIsSomewhere
  <2> QED BY <1>9, <2>4, <2>5, <2>6, <2>7, <2>8, <2>9
<1>13. CASE id # Ack /\ isFlushed
  <2>1. UNCHANGED <<acked, pending>> /\ id \in Ids /\ seen \in Seq(Ids) /\ pending = <<>>
    BY <1>2, <1>3, <1>13, RedisTypes DEF PhasesAgree
  <2>2. seen' = IF id \in resumed THEN seen ELSE Append(seen, id)
    <3>1. Fresh(<<id>>, resumed) = IF id \in resumed THEN <<>> ELSE <<id>>
      BY <2>1, FreshOfOne
    <3>2. seen \o <<>> = seen /\ seen \o <<id>> = Append(seen, id)
      BY <2>1, ConcatEmptySeq, AppendIsConcat
    <3> QED BY <1>3, <1>13, <3>1, <3>2
  <2>3. PhasesAgree'
    BY <1>2, <1>3, <1>13, <2>1 DEF PhasesAgree
  <2>4. CASE id \in resumed
    <3>1. seen' = seen /\ id \in ToSet(seen)
      BY <2>2, <2>4 DEF LiveIsPublished
    <3>2. RedisTypeOK'
      BY <1>2, <1>3, <2>1, <3>1 DEF RedisTypeOK
    <3>3. LiveIsPublished' /\ LiveIsOnce'
      BY <1>2, <1>3, <1>4, <1>7, <2>1, <3>1 DEF LiveIsPublished, LiveIsOnce
    <3>4. LiveRises'
      BY <1>2, <1>3, <1>8, <2>1, <3>1 DEF LiveRises
    <3>5. PublishedIsSomewhere'
      BY <1>2, <1>3, <1>4, <2>1, <3>1 DEF PublishedIsSomewhere
    <3> QED BY <1>9, <2>3, <3>2, <3>3, <3>4, <3>5
  <2>5. CASE id \notin resumed
    <3>1. /\ seen' = Append(seen, id)
          /\ seen' \in Seq(Ids) /\ Len(seen') = Len(seen) + 1 /\ Len(seen) \in Nat
          /\ \A i \in 1..Len(seen) : seen'[i] = seen[i]
          /\ seen'[Len(seen) + 1] = id
          /\ ToSet(seen') = ToSet(seen) \cup {id}
      BY <2>1, <2>2, <2>5, AppendProperties, ToSetOfAppend
    <3>2. \A i \in 1..Len(seen') : i \in 1..Len(seen) \/ i = Len(seen) + 1
      BY <3>1
    <3>3. RedisTypeOK'
      BY <1>2, <1>3, <2>1, <3>1 DEF RedisTypeOK
    <3>4. LiveIsPublished'
      BY <1>3, <1>4, <1>10, <1>13, <2>1, <3>1 DEF LiveIsPublished
    <3>5. id \notin ToSet(seen)
      BY <1>2, <2>5 DEF LiveIsOnce
    <3>6. LiveIsOnce'
      <4>1. \A i \in 1..Len(seen) : seen[i] # id
        BY <3>5, RedisTypes
      <4>2. IsInjective(seen')
        <5>1. DOMAIN seen' = 1..Len(seen') /\ DOMAIN seen = 1..Len(seen)
          BY <2>1, <3>1
        <5> QED BY <3>1, <3>2, <4>1, <5>1 DEF LiveIsOnce, IsInjective
      <4>3. ToSet(seen') \cap ToSet(inbox') \subseteq resumed
        BY <1>2, <1>13, <3>1 DEF LiveIsOnce
      <4>4. ToSet(pending) \cap ToSet(inbox') = {}
        BY <1>2 DEF LiveIsOnce
      <4> QED BY <1>3, <1>7, <2>1, <4>2, <4>3, <4>4 DEF LiveIsOnce
    <3>7. LiveRises'
      <4>1. SUFFICES ASSUME ordered PROVE LiveRises'
        BY <1>3 DEF LiveRises
      <4>2. id > after => \A i \in 1..Len(seen) : seen[i] > after => seen[i] < id
        BY <1>2, <1>13, <2>5, <4>1 DEF LiveRises
      <4>3. ASSUME NEW i \in 1..Len(seen'), NEW j \in 1..Len(seen'), i < j, seen'[i] > after, seen'[j] > after
            PROVE  seen'[i] < seen'[j]
        <5>1. i \in 1..Len(seen)
          BY <3>1, <4>3
        <5> QED BY <3>1, <3>2, <4>1, <4>2, <4>3, <5>1 DEF LiveRises
      <4>4. ASSUME NEW i \in 1..Len(seen'), NEW j \in 1..Len(inbox'), seen'[i] > after, inbox'[j] > after,
                   inbox'[j] \notin {Ack} \cup resumed
            PROVE  seen'[i] < inbox'[j]
        <5>1. CASE i \in 1..Len(seen)
          BY <1>2, <1>13, <3>1, <4>1, <4>4, <5>1 DEF LiveRises
        <5>2. CASE i = Len(seen) + 1
          BY <1>8, <3>1, <4>1, <4>4, <5>2
        <5> QED BY <3>2, <5>1, <5>2
      <4>5. Len(pending) = 0
        BY <2>1
      <4> QED BY <1>3, <1>8, <2>1, <4>1, <4>3, <4>4, <4>5 DEF LiveRises
    <3>8. PublishedIsSomewhere'
      BY <1>2, <1>3, <1>4, <2>1, <3>1 DEF PublishedIsSomewhere
    <3> QED BY <1>9, <2>3, <3>3, <3>4, <3>6, <3>7, <3>8
  <2> QED BY <2>4, <2>5
<1> QED BY <1>3, <1>11, <1>12, <1>13

\* A step of the call itself keeps the invariant.
LEMMA PhaseStepsKeep ==
  ASSUME RedisInv, Settle \/ Unsubscribe \/ Unsubscribed
  PROVE  RedisInv'
<1> USE DEF RedisInv
<1>1. /\ UNCHANGED <<ordered, last, unsent, after, acked, pending, isFlushed, resumed, seen, xread, backlog, blind>>
      /\ \/ channel' = channel /\ inbox' = inbox
         \/ channel' = "none" /\ inbox' = <<>> /\ phase' \in {"failed", "closed"}
      /\ \/ phase' = "active" /\ phase = "subscribing" /\ isFlushed /\ acked
         \/ phase' \in {"failing", "closing", "failed", "closed"} /\ phase # "idle" /\ isFlushed
  BY DEF Settle, Unsubscribe, Unsubscribed, redis, wire, PhasesAgree
<1>2. channel' \in {"none", "asked", "open", "refused"} /\ inbox' \in Seq({Ack} \cup Ids)
      /\ phase' \in {"active", "failing", "closing", "failed", "closed"}
  <2>1. inbox' = <<>> => inbox' \in Seq({Ack} \cup Ids)
    OBVIOUS
  <2> QED BY <1>1, <2>1 DEF RedisTypeOK
<1>3. RedisTypeOK'
  BY <1>1, <1>2 DEF RedisTypeOK
<1>4. PhasesAgree'
  BY <1>1, <1>2 DEF PhasesAgree, RedisTypeOK
<1>5. BacklogIsAStretch'
  BY <1>1 DEF BacklogIsAStretch
<1>6. Published' = Published /\ (inbox' = <<>> => ToSet(inbox') = {} /\ Len(inbox') = 0)
  BY <1>1 DEF Published, ToSet
<1>7. LiveIsPublished' /\ LiveIsOnce' /\ LiveRises'
  BY <1>1, <1>6 DEF LiveIsPublished, LiveIsOnce, LiveRises
<1>8. PublishedIsSomewhere'
  BY <1>1, <1>6 DEF PublishedIsSomewhere
<1> QED BY <1>3, <1>4, <1>5, <1>7, <1>8

\* The invariant of a Redis subscription holds throughout (subscribeListener).
THEOREM RedisInvariant == RedisSpec => []RedisInv
<1>1. RedisInit => RedisInv
  <2>1. SUFFICES ASSUME RedisInit PROVE RedisInv
    OBVIOUS
  <2>2. /\ Len(seen) = 0 /\ Len(inbox) = 0 /\ Len(pending) = 0 /\ DOMAIN seen = {} /\ DOMAIN pending = {}
        /\ ToSet(seen) = {} /\ ToSet(inbox) = {} /\ ToSet(pending) = {}
    BY <2>1 DEF RedisInit, ToSet
  <2>3. RedisTypeOK
    <3>1. <<>> \in Seq(Ids) /\ <<>> \in Seq({Ack} \cup Ids) /\ 0 \in 0..MaxEvents
      BY RedisAssumption
    <3> QED BY <2>1, <3>1 DEF RedisInit, RedisTypeOK
  <2>4. PhasesAgree /\ BacklogIsAStretch /\ PublishedIsSomewhere
    BY <2>1 DEF RedisInit, PhasesAgree, BacklogIsAStretch, PublishedIsSomewhere, NoLast
  <2>5. LiveIsPublished /\ LiveIsOnce /\ LiveRises
    BY <2>1, <2>2 DEF RedisInit, LiveIsPublished, LiveIsOnce, LiveRises, IsInjective
  <2> QED BY <2>3, <2>4, <2>5 DEF RedisInv
<1>2. RedisInv /\ [RedisNext]_redisVars => RedisInv'
  <2> SUFFICES ASSUME RedisInv, [RedisNext]_redisVars PROVE RedisInv'
    OBVIOUS
  <2>1. ASSUME Add PROVE RedisInv'
    BY <2>1, AddKeeps
  <2>2. ASSUME NEW id \in Ids, Publish(id) PROVE RedisInv'
    BY <2>2, PublishKeeps
  <2>3. ASSUME NEW id \in {NoLast} \cup 0..last, SubscribesRedis(id) PROVE RedisInv'
    BY <2>3, SubscribesRedisKeeps
  <2>4. ASSUME ServeSubscribe PROVE RedisInv'
    BY <2>4, ServeSubscribeKeeps
  <2>5. ASSUME ServeXread PROVE RedisInv'
    BY <2>5, ServeXreadKeeps
  <2>6. ASSUME Resume PROVE RedisInv'
    BY <2>6, ResumeKeeps
  <2>7. ASSUME ResumeFails PROVE RedisInv'
    BY <2>7, ResumeFailsKeeps
  <2>8. ASSUME Receive PROVE RedisInv'
    BY <2>8, ReceiveKeeps
  <2>9. ASSUME Settle \/ Unsubscribe \/ Unsubscribed PROVE RedisInv'
    BY <2>9, PhaseStepsKeep
  <2>10. ASSUME UNCHANGED redisVars PROVE RedisInv'
    <3>1. /\ UNCHANGED <<ordered, last, unsent, phase, after, acked, pending, isFlushed, resumed, seen>>
          /\ UNCHANGED <<channel, inbox, xread, backlog, blind>> /\ Published' = Published
      BY <2>10 DEF redisVars, redis, client, wire, Published
    <3> QED BY SMTT(20), <3>1 DEF RedisInv, RedisTypeOK, PhasesAgree, BacklogIsAStretch, LiveIsPublished, LiveIsOnce,
                        LiveRises, PublishedIsSomewhere
  <2> QED BY <2>1, <2>2, <2>3, <2>4, <2>5, <2>6, <2>7, <2>8, <2>9, <2>10 DEF RedisNext
<1> QED BY <1>1, <1>2, PTL DEF RedisSpec

\* A listener gets no event twice, those after lastEventId in order, and misses
\* none but in the gap between XREAD and SUBSCRIBE, for any number of events and
\* whatever races (subscribeListener).
THEOREM ListenersAreServed == RedisSpec => []ListenerIsServed
<1>1. RedisInv => ListenerIsServed
  <2> SUFFICES ASSUME RedisInv PROVE ListenerIsServed
    OBVIOUS
  <2> USE DEF RedisInv
  <2>1. SeenInOrder
    BY DEF SeenInOrder, LiveIsOnce, LiveRises
  <2>2. OnlyTheGapLoses
    <3>1. SUFFICES ASSUME phase = "active", after # NoLast, NEW id \in Published, id > after,
                          id \notin ToSet(seen \o inbox)
                   PROVE  id \in blind
      BY DEF OnlyTheGapLoses, Missed
    <3>2. xread = "served" /\ channel = "open" /\ isFlushed /\ pending = <<>>
      BY <3>1 DEF PhasesAgree
    <3>3. ToSet(seen) \cup ToSet(inbox) = ToSet(seen \o inbox)
      <4>1. seen \in Seq({Ack} \cup Ids) /\ inbox \in Seq({Ack} \cup Ids)
        BY RedisTypes
      <4> QED BY <4>1, ToSetOfConcat
    <3>4. ToSet(pending) = {}
      BY <3>2 DEF ToSet
    <3> QED BY <3>1, <3>2, <3>3, <3>4 DEF PublishedIsSomewhere
  <2> QED BY <2>1, <2>2 DEF ListenerIsServed
<1> QED BY <1>1, RedisInvariant, PTL

-----------------------------------------------------------------------------
(* The subscribers of an Upstash publisher.                                 *)

\* The entry of subscriptionMap is an open connection, and it is there for every
\* listener whose subscribeEvent is done.
ListenersAreConnected ==
  /\ subscription # NoConnection => connection[subscription] = "open"
  /\ \A s \in UpstashSubscribers :
       /\ step[s] \in {"reading", "awaiting", "active"} => s \in listeners
       /\ step[s] = "active" => subscription # NoConnection
       /\ task[s] = "done" /\ s \in listeners => subscription # NoConnection

\* Both maps know what there is of connections, and it is one at most.
MapsAreComplete ==
  /\ pendingSub = NoConnection \/ subscription = NoConnection
  /\ \A c \in Connections : (connection[c] = "asked" => c = pendingSub) /\ (connection[c] = "open" => c = subscription)

\* Who goes on with subscribeEvent finds a subscription, or is alone to connect.
TasksAreAlone ==
  \A i \in 1..Len(microtasks) : microtasks[i].of = "task" =>
    /\ microtasks[i].who \in listeners
    /\ subscription = NoConnection =>
         /\ pendingSub = NoConnection
         /\ \A j \in 1..Len(microtasks) : microtasks[j].of = "task" => j = i

UpstashInv ==
  /\ UpstashTypeOK /\ ListenersAreConnected
  /\ ~crossed => MapsAreComplete /\ TasksAreAlone

LEMMA NoConnectionIsNone == NoConnection \notin Connections
BY UpstashAssumption DEF NoConnection, Connections

\* One more who waits for a connection.
LEMMA WaitersFacts ==
  ASSUME UpstashTypeOK, NEW s \in UpstashSubscribers, NEW of \in {"task", "leave"},
         pendingSub # NoConnection,
         waiters' = [waiters EXCEPT ![pendingSub] = Append(@, [who |-> s, of |-> of])]
  PROVE  waiters' \in [Connections -> Seq(Waiters)]
<1>1. pendingSub \in Connections /\ waiters \in [Connections -> Seq(Waiters)]
  BY DEF UpstashTypeOK
<1>2. [who |-> s, of |-> of] \in Waiters
  BY DEF Waiters
<1>3. Append(waiters[pendingSub], [who |-> s, of |-> of]) \in Seq(Waiters)
  BY <1>1, <1>2, AppendProperties
<1> QED BY <1>1, <1>3

\* subscribeEvent from its check of subscriptionMap on.
LEMMA ConnectFacts ==
  ASSUME UpstashTypeOK, ListenersAreConnected, NEW s \in UpstashSubscribers, Connect(s)
  PROVE  /\ task' \in [UpstashSubscribers -> {"none", "waiting", "connecting", "done", "rejected"}]
         /\ connection' \in [Connections -> {"unused", "asked", "open", "refused", "closed"}]
         /\ maker' \in [Connections -> {NoConnection} \cup UpstashSubscribers]
         /\ pendingSub' \in {NoConnection} \cup Connections
         /\ \A t \in UpstashSubscribers : t # s => task'[t] = task[t]
         /\ task'[s] = "done" => subscription # NoConnection
         /\ subscription # NoConnection => connection' = connection /\ pendingSub' = pendingSub
         /\ subscription = NoConnection =>
              /\ pendingSub' \in Connections /\ connection[pendingSub'] = "unused" /\ connection'[pendingSub'] = "asked"
              /\ \A c \in Connections : c # pendingSub' => connection'[c] = connection[c]
<1>1. CASE subscription # NoConnection
  BY <1>1 DEF Connect, UpstashTypeOK
<1>2. CASE subscription = NoConnection
  <2>1. PICK c \in Connections :
          /\ connection[c] = "unused"
          /\ connection' = [connection EXCEPT ![c] = "asked"]
          /\ maker' = [maker EXCEPT ![c] = s]
          /\ pendingSub' = c
          /\ task' = [task EXCEPT ![s] = "connecting"]
    BY <1>2 DEF Connect
  <2> QED BY <1>2, <2>1 DEF UpstashTypeOK
<1> QED BY <1>1, <1>2

\* subscribeListener keeps the invariant up to its first await.
LEMMA SubscribesKeeps ==
  ASSUME UpstashInv, NEW s \in UpstashSubscribers, Subscribes(s)
  PROVE  UpstashInv'
<1> USE DEF UpstashInv
<1>1. /\ step[s] = "idle" /\ microtasks = <<>> /\ listeners' = listeners \cup {s}
      /\ SubscribeEvent(s)
      /\ UNCHANGED <<microtasks, subscription, crossed>>
  BY DEF Subscribes, Quiet
<1>2. PICK next \in {"reading", "awaiting"} : step' = [step EXCEPT ![s] = next]
  BY DEF Subscribes
<1>3. /\ step' \in [UpstashSubscribers -> {"idle", "reading", "awaiting", "active", "leaving", "gone"}]
      /\ step'[s] \in {"reading", "awaiting"}
      /\ \A t \in UpstashSubscribers : t # s => step'[t] = step[t]
  BY <1>2 DEF UpstashTypeOK
<1>4. TasksAreAlone'
  BY <1>1 DEF TasksAreAlone
<1>5. CASE pendingSub # NoConnection /\ task' = [task EXCEPT ![s] = "waiting"]
           /\ waiters' = [waiters EXCEPT ![pendingSub] = Append(@, [who |-> s, of |-> "task"])]
           /\ UNCHANGED <<connection, maker, pendingSub>>
  <2>1. /\ task' \in [UpstashSubscribers -> {"none", "waiting", "connecting", "done", "rejected"}]
        /\ task'[s] = "waiting" /\ \A t \in UpstashSubscribers : t # s => task'[t] = task[t]
    BY <1>5 DEF UpstashTypeOK
  <2>2. waiters' \in [Connections -> Seq(Waiters)]
    BY <1>5, WaitersFacts
  <2>3. UpstashTypeOK'
    BY <1>1, <1>3, <1>5, <2>1, <2>2 DEF UpstashTypeOK
  <2>4. ListenersAreConnected'
    BY <1>1, <1>3, <1>5, <2>1 DEF ListenersAreConnected
  <2>5. ~crossed' => MapsAreComplete'
    BY <1>1, <1>5 DEF MapsAreComplete
  <2> QED BY <1>4, <2>3, <2>4, <2>5
<1>6. CASE pendingSub = NoConnection /\ Connect(s) /\ UNCHANGED waiters
  <2>1. UpstashTypeOK'
    BY <1>1, <1>3, <1>6, ConnectFacts DEF UpstashTypeOK
  <2>2. ListenersAreConnected'
    BY <1>1, <1>3, <1>6, ConnectFacts DEF ListenersAreConnected
  <2>3. CASE subscription # NoConnection
    <3>1. connection' = connection /\ pendingSub' = pendingSub
      BY <1>6, <2>3, ConnectFacts
    <3>2. ~crossed' => MapsAreComplete'
      BY <1>1, <3>1 DEF MapsAreComplete
    <3> QED BY <1>4, <2>1, <2>2, <3>2
  <2>4. CASE subscription = NoConnection
    <3>1. /\ pendingSub' \in Connections /\ connection'[pendingSub'] = "asked"
          /\ \A c \in Connections : c # pendingSub' => connection'[c] = connection[c]
      BY <1>6, <2>4, ConnectFacts
    <3>2. ~crossed' => MapsAreComplete'
      BY <1>1, <1>6, <2>4, <3>1, NoConnectionIsNone DEF MapsAreComplete
    <3> QED BY <1>4, <2>1, <2>2, <3>2
  <2> QED BY <2>3, <2>4
<1> QED BY <1>1, <1>5, <1>6 DEF SubscribeEvent

\* The end of unsubscribeEvent: a connection is closed only when nobody listens.
LEMMA DisconnectFacts ==
  ASSUME UpstashTypeOK, ListenersAreConnected, NEW s \in UpstashSubscribers, NEW left,
         Disconnect(s, left)
  PROVE  /\ step' \in [UpstashSubscribers -> {"idle", "reading", "awaiting", "active", "leaving", "gone"}]
         /\ step'[s] = "gone" /\ \A t \in UpstashSubscribers : t # s => step'[t] = step[t]
         /\ connection' \in [Connections -> {"unused", "asked", "open", "refused", "closed"}]
         /\ \/ left = {} /\ subscription' = NoConnection
            \/ subscription' = subscription /\ connection' = connection
         /\ \A c \in Connections : connection'[c] = connection[c] \/ (c = subscription /\ connection'[c] = "closed")
         /\ \A c \in Connections : subscription' = NoConnection /\ c = subscription => connection'[c] = "closed"
<1>1. /\ step' \in [UpstashSubscribers -> {"idle", "reading", "awaiting", "active", "leaving", "gone"}]
      /\ step'[s] = "gone" /\ \A t \in UpstashSubscribers : t # s => step'[t] = step[t]
  BY DEF Disconnect, UpstashTypeOK
<1>2. CASE /\ left = {} /\ subscription # NoConnection
           /\ connection' = [connection EXCEPT ![subscription] = "closed"]
           /\ subscription' = NoConnection
  <2>1. subscription \in Connections
    BY <1>2 DEF UpstashTypeOK
  <2>2. connection' \in [Connections -> {"unused", "asked", "open", "refused", "closed"}]
    BY <1>2 DEF UpstashTypeOK
  <2>3. \A c \in Connections : IF c = subscription THEN connection'[c] = "closed" ELSE connection'[c] = connection[c]
    BY <1>2 DEF UpstashTypeOK
  <2> QED BY <1>1, <1>2, <2>2, <2>3
<1>3. CASE UNCHANGED <<connection, subscription>> /\ (left # {} \/ subscription = NoConnection)
  <2>1. \A c \in Connections : subscription' = NoConnection => c # subscription
    BY <1>3, NoConnectionIsNone
  <2> QED BY <1>1, <1>3, <2>1 DEF UpstashTypeOK
<1> QED BY <1>2, <1>3 DEF Disconnect

\* A listener leaves: the invariant is kept.
LEMMA LeaveKeeps ==
  ASSUME UpstashInv, microtasks = <<>>, NEW s \in UpstashSubscribers, Leave(s)
  PROVE  UpstashInv'
<1> USE DEF UpstashInv
<1>1. /\ listeners' = listeners \ {s} /\ UnsubscribeEvent(s, listeners \ {s})
      /\ UNCHANGED <<task, maker, microtasks, pendingSub, crossed>>
  BY DEF Leave
<1>2. TasksAreAlone'
  BY <1>1 DEF TasksAreAlone
<1>3. CASE /\ pendingSub # NoConnection
           /\ step' = [step EXCEPT ![s] = "leaving"]
           /\ waiters' = [waiters EXCEPT ![pendingSub] = Append(@, [who |-> s, of |-> "leave"])]
           /\ UNCHANGED <<connection, subscription>>
  <2>1. waiters' \in [Connections -> Seq(Waiters)]
    BY <1>3, WaitersFacts
  <2>2. UpstashTypeOK'
    BY <1>1, <1>3, <2>1 DEF UpstashTypeOK
  <2>3. ListenersAreConnected'
    BY <1>1, <1>3 DEF ListenersAreConnected, UpstashTypeOK
  <2>4. ~crossed' => MapsAreComplete'
    BY <1>1, <1>3 DEF MapsAreComplete
  <2> QED BY <1>2, <2>2, <2>3, <2>4
<1>4. CASE pendingSub = NoConnection /\ Disconnect(s, listeners \ {s}) /\ UNCHANGED waiters
  <2>1. UpstashTypeOK'
    BY <1>1, <1>4, DisconnectFacts DEF UpstashTypeOK
  <2>2. ListenersAreConnected'
    BY <1>1, <1>4, DisconnectFacts DEF ListenersAreConnected
  <2>3. ~crossed' => MapsAreComplete'
    BY <1>1, <1>4, DisconnectFacts DEF MapsAreComplete
  <2> QED BY <1>2, <2>1, <2>2, <2>3
<1> QED BY <1>1, <1>3, <1>4 DEF UnsubscribeEvent

\* subscribeListener goes on: the invariant is kept.
LEMMA ProceedKeeps ==
  ASSUME UpstashInv, NEW s \in UpstashSubscribers, NEW next \in {"awaiting", "active"}, Proceed(s, next),
         step[s] \in {"reading", "awaiting"}, next = "active" => task[s] = "done"
  PROVE  UpstashInv'
<1> USE DEF UpstashInv
<1>1. /\ step' = [step EXCEPT ![s] = next]
      /\ UNCHANGED <<task, connection, maker, waiters, microtasks, listeners, pendingSub, subscription, crossed>>
  BY DEF Proceed
<1>2. UpstashTypeOK'
  BY <1>1 DEF UpstashTypeOK
<1>3. ListenersAreConnected'
  BY <1>1 DEF ListenersAreConnected, UpstashTypeOK
<1>4. ~crossed' => MapsAreComplete' /\ TasksAreAlone'
  BY <1>1 DEF MapsAreComplete, TasksAreAlone
<1> QED BY <1>2, <1>3, <1>4

\* Without a Crossing, the tasks that go on are of listeners, and there is one at
\* most unless there is a subscription.
LEMMA NoCrossing ==
  ASSUME NEW queue \in Seq(Waiters), NEW opens \in BOOLEAN, ~Crossing(queue, opens)
  PROVE  /\ \A i \in 1..Len(queue) : queue[i].of = "task" => queue[i].who \in listeners
         /\ ~opens => \A i, j \in 1..Len(queue) : queue[i].of = "task" /\ queue[j].of = "task" => i = j
<1> DEFINE tasks == {i \in 1..Len(queue) : queue[i].of = "task"}
<1>1. /\ opens \/ ~(Cardinality(tasks) > 1)
      /\ \A i \in tasks : queue[i].who \in listeners
  BY DEF Crossing
<1>2. ASSUME ~opens, NEW i \in tasks, NEW j \in tasks, i # j PROVE FALSE
  <2>1. IsFiniteSet(tasks)
    <3>1. IsFiniteSet(1..Len(queue))
      <4>1. Len(queue) \in Int
        OBVIOUS
      <4>2. 1 \in Int
        OBVIOUS
      <4> QED BY <4>1, <4>2, FS_Interval
    <3>2. tasks \subseteq 1..Len(queue)
      OBVIOUS
    <3> QED BY <3>1, <3>2, FS_Subset
  <2>2. {i, j} \subseteq tasks /\ Cardinality({i, j}) <= Cardinality(tasks)
    <3>1. {i, j} \subseteq tasks
      OBVIOUS
    <3> HIDE DEF tasks
    <3> QED BY <2>1, <3>1, FS_Subset
  <2>3. Cardinality({i, j}) = 2
    <3>1. IsFiniteSet({i}) /\ Cardinality({i}) = 1
      BY FS_Singleton
    <3>2. {i, j} = {i} \cup {j} /\ j \notin {i}
      BY <1>2
    <3>3. Cardinality({i} \cup {j}) = Cardinality({i}) + 1
      BY <3>1, <3>2, FS_AddElement
    <3> QED BY <3>1, <3>2, <3>3
  <2>4. Cardinality(tasks) \in Nat
    BY <2>1, FS_CardinalityType
  <2> HIDE DEF tasks
  <2> QED BY <1>1, <1>2, <2>2, <2>3, <2>4
<1> QED BY <1>1, <1>2

\* A connection opens or is refused: the invariant is kept.
LEMMA ConnectionSettlesKeeps ==
  ASSUME UpstashInv, NEW c \in Connections, NEW opens \in BOOLEAN, ConnectionSettles(c, opens)
  PROVE  UpstashInv'
<1> USE DEF UpstashInv
<1>1. /\ connection[c] = "asked"
      /\ connection' = [connection EXCEPT ![c] = IF opens THEN "open" ELSE "refused"]
      /\ task' = [task EXCEPT ![maker[c]] = IF opens THEN "done" ELSE "rejected"]
      /\ subscription' = IF opens THEN c ELSE subscription
      /\ pendingSub' = NoConnection
      /\ microtasks' = waiters[c]
      /\ waiters' = [waiters EXCEPT ![c] = <<>>]
      /\ crossed' = (crossed \/ Crossing(microtasks', opens))
      /\ UNCHANGED <<step, maker, listeners>>
      /\ \A s \in UpstashSubscribers : ~(step[s] = "awaiting" /\ task[s] \in {"done", "rejected"})
  BY DEF ConnectionSettles, Quiet
<1>2. c # NoConnection /\ waiters[c] \in Seq(Waiters) /\ crossed' \in BOOLEAN
  BY <1>1, UpstashAssumption DEF UpstashTypeOK, Connections, NoConnection, Crossing
<1>3. waiters' \in [Connections -> Seq(Waiters)]
  <2>1. <<>> \in Seq(Waiters)
    OBVIOUS
  <2> QED BY <1>1, <2>1 DEF UpstashTypeOK
<1>4. UpstashTypeOK'
  BY <1>1, <1>2, <1>3 DEF UpstashTypeOK
<1>5. ListenersAreConnected'
  <2>1. /\ subscription' # NoConnection => connection'[subscription'] = "open"
        /\ subscription # NoConnection => subscription' # NoConnection
    <3>1. CASE opens
      BY <1>1, <1>2, <3>1 DEF UpstashTypeOK
    <3>2. CASE ~opens
      BY <1>1, <1>2, <3>2 DEF UpstashTypeOK, ListenersAreConnected
    <3> QED BY <3>1, <3>2
  <2>2. ASSUME NEW s \in UpstashSubscribers, task'[s] = "done"
        PROVE  task[s] = "done" \/ subscription' # NoConnection
    <3>1. CASE opens
      BY <1>1, <1>2, <3>1
    <3>2. CASE ~opens
      BY <1>1, <2>2, <3>2 DEF UpstashTypeOK
    <3> QED BY <3>1, <3>2
  <2> QED BY <1>1, <2>1, <2>2 DEF ListenersAreConnected
<1>6. ASSUME ~crossed' PROVE MapsAreComplete' /\ TasksAreAlone'
  <2>1. ~crossed /\ ~Crossing(waiters[c], opens) /\ MapsAreComplete
    BY <1>1, <1>6
  <2>2. MapsAreComplete'
    <3>1. c = pendingSub /\ subscription = NoConnection
      BY <1>1, <1>2, <2>1 DEF MapsAreComplete
    <3>2. \A d \in Connections : d # c => connection'[d] \notin {"asked", "open"}
      BY <1>1, <2>1, <3>1, NoConnectionIsNone DEF MapsAreComplete, UpstashTypeOK
    <3>3. connection'[c] = (IF opens THEN "open" ELSE "refused")
      BY <1>1 DEF UpstashTypeOK
    <3> QED BY <1>1, <3>1, <3>2, <3>3 DEF MapsAreComplete
  <2>3. /\ \A i \in 1..Len(waiters[c]) : waiters[c][i].of = "task" => waiters[c][i].who \in listeners
        /\ ~opens => \A i, j \in 1..Len(waiters[c]) : waiters[c][i].of = "task" /\ waiters[c][j].of = "task" => i = j
    BY <1>2, <2>1, NoCrossing
  <2>4. TasksAreAlone'
    BY <1>1, <1>2, <2>3 DEF TasksAreAlone
  <2> QED BY <2>2, <2>4
<1> QED BY <1>4, <1>5, <1>6

\* A microtask runs: the invariant is kept.
LEMMA ResumesKeeps ==
  ASSUME UpstashInv, Resumes
  PROVE  UpstashInv'
<1> USE DEF UpstashInv
<1>1. microtasks # <<>> /\ microtasks \in Seq(Waiters)
  BY DEF Resumes, UpstashTypeOK
<1>h. Tail(microtasks) \in Seq(Waiters) /\ Head(microtasks) \in Waiters
  BY <1>1, HeadTailProperties
<1>2. PICK rest \in Seq(Waiters) : rest = Tail(microtasks)
  BY <1>h
<1>3. PICK w \in Waiters : w = Head(microtasks)
  BY <1>h
<1>4. /\ w = microtasks[1] /\ Len(microtasks) \in Nat /\ 1 <= Len(microtasks)
      /\ Len(rest) = Len(microtasks) - 1
      /\ \A i \in 1..Len(rest) : i + 1 \in 2..Len(microtasks) /\ rest[i] = microtasks[i + 1]
  <2>1. Len(microtasks) \in Nat /\ Len(microtasks) # 0
    BY <1>1, EmptySeq
  <2> QED BY <1>1, <1>2, <1>3, <2>1, HeadTailProperties
<1>5. /\ microtasks' = rest /\ w.who \in UpstashSubscribers /\ w.of \in {"task", "leave"}
      /\ UNCHANGED <<waiters, listeners, crossed>>
      /\ \/ w.of = "task" /\ Connect(w.who) /\ UNCHANGED <<step, subscription>>
         \/ w.of = "leave" /\ Disconnect(w.who, listeners) /\ UNCHANGED <<task, maker, pendingSub>>
  BY <1>2, <1>3 DEF Resumes, Waiters
<1>6. CASE w.of = "task" /\ Connect(w.who) /\ UNCHANGED <<step, subscription>>
  <2>1. UpstashTypeOK'
    BY <1>2, <1>5, <1>6, ConnectFacts DEF UpstashTypeOK
  <2>2. ListenersAreConnected'
    <3>1. subscription # NoConnection => connection'[subscription] = "open"
      BY <1>5, <1>6, ConnectFacts DEF ListenersAreConnected
    <3>2. \A t \in UpstashSubscribers : task'[t] = "done" => subscription # NoConnection \/ task[t] = "done"
      BY <1>5, <1>6, ConnectFacts
    <3> QED BY <1>5, <1>6, <3>1, <3>2 DEF ListenersAreConnected
  <2>3. CASE subscription # NoConnection
    <3>1. connection' = connection /\ pendingSub' = pendingSub
      BY <1>5, <1>6, <2>3, ConnectFacts
    <3>2. ~crossed => MapsAreComplete'
      BY <1>5, <1>6, <3>1 DEF MapsAreComplete
    <3>3. ~crossed => TasksAreAlone'
      BY SMTT(20), <1>4, <1>5, <1>6, <2>3 DEF TasksAreAlone
    <3> QED BY <1>5, <2>1, <2>2, <3>2, <3>3
  <2>4. CASE subscription = NoConnection
    <3>1. /\ pendingSub' \in Connections /\ connection'[pendingSub'] = "asked"
          /\ \A c \in Connections : c # pendingSub' => connection'[c] = connection[c]
      BY <1>5, <1>6, <2>4, ConnectFacts
    <3>2. ASSUME ~crossed
          PROVE  pendingSub = NoConnection /\ \A i \in 2..Len(microtasks) : microtasks[i].of # "task"
      <4>1. 1 \in 1..Len(microtasks) /\ microtasks[1].of = "task" /\ TasksAreAlone
        BY <1>4, <1>6, <3>2
      <4>2. /\ pendingSub = NoConnection
            /\ \A j \in 1..Len(microtasks) : microtasks[j].of = "task" => j = 1
        BY <2>4, <4>1 DEF TasksAreAlone
      <4> QED BY <1>4, <4>2
    <3>3. ~crossed => MapsAreComplete'
      BY <1>5, <1>6, <2>4, <3>1, <3>2, NoConnectionIsNone DEF MapsAreComplete
    <3>4. ~crossed => TasksAreAlone'
      BY <1>4, <1>5, <3>2 DEF TasksAreAlone
    <3> QED BY <1>5, <2>1, <2>2, <3>3, <3>4
  <2> QED BY <2>3, <2>4
<1>7. CASE w.of = "leave" /\ Disconnect(w.who, listeners) /\ UNCHANGED <<task, maker, pendingSub>>
  <2>1. UpstashTypeOK'
    BY <1>2, <1>5, <1>7, DisconnectFacts DEF UpstashTypeOK
  <2>2. \A i \in 1..Len(rest) : rest[i].of = "task" => i + 1 \in 1..Len(microtasks) /\ microtasks[i + 1].of = "task"
    BY <1>4
  <2>3. ListenersAreConnected'
    BY <1>5, <1>7, DisconnectFacts DEF ListenersAreConnected
  <2>4. ~crossed => MapsAreComplete'
    BY <1>5, <1>7, DisconnectFacts DEF MapsAreComplete
  <2>5. ASSUME ~crossed, NEW i \in 1..Len(rest), rest[i].of = "task"
        PROVE  /\ rest[i].who \in listeners
               /\ subscription' = NoConnection =>
                    /\ pendingSub = NoConnection
                    /\ \A j \in 1..Len(rest) : rest[j].of = "task" => j = i
    <3>1. /\ i + 1 \in 1..Len(microtasks) /\ microtasks[i + 1].of = "task" /\ rest[i] = microtasks[i + 1]
          /\ TasksAreAlone
      BY <1>4, <2>2, <2>5
    <3>2. microtasks[i + 1].who \in listeners
      BY <3>1 DEF TasksAreAlone
    <3>3. subscription' = NoConnection => subscription = NoConnection
      BY <1>5, <1>7, <3>2, DisconnectFacts
    <3>4. subscription = NoConnection =>
            /\ pendingSub = NoConnection
            /\ \A j \in 1..Len(microtasks) : microtasks[j].of = "task" => j = i + 1
      BY <3>1 DEF TasksAreAlone
    <3>5. subscription = NoConnection => \A j \in 1..Len(rest) : rest[j].of = "task" => j = i
      <4> SUFFICES ASSUME subscription = NoConnection, NEW j \in 1..Len(rest), rest[j].of = "task" PROVE j = i
        OBVIOUS
      <4>1. j + 1 \in 1..Len(microtasks) /\ microtasks[j + 1].of = "task"
        BY <2>2
      <4>2. j + 1 = i + 1
        BY <3>4, <4>1
      <4> QED BY <1>4, <4>2
    <3> QED BY <3>1, <3>2, <3>3, <3>4, <3>5
  <2>6. ~crossed => TasksAreAlone'
    BY <1>5, <1>7, <2>5 DEF TasksAreAlone
  <2> QED BY <1>5, <2>1, <2>3, <2>4, <2>6
<1> QED BY <1>5, <1>6, <1>7

\* The subscribers know of the one connection of their event, whoever comes, leaves
\* or goes on after an await meanwhile (subscribeEvent, unsubscribeEvent).
THEOREM UpstashInvariant == UpstashSpec => []UpstashInv
<1>1. UpstashInit => UpstashInv
  <2> SUFFICES ASSUME UpstashInit PROVE UpstashInv
    OBVIOUS
  <2>1. <<>> \in Seq(Waiters) /\ Len(<<>>) = 0
    OBVIOUS
  <2>2. UpstashTypeOK
    BY <2>1 DEF UpstashInit, UpstashTypeOK
  <2>3. ListenersAreConnected /\ MapsAreComplete
    BY DEF UpstashInit, ListenersAreConnected, MapsAreComplete
  <2>4. TasksAreAlone
    BY <2>1 DEF UpstashInit, TasksAreAlone
  <2> QED BY <2>2, <2>3, <2>4 DEF UpstashInv
<1>2. UpstashInv /\ [UpstashNext]_upstashVars => UpstashInv'
  <2> SUFFICES ASSUME UpstashInv, [UpstashNext]_upstashVars PROVE UpstashInv'
    OBVIOUS
  <2>1. ASSUME NEW s \in UpstashSubscribers, Subscribes(s) PROVE UpstashInv'
    BY <2>1, SubscribesKeeps
  <2>2. ASSUME NEW s \in UpstashSubscribers, Unsubscribes(s) PROVE UpstashInv'
    BY <2>2, LeaveKeeps DEF Unsubscribes, Quiet
  <2>3. ASSUME Resumes PROVE UpstashInv'
    BY <2>3, ResumesKeeps
  <2>4. ASSUME NEW s \in UpstashSubscribers, TaskIsAwaited(s) PROVE UpstashInv'
    BY <2>4, ProceedKeeps, LeaveKeeps DEF TaskIsAwaited
  <2>5. ASSUME NEW s \in UpstashSubscribers, XreadSettles(s) PROVE UpstashInv'
    BY <2>5, ProceedKeeps, LeaveKeeps DEF XreadSettles, Quiet
  <2>6. ASSUME NEW c \in Connections, NEW opens \in BOOLEAN, ConnectionSettles(c, opens) PROVE UpstashInv'
    BY <2>6, ConnectionSettlesKeeps
  <2>7. CASE UNCHANGED upstashVars
    BY <2>7 DEF upstashVars, UpstashInv, UpstashTypeOK, ListenersAreConnected, MapsAreComplete, TasksAreAlone
  <2> QED BY <2>1, <2>2, <2>3, <2>4, <2>5, <2>6, <2>7 DEF UpstashNext, UpstashContinues, UpstashAnswers
<1> QED BY <1>1, <1>2, PTL DEF UpstashSpec

\* An event has one subscription, which brings each message once, unless several
\* subscribers went on after a failed attempt or after they had left; and whoever
\* was told it is subscribed has an open one ("shares one Redis subscription
\* across listeners", upstash.test.ts).
THEOREM SubscriptionsAreShared == UpstashSpec => []SubscriptionIsShared
<1>1. UpstashInv => SubscriptionIsShared
  <2> SUFFICES ASSUME UpstashInv PROVE SubscriptionIsShared
    OBVIOUS
  <2>1. ASSUME ~crossed PROVE OneSubscription
    <3>1. MapsAreComplete
      BY <2>1 DEF UpstashInv
    <3>2. PICK d \in {NoConnection} \cup Connections : Dispatching \subseteq {d}
      <4>1. CASE pendingSub = NoConnection
        BY <3>1, <4>1, NoConnectionIsNone DEF MapsAreComplete, Dispatching, UpstashInv, UpstashTypeOK
      <4>2. CASE subscription = NoConnection
        BY <3>1, <4>2, NoConnectionIsNone DEF MapsAreComplete, Dispatching, UpstashInv, UpstashTypeOK
      <4> QED BY <3>1, <4>1, <4>2 DEF MapsAreComplete
    <3>3. IsFiniteSet({d}) /\ Cardinality({d}) = 1
      BY FS_Singleton
    <3>4. Cardinality(Dispatching) <= Cardinality({d})
      BY <3>2, <3>3, FS_Subset
    <3> QED BY <3>3, <3>4 DEF OneSubscription
  <2>2. ASSUME NEW s \in UpstashSubscribers, step[s] = "active"
        PROVE  \E c \in Connections : connection[c] = "open"
    BY <2>2 DEF UpstashInv, UpstashTypeOK, ListenersAreConnected
  <2> QED BY <2>1, <2>2 DEF SubscriptionIsShared
<1> QED BY <1>1, UpstashInvariant, PTL

-----------------------------------------------------------------------------
(* A subscriber of a Durable Object.                                       *)

\* Ids and events come in one order, and the sequence of ids is ahead of them.
RowsAreOrdered ==
  /\ \A r \in rows : r.id < nextId
  /\ \A r, q \in rows : (r.id < q.id <=> r.event < q.event) /\ (r.event = q.event => r = q)

Retained == {e \in DOMAIN ages : ages[e] <= StoredSeconds}
StoredEvents == {r.event : r \in rows}

\* What is retained is stored, unless a failed insert deleted it with everything
\* that was stored then.
LostIsOlder == \A e \in Retained : e \in StoredEvents \/ \A r \in rows : e < r.event

\* What the subscriber has not got is stored after its last id, as long as ids have
\* not started again; and that is all that is.
LastIdTells ==
  ~renumbered =>
    /\ lastId < nextId
    /\ \A r \in rows : r.id > lastId => \A g \in got : g < r.event
    /\ \A e \in Retained : (\A g \in got : g < e) => \E r \in rows : r.event = e /\ r.id > lastId

DurableInv == DurableTypeOK /\ RowsAreOrdered /\ LostIsOlder /\ LastIdTells

LEMMA GreatestElement ==
  ASSUME NEW T \in SUBSET Nat, T # {}, NEW n \in Nat, \A t \in T : t <= n
  PROVE  \E k \in T : \A j \in T : j <= k
<1> DEFINE U == {n - t : t \in T}
<1>1. U \in SUBSET Nat /\ U # {}
  <2>1. \A t \in T : n - t \in Nat
    OBVIOUS
  <2>2. PICK t \in T : TRUE
    OBVIOUS
  <2>3. n - t \in U
    OBVIOUS
  <2> QED BY <2>1, <2>3
<1> HIDE DEF U
<1>2. PICK k \in U : \A j \in U : k <= j
  BY <1>1, LeastElement
<1>3. PICK t \in T : k = n - t
  BY <1>2 DEF U
<1>4. ASSUME NEW j \in T PROVE j <= t
  <2>1. k <= n - j
    BY <1>2 DEF U
  <2> QED BY <1>3, <2>1
<1> QED BY <1>4

LEMMA MaxFacts ==
  ASSUME NEW T \in SUBSET Nat, T # {}, NEW n \in Nat, \A t \in T : t <= n
  PROVE  Max(T) \in T /\ \A t \in T : t <= Max(T)
<1>1. PICK k \in T : \A j \in T : k >= j
  BY GreatestElement
<1> QED BY <1>1 DEF Max

LEMMA MinOfTwo ==
  ASSUME NEW a \in Nat, NEW b \in Nat
  PROVE  Min({a, b}) \in Nat /\ Min({a, b}) <= b /\ (Min({a, b}) = a \/ (Min({a, b}) = b /\ b <= a))
<1>1. \E x \in {a, b} : \A y \in {a, b} : x <= y
  OBVIOUS
<1>2. Min({a, b}) \in {a, b} /\ \A y \in {a, b} : Min({a, b}) <= y
  BY <1>1 DEF Min
<1> QED BY <1>2

\* What the invariant says of types, by conjunct.
LEMMA DurableTypes ==
  ASSUME DurableTypeOK
  PROVE  /\ StoredSeconds \in Nat \ {0} /\ CleanupInterval \in Nat \ {0}
         /\ ages \in Seq(0..(StoredSeconds + 1)) /\ Len(ages) \in Nat /\ DOMAIN ages = 1..Len(ages)
         /\ \A e \in 1..Len(ages) : ages[e] \in 0..(StoredSeconds + 1)
         /\ \A r \in rows : r.id \in Nat \ {0} /\ r.event \in 1..Len(ages)
         /\ got \subseteq 1..Len(ages) /\ nextId \in Nat \ {0} /\ lastId \in Nat
         /\ Retained = {e \in 1..Len(ages) : ages[e] <= StoredSeconds}
BY SMTT(20), DurableAssumption DEF DurableTypeOK, Retained

\* A clean-up deletes only what has expired.
LEMMA KeptFacts ==
  ASSUME DurableTypeOK
  PROVE  /\ Kept \subseteq rows
         /\ \A r \in rows : r.event \in Retained => r \in Kept
         /\ CleanedAt \in {NoTime} \cup 0..StoredSeconds
<1>1. CleanedAt \in {NoTime} \cup 0..StoredSeconds
  BY DurableTypes DEF CleanedAt, DurableTypeOK
<1> QED BY <1>1 DEF Kept, Retained

LEMMA StartAlarmsFacts ==
  ASSUME DurableTypeOK, NEW n, StartAlarms(n)
  PROVE  /\ inits' \in [Slots -> {"none", "reading", "setting"}]
         /\ read' \in [Slots -> {NoTime} \cup 0..CleanupInterval]
         /\ crashed' \in BOOLEAN
BY DEF StartAlarms, DurableTypeOK

\* An event is stored beside what a clean-up keeps, or alone after a reset.
LEMMA StoreKeeps ==
  ASSUME DurableInv, NEW reset \in BOOLEAN, NEW others, others = IF reset THEN {} ELSE Kept,
         NEW id \in Nat \ {0}, ~reset => id = nextId,
         StoreAndSend(others, id), socket' = socket,
         renumbered' = (IF reset THEN socket # "open" ELSE renumbered /\ socket # "open")
  PROVE  /\ nextId' \in Nat \ {0} /\ ages' \in Seq(0..(StoredSeconds + 1))
         /\ rows' \subseteq [id : Nat \ {0}, event : DOMAIN ages']
         /\ lastId' \in Nat /\ got' \subseteq DOMAIN ages' /\ renumbered' \in BOOLEAN
         /\ RowsAreOrdered' /\ LostIsOlder' /\ LastIdTells'
         /\ ~reset => {r \in rows : ages[r.event] <= StoredSeconds} \subseteq rows'
<1> USE DEF DurableInv
<1> DEFINE n == Len(ages)
<1> DEFINE row == [id |-> id, event |-> n + 1]
<1>1. /\ n \in Nat /\ StoredSeconds \in Nat
      /\ \A e \in 1..n : ages[e] \in 0..(StoredSeconds + 1)
      /\ ages \in Seq(0..(StoredSeconds + 1))
      /\ got \subseteq 1..n /\ lastId \in Nat
      /\ Retained = {e \in 1..n : ages[e] <= StoredSeconds}
  BY DurableTypes
<1>2. /\ rows' = others \cup {row} /\ nextId' = id + 1 /\ ages' = Append(ages, 0)
      /\ \/ socket = "open" /\ got' = got \cup {n + 1} /\ lastId' = id
         \/ socket # "open" /\ UNCHANGED <<got, lastId>>
  BY DEF StoreAndSend
<1>3. /\ others \subseteq rows /\ \A r \in others : r.id < id
      /\ \A r \in rows : r.id \in Nat \ {0} /\ r.event \in 1..n
      /\ ~reset => \A r \in rows : r.event \in Retained => r \in others
  BY DurableTypes, KeptFacts DEF RowsAreOrdered
<1>4. /\ ages' \in Seq(0..(StoredSeconds + 1)) /\ DOMAIN ages' = 1..(n + 1) /\ Len(ages') = n + 1
      /\ \A e \in 1..n : ages'[e] = ages[e]
      /\ ages'[n + 1] = 0
  <2>1. 0 \in 0..(StoredSeconds + 1)
    BY <1>1
  <2> QED BY <1>1, <1>2, <2>1, AppendProperties
<1>5. row.id = id /\ row.event = n + 1 /\ row \in [id : Nat \ {0}, event : DOMAIN ages'] /\ row \in rows'
  BY <1>1, <1>2, <1>4
<1>6. \A r \in rows' : r \in others \/ r = row
  BY <1>2
<1> HIDE DEF row
<1>7. rows' \subseteq [id : Nat \ {0}, event : DOMAIN ages']
  <2>1. ASSUME NEW r \in others PROVE r \in [id : Nat \ {0}, event : DOMAIN ages']
    <3>1. r \in [id : Nat \ {0}, event : 1..n]
      BY <1>1, <1>3, <2>1, DurableTypes DEF DurableTypeOK
    <3> QED BY <1>1, <1>4, <3>1
  <2> QED BY <1>5, <1>6, <2>1
<1>8. got' \subseteq DOMAIN ages' /\ lastId' \in Nat /\ nextId' \in Nat \ {0} /\ renumbered' \in BOOLEAN
  <2>1. got' \subseteq DOMAIN ages'
    <3>1. got' \subseteq (1..n) \cup {n + 1}
      BY <1>1, <1>2
    <3> HIDE DEF n
    <3>2. 1..n \subseteq 1..(n + 1) /\ n + 1 \in 1..(n + 1)
      BY <1>1
    <3> QED BY <1>4, <3>1, <3>2
  <2>2. lastId' \in Nat /\ nextId' \in Nat \ {0}
    BY <1>1, <1>2
  <2>3. renumbered' \in BOOLEAN
    BY Zenon DEF DurableTypeOK
  <2> QED BY <2>1, <2>2, <2>3
<1>9. RowsAreOrdered'
  <2>1. \A r \in others : r.id < id /\ r.event < n + 1 /\ r.id \in Nat /\ r.event \in Nat
    BY <1>1, <1>3
  <2>2. \A r \in rows' : r.id < nextId'
    BY <1>2, <1>5, <1>6, <2>1
  <2>3. ASSUME NEW r \in rows', NEW q \in rows'
        PROVE  (r.id < q.id <=> r.event < q.event) /\ (r.event = q.event => r = q)
    <3>1. CASE r \in others /\ q \in others
      BY <1>3, <3>1 DEF RowsAreOrdered
    <3>2. CASE r = row /\ q = row
      BY <1>1, <1>5, <3>2
    <3>3. CASE r \in others /\ q = row
      BY <1>1, <1>5, <2>1, <3>3
    <3>4. CASE r = row /\ q \in others
      BY <1>1, <1>5, <2>1, <3>4
    <3> QED BY <1>6, <3>1, <3>2, <3>3, <3>4
  <2> QED BY <2>2, <2>3 DEF RowsAreOrdered
<1>10. Retained' = Retained \cup {n + 1}
  <2>1. Retained' = {e \in 1..(n + 1) : ages'[e] <= StoredSeconds}
    BY <1>4 DEF Retained
  <2> HIDE DEF n
  <2>2. \A e \in 1..(n + 1) : e \in 1..n \/ e = n + 1
    BY <1>1
  <2> QED BY <1>1, <1>4, <2>1, <2>2
<1>11. LostIsOlder'
  <2>1. SUFFICES ASSUME NEW e \in Retained' PROVE e \in StoredEvents' \/ \A r \in rows' : e < r.event
    BY DEF LostIsOlder
  <2>2. CASE e = n + 1
    BY <1>5, <2>2 DEF StoredEvents
  <2>3. CASE e \in Retained /\ ~reset
    <3>1. CASE e \in StoredEvents
      <4>1. PICK r \in rows : r.event = e
        BY <3>1 DEF StoredEvents
      <4>2. r \in rows'
        BY <1>2, <1>3, <2>3, <4>1
      <4> QED BY <4>1, <4>2 DEF StoredEvents
    <3>2. CASE \A r \in rows : e < r.event
      BY <1>1, <1>3, <1>5, <1>6, <2>3, <3>2
    <3> QED BY <2>3, <3>1, <3>2 DEF LostIsOlder
  <2>4. CASE e \in Retained /\ reset
    BY <1>1, <1>5, <1>6, <2>4
  <2> QED BY <1>10, <2>2, <2>3, <2>4
<1>12. LastIdTells'
  <2>1. SUFFICES ASSUME ~renumbered'
                 PROVE  /\ lastId' < nextId'
                        /\ \A r \in rows' : r.id > lastId' => \A g \in got' : g < r.event
                        /\ \A e \in Retained' : (\A g \in got' : g < e) => \E r \in rows' : r.event = e /\ r.id > lastId'
    BY DEF LastIdTells
  <2>2. CASE socket = "open"
    <3>1. got' = got \cup {n + 1} /\ lastId' = id
      BY <1>2, <2>2
    <3>2. \A r \in rows' : ~(r.id > id)
      BY <1>3, <1>5, <1>6
    <3>3. \A e \in Retained' : ~(n + 1 < e)
      BY <1>1, <1>10
    <3> QED BY <1>2, <3>1, <3>2, <3>3
  <2>3. CASE socket # "open"
    <3>1. ~renumbered /\ ~reset /\ id = nextId /\ got' = got /\ lastId' = lastId
      BY <1>2, <2>1, <2>3
    <3>2. lastId < id
      BY <3>1 DEF LastIdTells
    <3>3. \A r \in rows' : r.id > lastId => \A g \in got : g < r.event
      BY SMTT(20), <1>1, <1>3, <1>5, <1>6, <3>1 DEF LastIdTells
    <3>4. ASSUME NEW e \in Retained', \A g \in got : g < e
          PROVE  \E r \in rows' : r.event = e /\ r.id > lastId
      <4>1. CASE e = n + 1
        BY <1>1, <1>5, <3>2, <4>1
      <4>2. CASE e \in Retained
        <5>1. PICK r \in rows : r.event = e /\ r.id > lastId
          BY <3>1, <3>4, <4>2 DEF LastIdTells
        <5>2. r \in rows'
          BY <1>2, <1>3, <3>1, <4>2, <5>1
        <5> QED BY <5>1, <5>2
      <4> QED BY <1>10, <4>1, <4>2
    <3> QED BY <1>1, <1>2, <3>1, <3>2, <3>3, <3>4
  <2> QED BY <2>2, <2>3
<1>13. ~reset => {r \in rows : ages[r.event] <= StoredSeconds} \subseteq rows'
  BY <1>1, <1>2, <1>3
<1> QED BY <1>4, <1>7, <1>8, <1>9, <1>11, <1>12, <1>13

\* A clean-up, and what else leaves ids, the log and the subscriber alone.
LEMMA CleanUpKeeps ==
  ASSUME DurableInv, rows' \in {rows, Kept}, UNCHANGED <<nextId, ages, got, lastId, renumbered>>
  PROVE  /\ rows' \subseteq [id : Nat \ {0}, event : DOMAIN ages']
         /\ RowsAreOrdered' /\ LostIsOlder' /\ LastIdTells'
<1> USE DEF DurableInv
<1>1. rows' \subseteq rows /\ \A r \in rows : r.event \in Retained => r \in rows'
  BY KeptFacts
<1>2. Retained' = Retained
  BY DEF Retained
<1>3. RowsAreOrdered'
  BY <1>1 DEF RowsAreOrdered
<1>4. LostIsOlder'
  <2>1. ASSUME NEW e \in Retained PROVE e \in StoredEvents' \/ \A r \in rows' : e < r.event
    <3>1. CASE e \in StoredEvents
      BY <1>1, <2>1, <3>1 DEF StoredEvents
    <3>2. CASE \A r \in rows : e < r.event
      BY <1>1, <3>2
    <3> QED BY <2>1, <3>1, <3>2 DEF LostIsOlder
  <2> QED BY <1>2, <2>1 DEF LostIsOlder
<1>5. LastIdTells'
  <2>1. SUFFICES ASSUME ~renumbered
                 PROVE  /\ lastId < nextId
                        /\ \A r \in rows' : r.id > lastId => \A g \in got : g < r.event
                        /\ \A e \in Retained : (\A g \in got : g < e) => \E r \in rows' : r.event = e /\ r.id > lastId
    BY <1>2 DEF LastIdTells
  <2>2. ASSUME NEW e \in Retained, \A g \in got : g < e
        PROVE  \E r \in rows' : r.event = e /\ r.id > lastId
    <3>1. PICK r \in rows : r.event = e /\ r.id > lastId
      BY <2>1, <2>2 DEF LastIdTells
    <3> QED BY <1>1, <2>2, <3>1
  <2> QED BY <1>1, <2>1, <2>2 DEF LastIdTells
<1> QED BY <1>1, <1>3, <1>4, <1>5 DEF DurableTypeOK

\* Everything else of the object: its alarm and what it has in memory.
DurableRest ==
  /\ table \in BOOLEAN /\ alarm \in {NoTime} \cup 0..CleanupInterval
  /\ inited \in BOOLEAN /\ alarmInited \in BOOLEAN /\ sinceCleanup \in {NoTime} \cup 0..StoredSeconds
  /\ inits \in [Slots -> {"none", "reading", "setting"}]
  /\ read \in [Slots -> {NoTime} \cup 0..CleanupInterval]
  /\ resets \in Nat /\ crashed \in BOOLEAN

LEMMA PublishStoresKeeps ==
  ASSUME DurableInv, PublishStores
  PROVE  DurableInv' /\ {r \in rows : ages[r.event] <= StoredSeconds} \subseteq rows'
<1>1. DurableTypeOK /\ EnsureSchemaAndCleanup /\ StoreAndSend(Kept, nextId) /\ UNCHANGED <<alarm, alarmInited, socket, resets>>
      /\ renumbered' = (renumbered /\ socket # "open") /\ nextId \in Nat \ {0}
  BY DurableTypes DEF PublishStores, DurableInv
<1>2. DurableRest'
  BY <1>1, StartAlarmsFacts, KeptFacts DEF EnsureSchemaAndCleanup, DurableRest, DurableTypeOK
<1>3. socket' \in {"none", "open", "lost"} /\ socket' = socket
  BY <1>1 DEF DurableTypeOK
<1>4. /\ nextId' \in Nat \ {0} /\ ages' \in Seq(0..(StoredSeconds + 1))
      /\ rows' \subseteq [id : Nat \ {0}, event : DOMAIN ages']
      /\ lastId' \in Nat /\ got' \subseteq DOMAIN ages' /\ renumbered' \in BOOLEAN
      /\ RowsAreOrdered' /\ LostIsOlder' /\ LastIdTells'
      /\ {r \in rows : ages[r.event] <= StoredSeconds} \subseteq rows'
  <2>1. PICK reset \in BOOLEAN : ~reset
    OBVIOUS
  <2> QED BY <1>1, <1>3, <2>1, StoreKeeps
<1> QED BY <1>2, <1>3, <1>4 DEF DurableInv, DurableTypeOK, DurableRest

LEMMA PublishResetsKeeps ==
  ASSUME DurableInv, PublishResets
  PROVE  DurableInv'
<1>1. /\ DurableTypeOK /\ table' = TRUE /\ inited' = TRUE /\ sinceCleanup' = 0 /\ StartAlarms(2) /\ resets' = resets + 1
      /\ UNCHANGED <<alarm, alarmInited, socket>>
  BY DEF PublishResets, DurableInv
<1>2. DurableRest'
  BY <1>1, StartAlarmsFacts, DurableTypes DEF DurableRest, DurableTypeOK
<1>3. socket' \in {"none", "open", "lost"} /\ socket' = socket
  BY <1>1 DEF DurableTypeOK
<1>4. CASE StoreAndSend({}, 1) /\ renumbered' = (socket # "open")
  <2>1. PICK reset \in BOOLEAN : reset
    OBVIOUS
  <2>2. 1 \in Nat \ {0}
    OBVIOUS
  <2>3. /\ nextId' \in Nat \ {0} /\ ages' \in Seq(0..(StoredSeconds + 1))
        /\ rows' \subseteq [id : Nat \ {0}, event : DOMAIN ages']
        /\ lastId' \in Nat /\ got' \subseteq DOMAIN ages' /\ renumbered' \in BOOLEAN
        /\ RowsAreOrdered' /\ LostIsOlder' /\ LastIdTells'
    BY <1>3, <1>4, <2>1, <2>2, StoreKeeps
  <2> QED BY <1>2, <1>3, <2>3 DEF DurableInv, DurableTypeOK, DurableRest
<1>5. CASE rows' = {} /\ nextId' = 1 /\ renumbered' = TRUE /\ UNCHANGED <<ages, got, lastId>>
  <2>1. DurableTypeOK'
    BY <1>1, <1>2, <1>3, <1>5 DEF DurableTypeOK, DurableRest
  <2>2. RowsAreOrdered' /\ LostIsOlder' /\ LastIdTells'
    BY <1>5 DEF RowsAreOrdered, LostIsOlder, LastIdTells
  <2> QED BY <2>1, <2>2 DEF DurableInv
<1> QED BY <1>4, <1>5 DEF PublishResets

\* handleSubscribe with an id to resume from sends what was missed and no more,
\* and its last id tells again what comes next.
LEMMA SubscribeResumesKeeps ==
  ASSUME DurableInv, SubscribeResumes
  PROVE  /\ DurableInv'
         /\ ~renumbered => Due \subseteq got' /\ \A r \in After(lastId, Kept) : r.event \notin got
<1> DEFINE sent == After(lastId, Kept)
<1>1. /\ DurableTypeOK /\ RowsAreOrdered /\ LostIsOlder /\ LastIdTells
      /\ socket' = "open" /\ EnsureSchemaAndCleanup /\ rows' = Kept
      /\ got' = got \cup {r.event : r \in sent}
      /\ lastId' = Max({lastId} \cup {r.id : r \in sent})
      /\ renumbered' = (renumbered /\ sent = {})
      /\ UNCHANGED <<nextId, alarm, alarmInited, ages, resets>>
  BY DEF SubscribeResumes, DurableInv
<1>2. /\ nextId \in Nat \ {0} /\ lastId \in Nat /\ got \subseteq 1..Len(ages) /\ Len(ages) \in Nat /\ DOMAIN ages = 1..Len(ages)
      /\ \A r \in rows : r.id \in Nat /\ r.event \in 1..Len(ages) /\ r.id < nextId
      /\ Retained = {e \in 1..Len(ages) : ages[e] <= StoredSeconds}
  BY <1>1, DurableTypes DEF RowsAreOrdered
<1>3. /\ Kept \subseteq rows /\ \A r \in rows : r.event \in Retained => r \in Kept
      /\ \A r : r \in sent <=> r \in Kept /\ r.id > lastId
  BY <1>1, KeptFacts DEF After
<1> HIDE DEF sent
<1>4. /\ lastId' \in Nat /\ lastId <= lastId'
      /\ \A r \in sent : r.id <= lastId'
      /\ lastId' = lastId \/ \E r \in sent : lastId' = r.id
  <2> DEFINE T == {lastId} \cup {r.id : r \in sent}
  <2>1. T \in SUBSET Nat /\ lastId \in T /\ \A t \in T : t <= lastId + nextId
    BY <1>2, <1>3
  <2>2. \A t \in T : t = lastId \/ \E r \in sent : t = r.id
    OBVIOUS
  <2>3. \A r \in sent : r.id \in T
    OBVIOUS
  <2>4. lastId + nextId \in Nat /\ lastId' = Max(T)
    BY <1>1, <1>2
  <2> HIDE DEF T
  <2>5. Max(T) \in T /\ \A t \in T : t <= Max(T)
    BY <2>1, <2>4, MaxFacts
  <2> QED BY <2>1, <2>2, <2>3, <2>4, <2>5
<1>5. \A r \in rows' : ~(r.id > lastId')
  BY <1>1, <1>2, <1>3, <1>4
<1>6. \A e \in DOMAIN ages : (\A g \in got' : g < e) => \A g \in got : g < e
  BY <1>1
<1>7. ASSUME ~renumbered, NEW e \in Retained, \A g \in got : g < e PROVE e \in got'
  <2>1. PICK r \in rows : r.event = e /\ r.id > lastId
    BY <1>1, <1>7 DEF LastIdTells
  <2> QED BY <1>1, <1>3, <1>7, <2>1
<1>8. ASSUME ~renumbered' PROVE lastId' < nextId /\ \A e \in Retained : ~ \A g \in got' : g < e
  <2>1. CASE ~renumbered
    <3>1. lastId < nextId
      BY <1>1, <2>1 DEF LastIdTells
    <3>2. lastId' < nextId
      BY <1>2, <1>3, <1>4, <3>1
    <3>3. ASSUME NEW e \in Retained, \A g \in got' : g < e PROVE FALSE
      <4>1. e \in got' /\ e \in Nat
        BY <1>1, <1>2, <1>7, <2>1, <3>3
      <4> QED BY <3>3, <4>1
    <3> QED BY <3>2, <3>3
  <2>2. CASE sent # {}
    <3>1. PICK f \in sent : TRUE
      BY <2>2
    <3>2. f \in rows /\ f.id > lastId /\ f.event \in got'
      BY <1>1, <1>3, <3>1
    <3>3. lastId' < nextId
      BY <1>2, <1>3, <1>4, <3>1, <3>2
    <3>4. ASSUME NEW e \in Retained, \A g \in got' : g < e PROVE FALSE
      <4>1. f.event < e /\ f.event \in Nat /\ e \in Nat
        BY <1>2, <3>2, <3>4
      <4>2. PICK r \in rows : r.event = e
        BY <1>1, <3>2, <4>1 DEF LostIsOlder, StoredEvents
      <4>3. f.id < r.id
        BY <1>1, <3>2, <4>1, <4>2 DEF RowsAreOrdered
      <4>4. r \in sent
        BY <1>2, <1>3, <3>2, <4>2, <4>3
      <4>5. e \in got'
        BY <1>1, <4>2, <4>4
      <4> QED BY <3>4, <4>1, <4>5
    <3> QED BY <3>3, <3>4
  <2> QED BY <1>1, <1>8, <2>1, <2>2
<1>9. DurableRest'
  BY <1>1, StartAlarmsFacts, KeptFacts DEF EnsureSchemaAndCleanup, DurableRest, DurableTypeOK
<1>10. DurableTypeOK'
  <2>1. got' \subseteq DOMAIN ages'
    BY <1>1, <1>2, <1>3
  <2>2. renumbered' \in BOOLEAN
    BY <1>1 DEF DurableTypeOK
  <2>3. rows' \subseteq [id : Nat \ {0}, event : DOMAIN ages']
    BY <1>1, <1>3 DEF DurableTypeOK
  <2> QED BY <1>1, <1>4, <1>9, <2>1, <2>2, <2>3 DEF DurableTypeOK, DurableRest
<1>11. RowsAreOrdered' /\ LostIsOlder'
  <2>1. RowsAreOrdered'
    BY <1>1, <1>3 DEF RowsAreOrdered
  <2>2. ASSUME NEW e \in Retained PROVE e \in StoredEvents' \/ \A r \in rows' : e < r.event
    <3>1. CASE e \in StoredEvents
      BY <1>1, <1>3, <2>2, <3>1 DEF StoredEvents
    <3>2. CASE \A r \in rows : e < r.event
      BY <1>1, <1>3, <3>2
    <3> QED BY <1>1, <2>2, <3>1, <3>2 DEF LostIsOlder
  <2>3. Retained' = Retained
    BY <1>1 DEF Retained
  <2> QED BY <2>1, <2>2, <2>3 DEF LostIsOlder
<1>12. LastIdTells'
  <2>1. Retained' = Retained /\ nextId' = nextId
    BY <1>1 DEF Retained
  <2> QED BY <1>5, <1>8, <2>1 DEF LastIdTells
<1>13. ASSUME ~renumbered PROVE Due \subseteq got' /\ \A r \in After(lastId, Kept) : r.event \notin got
  <2>1. ASSUME NEW e \in Due PROVE e \in got'
    <3> DEFINE T == {0} \cup got
    <3>1. T \in SUBSET Nat /\ \A t \in T : t <= Len(ages)
      BY <1>2
    <3>2. e \in Retained /\ e > Max(T)
      BY <1>2, <2>1 DEF Due
    <3>3. \A g \in got : g \in T
      OBVIOUS
    <3>4. 0 \in T
      OBVIOUS
    <3> HIDE DEF T
    <3>5. Max(T) \in Nat /\ \A t \in T : t <= Max(T)
      BY <1>2, <3>1, <3>4, MaxFacts
    <3>6. e \in Nat
      BY <1>2, <3>2
    <3>8. PICK m \in Nat : m = Max(T)
      BY <3>5
    <3>7. \A g \in got : g < e
      <4>1. \A g \in got : g \in Nat /\ g <= m
        BY <3>1, <3>3, <3>5, <3>8
      <4>2. e > m
        BY <3>2, <3>8
      <4> QED BY <3>6, <3>8, <4>1, <4>2
    <3> QED BY <1>7, <1>13, <3>2, <3>7
  <2>2. ASSUME NEW r \in sent PROVE r.event \notin got
    <3>1. r \in rows /\ r.id > lastId
      BY <1>3, <2>2
    <3>2. \A g \in got : g < r.event
      BY <1>1, <1>13, <3>1 DEF LastIdTells
    <3> QED BY <1>2, <3>1, <3>2
  <2> QED BY <2>1, <2>2 DEF sent
<1> QED BY <1>10, <1>11, <1>12, <1>13 DEF DurableInv

\* The alarm empties an object only when nothing in it is retained.
LEMMA AlarmFiresKeeps ==
  ASSUME DurableInv, AlarmFires
  PROVE  DurableInv' /\ {r \in rows : ages[r.event] <= StoredSeconds} \subseteq rows'
<1>1. /\ DurableTypeOK /\ LostIsOlder /\ sinceCleanup' = CleanedAt
      /\ UNCHANGED <<inits, read, ages, subscriber, resets, crashed>>
  BY DEF AlarmFires, DurableInv
<1>2. {r \in rows : ages[r.event] <= StoredSeconds} \subseteq Kept
  BY DEF Kept
<1>3. CASE /\ IsIdle /\ rows' = {} /\ nextId' = 1 /\ alarm' = NoTime /\ renumbered' = TRUE
           /\ table' = FALSE /\ inited' = FALSE /\ alarmInited' = FALSE
  <2>1. DurableTypeOK'
    <3>1. rows' \subseteq [id : Nat \ {0}, event : DOMAIN ages'] /\ nextId' \in Nat \ {0}
      BY <1>3
    <3>2. alarm' \in {NoTime} \cup 0..CleanupInterval /\ sinceCleanup' \in {NoTime} \cup 0..StoredSeconds
      BY <1>1, <1>3, KeptFacts
    <3>3. table' \in BOOLEAN /\ inited' \in BOOLEAN /\ alarmInited' \in BOOLEAN /\ renumbered' \in BOOLEAN
      BY <1>3
    <3> QED BY <1>1, <3>1, <3>2, <3>3 DEF DurableTypeOK, subscriber
  <2>2. RowsAreOrdered' /\ LostIsOlder' /\ LastIdTells'
    BY <1>3 DEF RowsAreOrdered, LostIsOlder, LastIdTells
  <2> QED BY <1>2, <1>3, <2>1, <2>2 DEF DurableInv, IsIdle
<1>4. CASE /\ rows' = Kept /\ alarm' = CleanupInterval /\ UNCHANGED <<nextId, renumbered>>
           /\ table' = TRUE /\ inited' = TRUE /\ alarmInited' = TRUE
  <2>1. rows' \subseteq [id : Nat \ {0}, event : DOMAIN ages'] /\ RowsAreOrdered' /\ LostIsOlder' /\ LastIdTells'
    BY <1>1, <1>4, CleanUpKeeps DEF subscriber
  <2>2. DurableTypeOK'
    BY SMTT(20), <1>1, <1>4, <2>1, KeptFacts, DurableTypes DEF DurableTypeOK, subscriber
  <2> QED BY <1>2, <1>4, <2>1, <2>2 DEF DurableInv
<1> QED BY <1>3, <1>4 DEF AlarmFires

\* Time passes: less is retained, and nothing else changes.
LEMMA TickKeeps ==
  ASSUME DurableInv, Tick
  PROVE  DurableInv'
<1> USE DEF DurableInv
<1>1. /\ ages' = [e \in DOMAIN ages |-> Min({ages[e] + 1, StoredSeconds + 1})]
      /\ alarm' = IF alarm = NoTime THEN NoTime ELSE alarm - 1
      /\ sinceCleanup' = IF sinceCleanup = NoTime THEN NoTime ELSE Min({sinceCleanup + 1, StoredSeconds})
      /\ alarm # 0
      /\ UNCHANGED <<table, rows, nextId, inited, alarmInited, inits, read, subscriber, renumbered, resets, crashed>>
  BY DEF Tick
<1>2. /\ StoredSeconds \in Nat \ {0} /\ CleanupInterval \in Nat \ {0} /\ Len(ages) \in Nat /\ DOMAIN ages = 1..Len(ages)
      /\ \A e \in 1..Len(ages) : ages[e] \in 0..(StoredSeconds + 1)
  BY DurableTypes
<1>3. \A e \in 1..Len(ages) :
        /\ ages'[e] \in 0..(StoredSeconds + 1)
        /\ ages'[e] <= StoredSeconds => ages[e] <= StoredSeconds
  <2>1. SUFFICES ASSUME NEW e \in 1..Len(ages)
                 PROVE  ages'[e] \in 0..(StoredSeconds + 1) /\ (ages'[e] <= StoredSeconds => ages[e] <= StoredSeconds)
    OBVIOUS
  <2>2. ages'[e] = Min({ages[e] + 1, StoredSeconds + 1}) /\ ages[e] + 1 \in Nat /\ StoredSeconds + 1 \in Nat
    BY <1>1, <1>2
  <2>3. PICK m \in Nat : m = ages'[e] /\ m <= StoredSeconds + 1 /\ (m = ages[e] + 1 \/ m = StoredSeconds + 1)
    BY <2>2, MinOfTwo
  <2> QED BY <1>2, <2>3
<1>4. /\ ages' \in Seq(0..(StoredSeconds + 1)) /\ DOMAIN ages' = DOMAIN ages
      /\ Retained' \subseteq Retained
  <2>1. DOMAIN ages' = 1..Len(ages)
    BY <1>1, <1>2
  <2>2. ages' = [e \in 1..Len(ages) |-> ages'[e]]
    BY <1>1, <1>2
  <2>3. ages' \in [1..Len(ages) -> 0..(StoredSeconds + 1)]
    BY <1>3, <2>2
  <2>4. ages' \in Seq(0..(StoredSeconds + 1))
    BY <1>2, <2>3, IsASeq
  <2> QED BY <1>2, <1>3, <2>1, <2>4 DEF Retained
<1>5. sinceCleanup' \in {NoTime} \cup 0..StoredSeconds
  <2>1. CASE sinceCleanup = NoTime
    BY <1>1, <2>1
  <2>2. CASE sinceCleanup # NoTime
    <3>1. sinceCleanup + 1 \in Nat /\ sinceCleanup' = Min({sinceCleanup + 1, StoredSeconds})
      BY <1>1, <1>2, <2>2 DEF DurableTypeOK
    <3> QED BY <1>2, <3>1, MinOfTwo
  <2> QED BY <2>1, <2>2
<1>6. alarm' \in {NoTime} \cup 0..CleanupInterval
  BY <1>1, <1>2 DEF DurableTypeOK, NoTime
<1>7. DurableTypeOK'
  BY <1>1, <1>4, <1>5, <1>6 DEF DurableTypeOK, subscriber
<1>8. RowsAreOrdered' /\ LostIsOlder' /\ LastIdTells'
  <2>1. UNCHANGED <<rows, nextId, got, lastId, renumbered>>
    BY <1>1 DEF subscriber
  <2>2. RowsAreOrdered'
    BY <2>1 DEF RowsAreOrdered
  <2>3. LostIsOlder'
    BY <1>4, <2>1 DEF LostIsOlder, StoredEvents
  <2>4. LastIdTells'
    BY <1>4, <2>1 DEF LastIdTells
  <2> QED BY <2>2, <2>3, <2>4
<1> QED BY <1>7, <1>8

\* The other steps: sockets come and go, the alarm is set, and the object is
\* evicted.
LEMMA DurableRestKeeps ==
  ASSUME DurableInv, SubscribeLive \/ Disconnected \/ Evicted \/ (\E i \in Slots : InitAlarm(i))
  PROVE  DurableInv' /\ rows' = rows
<1> USE DEF DurableInv
<1>1. UNCHANGED <<rows, nextId, ages, got, lastId, renumbered, resets>>
  BY DEF SubscribeLive, Disconnected, Evicted, InitAlarm, storage, history, subscriber
<1>2. DurableTypeOK'
  <2>1. CASE SubscribeLive \/ Disconnected
    <3>1. socket' \in {"none", "open", "lost"}
      BY <2>1 DEF SubscribeLive, Disconnected, DurableTypeOK
    <3> QED BY <1>1, <2>1, <3>1 DEF SubscribeLive, Disconnected, DurableTypeOK, storage, memory, history
  <2>2. CASE Evicted
    <3>1. crashed' \in BOOLEAN
      BY <2>2 DEF Evicted, DurableTypeOK
    <3> QED BY <1>1, <2>2, <3>1 DEF Evicted, DurableTypeOK, storage, history, subscriber
  <2>3. ASSUME NEW i \in Slots, InitAlarm(i) PROVE DurableTypeOK'
    <3>1. CleanupInterval \in 0..CleanupInterval
      BY DurableTypes
    <3>2. read' \in [Slots -> {NoTime} \cup 0..CleanupInterval] /\ inits' \in [Slots -> {"none", "reading", "setting"}]
      BY <2>3 DEF InitAlarm, DurableTypeOK
    <3>3. alarm' \in {NoTime} \cup 0..CleanupInterval /\ alarmInited' \in BOOLEAN
      BY <2>3, <3>1 DEF InitAlarm, DurableTypeOK
    <3> QED BY <1>1, <2>3, <3>2, <3>3 DEF InitAlarm, DurableTypeOK, history, subscriber
  <2> QED BY <2>1, <2>2, <2>3
<1>3. RowsAreOrdered' /\ LostIsOlder' /\ LastIdTells'
  BY <1>1, CleanUpKeeps
<1> QED BY <1>1, <1>2, <1>3

\* The rows of a Durable Object, the sequence of their ids and the last id of a
\* subscriber tell of each other, whatever is evicted, reset or emptied meanwhile
\* (publisher-object.ts).
THEOREM DurableInvariant == DurableSpec => []DurableInv
<1>1. DurableInit => DurableInv
  <2> SUFFICES ASSUME DurableInit PROVE DurableInv
    OBVIOUS
  <2>1. <<>> \in Seq(0..(StoredSeconds + 1)) /\ DOMAIN <<>> = {}
    OBVIOUS
  <2>2. DurableTypeOK
    <3>1. ages \in Seq(0..(StoredSeconds + 1)) /\ rows \subseteq [id : Nat \ {0}, event : DOMAIN ages] /\ got \subseteq DOMAIN ages
      BY <2>1 DEF DurableInit
    <3>2. inits \in [Slots -> {"none", "reading", "setting"}] /\ read \in [Slots -> {NoTime} \cup 0..CleanupInterval]
      BY DEF DurableInit, Slots
    <3>3. alarm \in {NoTime} \cup 0..CleanupInterval /\ sinceCleanup \in {NoTime} \cup 0..StoredSeconds
      BY DEF DurableInit
    <3>4. nextId \in Nat \ {0} /\ lastId \in Nat /\ resets \in Nat /\ socket \in {"none", "open", "lost"}
      BY DEF DurableInit
    <3>5. {table, inited, alarmInited, renumbered, crashed} \subseteq BOOLEAN
      BY DEF DurableInit
    <3> QED BY <3>1, <3>2, <3>3, <3>4, <3>5 DEF DurableTypeOK
  <2>3. RowsAreOrdered /\ LostIsOlder /\ LastIdTells
    BY <2>1 DEF DurableInit, RowsAreOrdered, LostIsOlder, LastIdTells, Retained
  <2> QED BY <2>2, <2>3 DEF DurableInv
<1>2. DurableInv /\ [DurableNext]_durableVars => DurableInv'
  <2> SUFFICES ASSUME DurableInv, [DurableNext]_durableVars PROVE DurableInv'
    OBVIOUS
  <2>1. CASE UNCHANGED durableVars
    BY <2>1 DEF durableVars, DurableInv, DurableTypeOK, RowsAreOrdered, LostIsOlder, LastIdTells, Retained, StoredEvents
  <2>2. CASE DurableNext
    BY <2>2, PublishStoresKeeps, PublishResetsKeeps, SubscribeResumesKeeps, AlarmFiresKeeps, TickKeeps, DurableRestKeeps
       DEF DurableNext
  <2> QED BY <2>1, <2>2
<1> QED BY <1>1, <1>2, PTL DEF DurableSpec

\* A subscriber that resumes gets every event it missed that is retained, and none
\* that it had, unless ids started again since its last event; and only a failed
\* insert deletes what is retained (getAfter, AUTOINCREMENT, alarm).
THEOREM SubscribersResumeOnce == DurableSpec => ResumesOnce
<1> DEFINE Step ==
      /\ SubscribeResumes /\ ~renumbered =>
           Due \subseteq got' /\ \A r \in After(lastId, Kept) : r.event \notin got
      /\ resets' = resets => {r \in rows : ages[r.event] <= StoredSeconds} \subseteq rows'
<1>1. DurableInv /\ [DurableNext]_durableVars => [Step]_durableVars
  <2> SUFFICES ASSUME DurableInv, DurableNext PROVE Step
    OBVIOUS
  <2>1. SubscribeResumes /\ ~renumbered =>
          Due \subseteq got' /\ \A r \in After(lastId, Kept) : r.event \notin got
    BY SubscribeResumesKeeps
  <2>2. ASSUME resets' = resets PROVE {r \in rows : ages[r.event] <= StoredSeconds} \subseteq rows'
    <3>1. CASE PublishStores
      BY <3>1, PublishStoresKeeps
    <3>2. ~PublishResets
      BY <2>2 DEF PublishResets, DurableInv, DurableTypeOK
    <3>3. CASE AlarmFires
      BY <3>3, AlarmFiresKeeps
    <3>4. CASE SubscribeResumes
      BY <3>4 DEF SubscribeResumes, Kept
    <3>5. CASE Tick
      BY <3>5 DEF Tick
    <3> QED BY <3>1, <3>2, <3>3, <3>4, <3>5, DurableRestKeeps DEF DurableNext
  <2> QED BY <2>1, <2>2
<1> QED BY <1>1, DurableInvariant, PTL DEF DurableSpec, ResumesOnce
==============================================================================
