------------------------------ MODULE ServerProofs ------------------------------
(***************************************************************************)
(* What a request meets on the server, for procedures of any length, any     *)
(* number of messages, calls, batch members and limits: the proofs of        *)
(* MessagesInOrder, ServedWhileOpen, ChargedOncePerPath, WithinTheLimit,     *)
(* BatchIsAnswered and CheckedBothWays, of FormIsReadWhole for forms of any  *)
(* number of parts and chunks, and of PluginsNestAsStated for lists of       *)
(* plugins of any length and order.                                          *)
(***************************************************************************)
EXTENDS Peers, ProcedureCall, RateLimit, RateLimitRequest, ServerBatch, Multipart,
        PluginOrder, SequenceTheorems, FiniteSetTheorems, WellFoundedInduction, TLAPS

\* A set of numbers has a least one: induction over numbers, as a fact about sets.
LEMMA LeastElement ==
  ASSUME NEW T \in SUBSET Nat, T # {}
  PROVE  \E k \in T : \A j \in T : k <= j
<1> DEFINE R == OpToRel(<, Nat)
<1>1. \A i, j \in Nat : i < j => <<i, j>> \in R
  BY DEF OpToRel
<1>2. IsWellFoundedOn(R, Nat)
  BY NatLessThanWellFounded
<1> HIDE DEF R
<1>3. PICK k \in T : \A j \in T : ~(<<j, k>> \in R)
  BY <1>2, WFMin
<1>4. ASSUME NEW j \in T PROVE k <= j
  <2>1. j \in Nat /\ k \in Nat /\ ~(j < k)
    BY <1>1, <1>3
  <2> QED BY <2>1
<1> QED BY <1>4

-----------------------------------------------------------------------------
(* The peers of a socket, while it is open and after.                      *)

\* What follows of the inboxes and the peers of a socket, for ServedWhileOpen:
\* only a WebSocket has an inbox; while the socket is open, the peer that is open
\* is the current one; once it is closed, it is the last, made by a late message.
APeer == [isOpen : BOOLEAN, got : Seq(Nat)]
AMessage == [id : Nat, isBlob : BOOLEAN]
PeersTypes ==
  /\ current \in 0..Len(peers) /\ peers \in Seq(APeer)
  /\ inbox \in Seq(AMessage) /\ arrived \in Nat
OpenIsCurrent == \A p \in 1..Len(peers) : peers[p].isOpen => p = current
OnlyLateOnes ==
  ~isOpen => /\ inbox # <<>> => late
             /\ \A p \in 1..Len(peers) : peers[p].isOpen => late /\ p = Len(peers) /\ adapter = "websocket"
OnlyBlobsWait == adapter # "websocket" => inbox = <<>>
PeersInv ==
  /\ PeersTypes /\ OpenIsCurrent /\ OnlyLateOnes /\ OnlyBlobsWait
  /\ closing # {} => ~isOpen

LEMMA HandleKeeps ==
  ASSUME PeersTypes, OpenIsCurrent, NEW id \in Nat, Handle(id),
         isOpen \/ (late /\ adapter = "websocket")
  PROVE  /\ current' \in 0..Len(peers') /\ peers' \in Seq(APeer)
         /\ OpenIsCurrent'
         /\ (\A p \in 1..Len(peers) : peers[p].isOpen => p = Len(peers))
              => \A p \in 1..Len(peers') : peers'[p].isOpen => p = Len(peers')
<1> USE DEF PeersTypes
<1>1. CASE current = 0
  <2> DEFINE new == [isOpen |-> TRUE, got |-> <<id>>]
  <2>1. new \in APeer
    BY DEF APeer
  <2> HIDE DEF new
  <2>2. peers' = Append(peers, new) /\ current' = Len(peers')
    BY <1>1 DEF Handle, new
  <2>3. /\ peers' \in Seq(APeer) /\ Len(peers') = Len(peers) + 1
        /\ \A p \in 1..Len(peers) : peers'[p] = peers[p]
    BY <2>1, <2>2
  <2> QED BY <1>1, <2>2, <2>3 DEF OpenIsCurrent
<1>2. CASE current # 0
  <2>1. /\ peers' = [peers EXCEPT ![current].got = Append(@, id)] /\ current' = current
        /\ current \in 1..Len(peers) /\ peers[current] \in APeer
    BY <1>2 DEF Handle
  <2> DEFINE new == [peers[current] EXCEPT !.got = Append(@, id)]
  <2>2. new \in APeer /\ new.isOpen = peers[current].isOpen
    <3>1. Append(peers[current].got, id) \in Seq(Nat)
      BY <2>1 DEF APeer
    <3> QED BY <2>1, <3>1 DEF APeer
  <2>3. peers' = [peers EXCEPT ![current] = new] /\ current \in 1..Len(peers)
    BY <2>1
  <2> HIDE DEF new
  <2>4. /\ peers' \in Seq(APeer) /\ Len(peers') = Len(peers)
        /\ \A p \in 1..Len(peers) : p # current => peers'[p] = peers[p]
        /\ peers'[current] = new
    BY <2>2, <2>3
  <2> QED BY <2>1, <2>2, <2>4 DEF OpenIsCurrent
<1> QED BY <1>1, <1>2

LEMMA PeersStep == PeersInv /\ [PeersNext]_peerVars => PeersInv'
<1> SUFFICES ASSUME PeersInv, [PeersNext]_peerVars PROVE PeersInv'
  OBVIOUS
<1> USE DEF PeersInv
<1>1. ASSUME NEW isBlob \in BOOLEAN, Arrive(isBlob) PROVE PeersInv'
  <2>1. CASE MustWait(isBlob)
    <3> DEFINE new == [id |-> arrived', isBlob |-> isBlob]
    <3>1. /\ arrived' \in Nat /\ inbox' = Append(inbox, new) /\ isOpen
          /\ UNCHANGED <<peers, current, adapter, isOpen, closing, late>>
          /\ adapter = "websocket" \/ inbox # <<>>
      BY <1>1, <2>1 DEF Arrive, PeersTypes, MustWait
    <3>2. new \in AMessage
      BY <3>1 DEF AMessage
    <3> HIDE DEF new
    <3>3. inbox' \in Seq(AMessage)
      BY <3>1, <3>2 DEF PeersTypes
    <3> QED BY <3>1, <3>3 DEF PeersTypes, OpenIsCurrent, OnlyLateOnes, OnlyBlobsWait
  <2>2. CASE ~MustWait(isBlob)
    <3>1. arrived' \in Nat /\ Handle(arrived') /\ UNCHANGED <<adapter, isOpen, inbox, closing, late>> /\ isOpen
      BY <1>1, <2>2 DEF Arrive, PeersTypes
    <3>2. /\ current' \in 0..Len(peers') /\ peers' \in Seq(APeer)
          /\ OpenIsCurrent'
      BY <3>1, HandleKeeps
    <3> QED BY <3>1, <3>2 DEF PeersTypes, OnlyLateOnes, OnlyBlobsWait
  <2> QED BY <2>1, <2>2
<1>2. CASE BlobLoads
  <2>1. /\ inbox # <<>> /\ Handle(Head(inbox).id) /\ Head(inbox).id \in Nat
        /\ inbox' = Tail(inbox) /\ UNCHANGED <<adapter, isOpen, arrived, closing, late>>
    <3>1. inbox # <<>> => Head(inbox) \in AMessage
      BY DEF PeersTypes
    <3> QED BY <1>2, <3>1 DEF BlobLoads, AMessage
  <2>2. adapter = "websocket" /\ (isOpen \/ late)
    BY <2>1 DEF OnlyBlobsWait, OnlyLateOnes, PeersTypes
  <2>3. /\ current' \in 0..Len(peers') /\ peers' \in Seq(APeer)
        /\ OpenIsCurrent'
        /\ (\A p \in 1..Len(peers) : peers[p].isOpen => p = Len(peers))
              => \A p \in 1..Len(peers') : peers'[p].isOpen => p = Len(peers')
    BY <2>1, <2>2, HandleKeeps
  <2>4. OnlyLateOnes'
    BY <2>1, <2>2, <2>3 DEF OnlyLateOnes
  <2>5. inbox' \in Seq(AMessage)
    BY <2>1 DEF PeersTypes
  <2> QED BY <2>1, <2>2, <2>3, <2>4, <2>5 DEF PeersTypes, OnlyBlobsWait
<1>3. CASE SocketCloses
  <2>1. CASE current = 0
    <3>1. /\ UNCHANGED <<adapter, inbox, arrived, peers, closing, current>> /\ ~isOpen'
          /\ late' = (inbox # <<>>)
      BY <1>3, <2>1 DEF SocketCloses
    <3>2. \A p \in 1..Len(peers) : ~peers[p].isOpen
      BY <2>1 DEF OpenIsCurrent, PeersTypes
    <3>3. PeersTypes' /\ OpenIsCurrent'
      BY <3>1 DEF PeersTypes, OpenIsCurrent
    <3> QED BY <3>1, <3>2, <3>3 DEF OnlyLateOnes, OnlyBlobsWait
  <2>2. CASE current # 0
    <3>1. /\ peers' = [peers EXCEPT ![current].isOpen = FALSE] /\ ~isOpen'
          /\ UNCHANGED <<adapter, inbox, arrived>> /\ late' = (inbox # <<>>) /\ current' \in {0, current}
      BY <1>3, <2>2 DEF SocketCloses, CloseCurrent
    <3> DEFINE shut == [peers[current] EXCEPT !.isOpen = FALSE]
    <3>a. current \in 1..Len(peers) /\ peers[current] \in APeer
      BY <2>2 DEF PeersTypes
    <3>b. shut \in APeer /\ ~shut.isOpen /\ peers' = [peers EXCEPT ![current] = shut]
      BY <3>1, <3>a DEF APeer
    <3> HIDE DEF shut
    <3>c. /\ peers' \in Seq(APeer) /\ Len(peers') = Len(peers)
          /\ \A p \in 1..Len(peers) : p # current => peers'[p] = peers[p]
          /\ peers'[current] = shut
      BY <3>a, <3>b DEF PeersTypes
    <3>2. \A p \in 1..Len(peers') : ~peers'[p].isOpen
      BY <3>a, <3>b, <3>c DEF OpenIsCurrent
    <3>3. PeersTypes'
      BY <3>1, <3>c DEF PeersTypes
    <3> QED BY <3>1, <3>2, <3>3 DEF OpenIsCurrent, OnlyLateOnes, OnlyBlobsWait
  <2> QED BY <2>1, <2>2
<1>4. ASSUME NEW p \in closing, Closed(p) PROVE PeersInv'
  BY <1>4 DEF Closed, PeersTypes, OpenIsCurrent, OnlyLateOnes, OnlyBlobsWait
<1>5. CASE UNCHANGED peerVars
  BY <1>5 DEF peerVars, PeersTypes, OpenIsCurrent, OnlyLateOnes, OnlyBlobsWait
<1> QED BY <1>1, <1>2, <1>3, <1>4, <1>5 DEF PeersNext

\* No peer of a closed socket serves anything, but the one of a late message, for
\* all adapters and any number of messages (close, upgrade).
THEOREM PeersServeOpenSockets == PeersSpec => []ServedWhileOpen
<1>1. PeersInit => PeersInv
  BY DEF PeersInit, PeersInv, PeersTypes, OpenIsCurrent, OnlyLateOnes, OnlyBlobsWait
<1>2. PeersInv => ServedWhileOpen
  BY DEF PeersInv, PeersTypes, OnlyLateOnes, ServedWhileOpen
<1> QED BY <1>1, <1>2, PeersStep, PTL DEF PeersSpec

-----------------------------------------------------------------------------
(* The order of the messages of a socket.                                  *)

\* What FlattenSeq computes for each prefix of a sequence of sequences.
IsFlattening(g, s, m) == g = [i \in 1..m |-> IF i = 1 THEN s[i] ELSE g[i - 1] \o s[i]]

LEMMA FlatteningExists ==
  ASSUME NEW s, NEW n \in Nat
  PROVE  \E g : IsFlattening(g, s, n)
<1> DEFINE T == {m \in Nat : ~ \E g : IsFlattening(g, s, m)}
<1>1. SUFFICES ASSUME T # {} PROVE FALSE
  OBVIOUS
<1>2. PICK k \in T : \A j \in T : k <= j
  BY <1>1, LeastElement
<1>3. CASE k = 0
  <2> DEFINE g == [i \in 1..0 |-> <<>>]
  <2>1. IsFlattening(g, s, 0)
    BY DEF IsFlattening
  <2> QED BY <1>2, <1>3, <2>1
<1>4. CASE k # 0
  <2>1. k \in Nat /\ k - 1 \in Nat /\ ~(k <= k - 1)
    BY <1>2, <1>4
  <2>2. PICK g : IsFlattening(g, s, k - 1)
    BY <1>2, <2>1
  <2> DEFINE h == [i \in 1..k |-> IF i = k THEN IF k = 1 THEN s[k] ELSE g[k - 1] \o s[k] ELSE g[i]]
  <2>3. \A i \in 1..(k - 1) : h[i] = g[i] /\ i # k /\ i \in 1..k
    BY <2>1
  <2>4. h = [i \in 1..k |-> IF i = 1 THEN s[i] ELSE h[i - 1] \o s[i]]
    <3>1. SUFFICES ASSUME NEW i \in 1..k
                   PROVE  h[i] = IF i = 1 THEN s[i] ELSE h[i - 1] \o s[i]
      <4>1. h = [i \in 1..k |-> h[i]]
        OBVIOUS
      <4> HIDE DEF h
      <4> QED BY <3>1, <4>1
    <3>2. CASE i = k
      <4>1. h[i] = IF k = 1 THEN s[k] ELSE g[k - 1] \o s[k]
        BY <3>2
      <4>2. k # 1 => h[k - 1] = g[k - 1]
        <5>1. k # 1 => k - 1 \in 1..(k - 1)
          BY <2>1
        <5> QED BY <2>3, <5>1
      <4> HIDE DEF h
      <4> QED BY <3>2, <4>1, <4>2
    <3>3. CASE i # k
      <4>1. i \in 1..(k - 1) /\ (i # 1 => i - 1 \in 1..(k - 1))
        BY <2>1, <3>3
      <4>2. g[i] = IF i = 1 THEN s[i] ELSE g[i - 1] \o s[i]
        BY <2>2, <4>1 DEF IsFlattening
      <4>3. h[i] = g[i] /\ (i # 1 => h[i - 1] = g[i - 1])
        BY <2>3, <4>1
      <4> HIDE DEF h
      <4> QED BY <4>2, <4>3
    <3> QED BY <3>2, <3>3
  <2> HIDE DEF h
  <2>5. IsFlattening(h, s, k)
    BY <2>4 DEF IsFlattening
  <2> QED BY <1>2, <2>5
<1> QED BY <1>3, <1>4

\* FlattenSeq is the last of the flattenings of the prefixes.
ArePrefixes(g, s, m) == /\ m >= 1 => g[1] = s[1]
                        /\ \A i \in 2..m : g[i] = g[i - 1] \o s[i]

AgreeTo(s, t, m) == \A i \in 1..m : s[i] = t[i]

LEMMA FlattenSeqFacts ==
  ASSUME NEW S, NEW s \in Seq(Seq(S)), s # <<>>
  PROVE  \E g : FlattenSeq(s) = g[Len(s)] /\ ArePrefixes(g, s, Len(s))
<1> DEFINE n == Len(s)
<1> DEFINE g == CHOOSE f : IsFlattening(f, s, n)
<1>1. n \in Nat /\ n # 0
  BY EmptySeq
<1>2. FlattenSeq(s) = g[n]
  BY <1>1 DEF FlattenSeq, IsFlattening
<1>3. IsFlattening(g, s, n)
  BY <1>1, FlatteningExists
<1> HIDE DEF g, n
<1>4. g[1] = s[1]
  <2>1. 1 \in 1..n
    BY <1>1
  <2> QED BY <1>3, <2>1 DEF IsFlattening
<1>5. \A i \in 2..n : g[i] = g[i - 1] \o s[i]
  <2>1. \A i \in 2..n : i \in 1..n /\ i # 1
    BY <1>1
  <2> QED BY <1>3, <2>1 DEF IsFlattening
<1>6. ArePrefixes(g, s, n)
  BY <1>4, <1>5 DEF ArePrefixes
<1> QED BY <1>2, <1>6 DEF n

\* Sequences that begin alike have the same prefixes.
LEMMA PrefixesAgree ==
  ASSUME NEW s, NEW t, NEW g, NEW h, NEW m \in Nat,
         AgreeTo(s, t, m), ArePrefixes(g, s, m), ArePrefixes(h, t, m)
  PROVE  AgreeTo(g, h, m)
<1> USE DEF AgreeTo
<1> DEFINE T == {i \in 1..m : g[i] # h[i]}
<1>1. SUFFICES ASSUME T # {} PROVE FALSE
  OBVIOUS
<1>2. T \in SUBSET Nat
  OBVIOUS
<1>3. PICK k \in T : \A j \in T : k <= j
  BY <1>1, <1>2, LeastElement
<1>4. k \in 1..m /\ g[k] # h[k]
  OBVIOUS
<1>5. CASE k = 1
  BY <1>4, <1>5 DEF ArePrefixes
<1>6. CASE k # 1
  <2>1. k \in 2..m /\ k - 1 \in 1..m /\ ~(k <= k - 1)
    BY <1>4, <1>6
  <2>2. g[k - 1] = h[k - 1]
    BY <1>3, <2>1
  <2> HIDE DEF T
  <2> QED BY <1>4, <2>1, <2>2 DEF ArePrefixes
<1> QED BY <1>5, <1>6

LEMMA FewerPrefixes ==
  ASSUME NEW s, NEW g, NEW n \in Nat, NEW m \in Nat, m <= n, ArePrefixes(g, s, n)
  PROVE  ArePrefixes(g, s, m)
<1>1. \A i \in 2..m : i \in 2..n
  OBVIOUS
<1>2. m >= 1 => n >= 1
  OBVIOUS
<1> QED BY <1>1, <1>2 DEF ArePrefixes

LEMMA PrefixType ==
  ASSUME NEW S, NEW s, NEW g, NEW n \in Nat, n # 0, \A i \in 1..n : s[i] \in Seq(S), ArePrefixes(g, s, n)
  PROVE  g[n] \in Seq(S)
<1> DEFINE T == {i \in 1..n : g[i] \notin Seq(S)}
<1>1. SUFFICES ASSUME T # {} PROVE FALSE
  OBVIOUS
<1>2. T \in SUBSET Nat
  OBVIOUS
<1>3. PICK k \in T : \A j \in T : k <= j
  BY <1>1, <1>2, LeastElement
<1>4. k \in 1..n /\ g[k] \notin Seq(S)
  OBVIOUS
<1>5. CASE k = 1
  BY <1>4, <1>5 DEF ArePrefixes
<1>6. CASE k # 1
  <2>1. k \in 2..n /\ k - 1 \in 1..n /\ ~(k <= k - 1)
    BY <1>4, <1>6
  <2>2. g[k - 1] \in Seq(S)
    BY <1>3, <2>1
  <2> HIDE DEF T
  <2>3. g[k] = g[k - 1] \o s[k]
    BY <2>1 DEF ArePrefixes
  <2>4. s[k] \in Seq(S)
    BY <1>4
  <2>5. g[k - 1] \o s[k] \in Seq(S)
    BY <2>2, <2>4, ConcatProperties
  <2> QED BY <1>4, <2>3, <2>5
<1> QED BY <1>5, <1>6

LEMMA FlattenOfEmpty == ASSUME NEW s, Len(s) = 0 PROVE FlattenSeq(s) = s
BY Zenon DEF FlattenSeq

LEMMA FlattenSeqType ==
  ASSUME NEW S, NEW s \in Seq(Seq(S))
  PROVE  FlattenSeq(s) \in Seq(S)
<1>1. CASE s = <<>>
  <2>1. Len(s) = 0 /\ s \in Seq(S)
    BY <1>1
  <2> QED BY <2>1, FlattenOfEmpty
<1>2. CASE s # <<>>
  <2>1. Len(s) \in Nat /\ Len(s) # 0 /\ \A i \in 1..Len(s) : s[i] \in Seq(S)
    BY <1>2, EmptySeq
  <2>2. PICK g : FlattenSeq(s) = g[Len(s)] /\ ArePrefixes(g, s, Len(s))
    BY <1>2, FlattenSeqFacts
  <2> QED BY <2>1, <2>2, PrefixType
<1> QED BY <1>1, <1>2

\* Of one more sequence.
LEMMA FlattenOfMore ==
  ASSUME NEW S, NEW s \in Seq(Seq(S)), NEW t \in Seq(Seq(S)), NEW n \in Nat,
         Len(s) = n, Len(t) = n + 1, \A i \in 1..n : t[i] = s[i]
  PROVE  FlattenSeq(t) = FlattenSeq(s) \o t[n + 1]
<1>1. t # <<>> /\ t[n + 1] \in Seq(S)
  <2>1. Len(t) # 0 /\ n + 1 \in 1..Len(t)
    OBVIOUS
  <2> QED BY <2>1, ElementOfSeq
<1>2. PICK h : FlattenSeq(t) = h[n + 1] /\ ArePrefixes(h, t, n + 1)
  BY <1>1, FlattenSeqFacts
<1>3. CASE n = 0
  <2>1. s = <<>> /\ FlattenSeq(s) = <<>>
    BY <1>3, EmptySeq, FlattenOfEmpty
  <2>2. FlattenSeq(t) = t[n + 1]
    BY <1>2, <1>3 DEF ArePrefixes
  <2> QED BY <1>1, <2>1, <2>2, ConcatEmptySeq
<1>4. CASE n # 0
  <2>1. s # <<>> /\ n \in 1..n /\ n + 1 \in 2..(n + 1) /\ n + 1 - 1 = n /\ n <= n + 1 /\ n + 1 \in Nat
    BY <1>4
  <2>2. PICK g : FlattenSeq(s) = g[n] /\ ArePrefixes(g, s, n)
    BY <2>1, FlattenSeqFacts
  <2>3. AgreeTo(s, t, n) /\ ArePrefixes(h, t, n)
    BY <1>2, <2>1, FewerPrefixes DEF AgreeTo
  <2>4. g[n] = h[n]
    BY <2>1, <2>2, <2>3, PrefixesAgree DEF AgreeTo
  <2>5. h[n + 1] = h[n] \o t[n + 1]
    <3>1. PICK k : k = n + 1 /\ k \in 2..(n + 1) /\ k - 1 = n
      BY <2>1
    <3>2. h[k] = h[k - 1] \o t[k]
      BY <1>2, <3>1 DEF ArePrefixes
    <3> QED BY <3>1, <3>2
  <2> QED BY <1>2, <2>2, <2>4, <2>5
<1> QED BY <1>3, <1>4

LEMMA AppendToConcat ==
  ASSUME NEW a \in Seq(Nat), NEW b \in Seq(Nat), NEW x \in Nat
  PROVE  a \o Append(b, x) = Append(a \o b, x) /\ a \o <<x>> = Append(a, x)
OBVIOUS

\* A message that goes to a new peer.
LEMMA FlattenOfNew ==
  ASSUME NEW s \in Seq(Seq(Nat)), NEW x \in Nat
  PROVE  FlattenSeq(Append(s, <<x>>)) = Append(FlattenSeq(s), x)
<1> DEFINE t == Append(s, <<x>>)
<1>1. <<x>> \in Seq(Nat)
  OBVIOUS
<1>2. /\ t \in Seq(Seq(Nat)) /\ Len(t) = Len(s) + 1 /\ t[Len(s) + 1] = <<x>> /\ Len(s) \in Nat
      /\ \A i \in 1..Len(s) : t[i] = s[i]
  BY <1>1, AppendProperties
<1>3. t # <<>>
  <2>1. Len(t) # Len(<<>>)
    BY <1>2
  <2> HIDE DEF t
  <2> QED BY <2>1
<1> HIDE DEF t
<1>4. PICK h : FlattenSeq(t) = h[Len(t)] /\ ArePrefixes(h, t, Len(t))
  BY <1>2, <1>3, FlattenSeqFacts
<1>5. CASE s = <<>>
  <2>1. Len(s) = 0 /\ FlattenSeq(s) = <<>>
    BY <1>5, FlattenOfEmpty
  <2>2. h[1] = <<x>> /\ Len(t) = 1
    BY <1>2, <1>4, <2>1 DEF ArePrefixes
  <2>3. Append(<<>>, x) = <<x>>
    OBVIOUS
  <2> QED BY <1>4, <2>1, <2>2, <2>3 DEF t
<1>6. CASE s # <<>>
  <2>1. PICK n \in Nat : n = Len(s) /\ n # 0
    BY <1>2, <1>6, EmptySeq
  <2>2. PICK g : FlattenSeq(s) = g[n] /\ ArePrefixes(g, s, n)
    BY <1>6, <2>1, FlattenSeqFacts
  <2>3. PICK k \in Nat : Len(t) = k /\ n <= k /\ n \in 1..n /\ k \in 2..k /\ k - 1 = n /\ t[k] = <<x>>
    <3>1. n + 1 \in Nat /\ n <= n + 1 /\ n \in 1..n /\ n + 1 \in 2..(n + 1) /\ n + 1 - 1 = n
      BY <2>1
    <3>2. Len(t) = n + 1 /\ t[n + 1] = <<x>>
      BY <1>2, <2>1
    <3> QED BY <3>1, <3>2
  <2>4. ArePrefixes(h, t, k) /\ ArePrefixes(h, t, n)
    BY <1>4, <2>1, <2>3, FewerPrefixes
  <2>5. g[n] = h[n]
    <3>1. AgreeTo(s, t, n)
      BY <1>2, <2>1 DEF AgreeTo
    <3>2. AgreeTo(g, h, n)
      BY <2>2, <2>4, <3>1, PrefixesAgree
    <3> QED BY <2>3, <3>2 DEF AgreeTo
  <2>6. h[k] = h[n] \o <<x>>
    <3>1. h[k] = h[k - 1] \o t[k]
      BY <2>3, <2>4 DEF ArePrefixes
    <3> QED BY <2>3, <3>1
  <2>7. FlattenSeq(s) \in Seq(Nat)
    BY FlattenSeqType
  <2>8. FlattenSeq(t) = FlattenSeq(s) \o <<x>>
    BY <1>4, <2>2, <2>3, <2>5, <2>6
  <2> QED BY <2>7, <2>8, <1>1, AppendToConcat DEF t
<1> QED BY <1>5, <1>6

\* A message that goes to the last peer.
LEMMA FlattenOfLast ==
  ASSUME NEW s \in Seq(Seq(Nat)), NEW t \in Seq(Seq(Nat)), NEW x \in Nat, NEW n \in Nat, n # 0,
         Len(s) = n, Len(t) = n, t[n] = Append(s[n], x), \A i \in 1..(n - 1) : t[i] = s[i]
  PROVE  FlattenSeq(t) = Append(FlattenSeq(s), x)
<1>1. s # <<>> /\ t # <<>> /\ s[n] \in Seq(Nat) /\ \A i \in 1..(n - 1) : s[i] \in Seq(Nat)
  OBVIOUS
<1>2. PICK g : FlattenSeq(s) = g[n] /\ ArePrefixes(g, s, n)
  BY <1>1, FlattenSeqFacts
<1>3. PICK h : FlattenSeq(t) = h[n] /\ ArePrefixes(h, t, n)
  BY <1>1, FlattenSeqFacts
<1>4. CASE n = 1
  BY <1>2, <1>3, <1>4 DEF ArePrefixes
<1>5. CASE n # 1
  <2>0. n - 1 \in Nat /\ n - 1 # 0 /\ n - 1 <= n /\ n - 1 \in 1..(n - 1) /\ n \in 2..n
    BY <1>5
  <2>1. PICK m \in Nat : m = n - 1 /\ m # 0 /\ m <= n /\ m \in 1..m /\ n \in 2..n
    BY <2>0, Zenon
  <2>2. ArePrefixes(g, s, m) /\ ArePrefixes(h, t, m)
    BY <1>2, <1>3, <2>1, FewerPrefixes
  <2>3. h[m] = g[m]
    <3>1. AgreeTo(s, t, m)
      BY <2>1 DEF AgreeTo
    <3>2. AgreeTo(g, h, m)
      BY <2>2, <3>1, PrefixesAgree
    <3> QED BY <2>1, <3>2 DEF AgreeTo
  <2>4. g[m] \in Seq(Nat)
    BY <1>1, <2>1, <2>2, PrefixType
  <2>5. g[n] = g[m] \o s[n] /\ h[n] = h[m] \o t[n]
    BY <1>2, <1>3, <2>1 DEF ArePrefixes
  <2>6. h[n] = g[m] \o Append(s[n], x)
    BY <2>3, <2>5
  <2>7. g[m] \o Append(s[n], x) = Append(g[m] \o s[n], x)
    BY <1>1, <2>4, AppendToConcat
  <2> QED BY <1>2, <1>3, <2>5, <2>6, <2>7
<1> QED BY <1>4, <1>5

\* The current peer is the last that was made, and the inbox holds what arrived last.
CurrentIsLast == current # 0 => current = Len(peers)
InboxIsNext ==
  /\ Len(inbox) <= arrived
  /\ \A i \in 1..Len(inbox) : inbox[i].id = arrived - Len(inbox) + i
MessagesGot == [p \in 1..Len(peers) |-> peers[p].got]
FirstNumbers(n) == [i \in 1..n |-> i]
OrderInv ==
  PeersTypes /\ CurrentIsLast /\ InboxIsNext /\ FlattenSeq(MessagesGot) = FirstNumbers(arrived - Len(inbox))

LEMMA FirstNumbersNext ==
  ASSUME NEW n \in Nat
  PROVE  Append(FirstNumbers(n), n + 1) = FirstNumbers(n + 1)
<1>1. FirstNumbers(n) \in Seq(Nat) /\ Len(FirstNumbers(n)) = n /\ \A i \in 1..n : FirstNumbers(n)[i] = i
  BY DEF FirstNumbers
<1>2. FirstNumbers(n + 1) \in Seq(Nat) /\ Len(FirstNumbers(n + 1)) = n + 1 /\ \A i \in 1..(n + 1) : FirstNumbers(n + 1)[i] = i
  BY DEF FirstNumbers
<1> QED BY <1>1, <1>2, SeqEqual

LEMMA GotType ==
  ASSUME PeersTypes
  PROVE  /\ MessagesGot \in Seq(Seq(Nat)) /\ Len(MessagesGot) = Len(peers) /\ Len(peers) \in Nat
         /\ \A p \in 1..Len(peers) : MessagesGot[p] = peers[p].got
<1>1. Len(peers) \in Nat /\ \A p \in 1..Len(peers) : peers[p] \in APeer
  BY DEF PeersTypes
<1>2. \A p \in 1..Len(peers) : peers[p].got \in Seq(Nat)
  BY <1>1 DEF APeer
<1> QED BY <1>1, <1>2 DEF MessagesGot

\* A peer that gets a message gets it behind all that were handled before.
LEMMA HandleAppends ==
  ASSUME PeersTypes, CurrentIsLast, NEW id \in Nat, Handle(id)
  PROVE  /\ current' \in 0..Len(peers') /\ peers' \in Seq(APeer) /\ CurrentIsLast'
         /\ FlattenSeq(MessagesGot') = Append(FlattenSeq(MessagesGot), id)
<1> DEFINE n == Len(peers)
<1>1. n \in Nat /\ peers \in Seq(APeer) /\ current \in 0..n
  BY DEF PeersTypes
<1>2. CASE current = 0
  <2> DEFINE new == [isOpen |-> TRUE, got |-> <<id>>]
  <2>1. new \in APeer /\ new.got = <<id>>
    BY DEF APeer
  <2>2. peers' = Append(peers, new) /\ current' = Len(peers')
    BY <1>2 DEF Handle
  <2> HIDE DEF new
  <2>3. /\ peers' \in Seq(APeer) /\ Len(peers') = n + 1 /\ peers'[n + 1] = new
        /\ \A p \in 1..n : peers'[p] = peers[p]
    BY <1>1, <2>1, <2>2, AppendProperties
  <2>4. current' \in 0..Len(peers') /\ CurrentIsLast'
    BY <1>1, <2>2, <2>3 DEF CurrentIsLast
  <2>6. MessagesGot' = Append(MessagesGot, <<id>>)
    <3>1. /\ MessagesGot' = [p \in 1..(n + 1) |-> peers'[p].got]
          /\ MessagesGot = [p \in 1..n |-> peers[p].got]
      BY <2>3 DEF MessagesGot
    <3>2. MessagesGot \in Seq(Seq(Nat)) /\ Len(MessagesGot) = n /\ <<id>> \in Seq(Nat)
      BY GotType
    <3>3. /\ Append(MessagesGot, <<id>>) \in Seq(Seq(Nat)) /\ Len(Append(MessagesGot, <<id>>)) = n + 1
          /\ \A p \in 1..n : Append(MessagesGot, <<id>>)[p] = MessagesGot[p]
          /\ Append(MessagesGot, <<id>>)[n + 1] = <<id>>
      BY <3>2, AppendProperties
    <3>4. \A p \in 1..(n + 1) : MessagesGot'[p] = Append(MessagesGot, <<id>>)[p]
      <4>1. SUFFICES ASSUME NEW p \in 1..(n + 1) PROVE MessagesGot'[p] = Append(MessagesGot, <<id>>)[p]
        OBVIOUS
      <4>2. MessagesGot'[p] = peers'[p].got
        BY <3>1
      <4>3. CASE p = n + 1
        BY <2>1, <2>3, <3>3, <4>2, <4>3
      <4>4. CASE p \in 1..n
        BY <2>3, <3>1, <3>3, <4>2, <4>4
        <4>5. p \in 1..n \/ p = n + 1
        <5>1. \A m \in Nat : \A i \in 1..(m + 1) : i \in 1..m \/ i = m + 1
          OBVIOUS
        <5> QED BY <1>1, <4>1, <5>1
      <4> QED BY <4>3, <4>4, <4>5
    <3>5. MessagesGot' \in Seq(Seq(Nat)) /\ Len(MessagesGot') = n + 1
      <4>1. \A p \in 1..(n + 1) : peers'[p] \in APeer
        BY <1>1, <2>3
      <4>2. \A p \in 1..(n + 1) : peers'[p].got \in Seq(Nat)
        BY <4>1 DEF APeer
      <4> QED BY <1>1, <3>1, <4>2
    <3> QED BY <3>3, <3>4, <3>5, SeqEqual
  <2>7. FlattenSeq(Append(MessagesGot, <<id>>)) = Append(FlattenSeq(MessagesGot), id)
    BY GotType, FlattenOfNew
  <2> QED BY <2>3, <2>4, <2>6, <2>7
<1>3. CASE current # 0
  <2>1. current = n /\ n \in 1..n /\ n # 0
    BY <1>1, <1>3 DEF CurrentIsLast
  <2>2. /\ peers' = [peers EXCEPT ![n].got = Append(@, id)] /\ current' = current /\ peers[n] \in APeer
    BY <1>1, <1>3, <2>1 DEF Handle
  <2> DEFINE new == [peers[n] EXCEPT !.got = Append(@, id)]
  <2>3. new \in APeer /\ new.got = Append(peers[n].got, id)
    <3>1. Append(peers[n].got, id) \in Seq(Nat)
      BY <2>2 DEF APeer
    <3> QED BY <2>2, <3>1 DEF APeer
  <2>4. peers' = [peers EXCEPT ![n] = new]
    BY <2>2
  <2> HIDE DEF new
  <2>5. /\ peers' \in Seq(APeer) /\ Len(peers') = n /\ peers'[n] = new
        /\ \A p \in 1..n : p # n => peers'[p] = peers[p]
    BY <1>1, <2>1, <2>3, <2>4
  <2>6. current' \in 0..Len(peers') /\ CurrentIsLast'
    BY <1>1, <2>1, <2>2, <2>5 DEF CurrentIsLast
  <2>7. MessagesGot' = [p \in 1..n |-> peers'[p].got]
    BY <2>5 DEF MessagesGot
  <2>8. MessagesGot' \in Seq(Seq(Nat)) /\ Len(MessagesGot') = n
    <3>1. \A p \in 1..n : peers'[p] \in APeer
      BY <1>1, <2>5
    <3>2. \A p \in 1..n : peers'[p].got \in Seq(Nat)
      BY <3>1 DEF APeer
    <3> QED BY <1>1, <2>7, <3>2
  <2>9. /\ MessagesGot'[n] = Append(MessagesGot[n], id)
        /\ \A p \in 1..(n - 1) : MessagesGot'[p] = MessagesGot[p]
    <3>1. MessagesGot[n] = peers[n].got /\ \A p \in 1..n : MessagesGot[p] = peers[p].got
      BY <2>1, GotType
    <3>2. MessagesGot'[n] = new.got
      BY <2>1, <2>5, <2>7
    <3>3. ASSUME NEW p \in 1..(n - 1) PROVE MessagesGot'[p] = MessagesGot[p]
      <4>1. p \in 1..n /\ p # n
        BY <1>1
      <4> QED BY <2>5, <2>7, <3>1, <4>1
    <3> QED BY <2>3, <3>1, <3>2, <3>3
  <2>10. FlattenSeq(MessagesGot') = Append(FlattenSeq(MessagesGot), id)
    BY <1>1, <2>1, <2>8, <2>9, GotType, FlattenOfLast
  <2> QED BY <2>5, <2>6, <2>10
<1> QED BY <1>2, <1>3

LEMMA OrderStep == OrderInv /\ [PeersNext]_peerVars => OrderInv'
<1> SUFFICES ASSUME OrderInv, [PeersNext]_peerVars PROVE OrderInv'
  OBVIOUS
<1> USE DEF OrderInv
<1>0. /\ Len(inbox) \in Nat /\ arrived \in Nat /\ inbox \in Seq(AMessage)
  BY DEF PeersTypes
<1>1. ASSUME NEW isBlob \in BOOLEAN, Arrive(isBlob) PROVE OrderInv'
  <2>1. CASE MustWait(isBlob)
    <3> DEFINE new == [id |-> arrived + 1, isBlob |-> isBlob]
    <3>1. arrived' = arrived + 1 /\ inbox' = Append(inbox, new) /\ UNCHANGED <<peers, current>>
      BY <1>1, <2>1 DEF Arrive
    <3>2. new \in AMessage /\ new.id = arrived + 1
      BY <1>0 DEF AMessage
    <3> HIDE DEF new
    <3>3. /\ inbox' \in Seq(AMessage) /\ Len(inbox') = Len(inbox) + 1 /\ inbox'[Len(inbox) + 1] = new
          /\ \A i \in 1..Len(inbox) : inbox'[i] = inbox[i]
      BY <1>0, <3>1, <3>2, AppendProperties
    <3>4. PeersTypes' /\ CurrentIsLast'
      BY <1>0, <3>1, <3>3 DEF PeersTypes, CurrentIsLast
    <3>5. InboxIsNext'
      <4>1. PICK l \in Nat : l = Len(inbox)
        BY <1>0
      <4>2. l <= arrived /\ \A i \in 1..l : inbox[i].id = arrived - l + i
        BY <4>1 DEF InboxIsNext
      <4>3. ASSUME NEW i \in 1..(l + 1) PROVE inbox'[i].id = arrived + 1 - (l + 1) + i
        <5>1. CASE i = l + 1
          BY <1>0, <3>2, <3>3, <4>1, <5>1
        <5>2. CASE i # l + 1
          <6>1. i \in 1..l /\ inbox'[i] = inbox[i]
            BY <3>3, <4>1, <5>2
          <6> QED BY <1>0, <4>2, <6>1
        <5> QED BY <5>1, <5>2
      <4>4. Len(inbox') = l + 1 /\ Len(inbox') <= arrived'
        BY <1>0, <3>1, <3>3, <4>1, <4>2
      <4>5. arrived' - Len(inbox') = arrived + 1 - (l + 1) /\ 1..Len(inbox') = 1..(l + 1)
        BY <1>0, <3>1, <4>4
      <4> QED BY <4>3, <4>4, <4>5, Zenon DEF InboxIsNext
    <3>6. FlattenSeq(MessagesGot') = FirstNumbers(arrived' - Len(inbox'))
      <4>1. MessagesGot' = MessagesGot
        BY <3>1 DEF MessagesGot
      <4>2. arrived' - Len(inbox') = arrived - Len(inbox)
        BY <1>0, <3>1, <3>3
      <4> QED BY <4>1, <4>2
    <3> QED BY <3>4, <3>5, <3>6
  <2>2. CASE ~MustWait(isBlob)
    <3>1. arrived' = arrived + 1 /\ Handle(arrived + 1) /\ UNCHANGED inbox /\ inbox = <<>>
      BY <1>1, <2>2 DEF Arrive, MustWait
    <3>2. arrived + 1 \in Nat /\ Len(inbox) = 0 /\ arrived - Len(inbox) = arrived
      BY <1>0, <3>1
    <3>3. /\ current' \in 0..Len(peers') /\ peers' \in Seq(APeer) /\ CurrentIsLast'
          /\ FlattenSeq(MessagesGot') = Append(FlattenSeq(MessagesGot), arrived + 1)
      BY <3>1, <3>2, HandleAppends
    <3>4. PeersTypes' /\ InboxIsNext'
      BY <1>0, <3>1, <3>2, <3>3 DEF PeersTypes, InboxIsNext
    <3>5. FlattenSeq(MessagesGot') = FirstNumbers(arrived + 1)
      BY <1>0, <3>2, <3>3, FirstNumbersNext
    <3>6. arrived' - Len(inbox') = arrived + 1
      BY <1>0, <3>1, <3>2
    <3> QED BY <3>3, <3>4, <3>5, <3>6
  <2> QED BY <2>1, <2>2
<1>2. CASE BlobLoads
  <2>1. inbox # <<>> /\ Handle(Head(inbox).id) /\ inbox' = Tail(inbox) /\ arrived' = arrived
    BY <1>2 DEF BlobLoads
  <2>2. PICK n \in Nat : n = arrived - Len(inbox)
    <3>1. PICK m \in Nat, k \in Nat : m = Len(inbox) /\ k = arrived /\ m <= k
      BY <1>0 DEF InboxIsNext
    <3>2. k - m \in Nat
      BY <3>1
    <3> QED BY <3>1, <3>2
  <2>3. Len(inbox) # 0
    BY <1>0, <2>1, EmptySeq
  <2>4. Head(inbox).id = n + 1 /\ n + 1 \in Nat
    <3>1. Head(inbox) = inbox[1] /\ 1 \in 1..Len(inbox)
      BY <1>0, <2>1, <2>3
    <3>2. inbox[1].id = n + 1
      BY <2>2, <3>1 DEF InboxIsNext
    <3> QED BY <3>1, <3>2
  <2>5. /\ inbox' \in Seq(AMessage) /\ Len(inbox') = Len(inbox) - 1
        /\ \A i \in 1..Len(inbox') : inbox'[i] = inbox[i + 1]
    BY <1>0, <2>1, HeadTailProperties
  <2>6. /\ current' \in 0..Len(peers') /\ peers' \in Seq(APeer) /\ CurrentIsLast'
        /\ FlattenSeq(MessagesGot') = Append(FlattenSeq(MessagesGot), n + 1)
    BY <2>1, <2>4, HandleAppends
  <2>7. PeersTypes'
    BY <1>0, <2>1, <2>5, <2>6 DEF PeersTypes
  <2>8. InboxIsNext'
    <3>1. \A i \in 1..Len(inbox') : i + 1 \in 1..Len(inbox)
      BY <1>0, <2>3, <2>5
    <3>2. \A i \in 1..Len(inbox') : inbox'[i].id = arrived - Len(inbox) + (i + 1)
      BY <2>5, <3>1 DEF InboxIsNext
    <3>3. Len(inbox') \in Nat /\ Len(inbox') <= arrived
      BY <1>0, <2>3, <2>5 DEF InboxIsNext
    <3>4. \A i \in 1..Len(inbox') : arrived - Len(inbox) + (i + 1) = arrived' - Len(inbox') + i
      BY <1>0, <2>1, <2>5
    <3> QED BY <2>1, <3>2, <3>3, <3>4 DEF InboxIsNext
  <2>9. FlattenSeq(MessagesGot') = FirstNumbers(n + 1)
    BY <2>2, <2>6, FirstNumbersNext
  <2>10. arrived' - Len(inbox') = n + 1
    BY <1>0, <2>1, <2>2, <2>5
  <2> QED BY <2>6, <2>7, <2>8, <2>9, <2>10
<1>3. CASE SocketCloses
  <2>1. UNCHANGED <<inbox, arrived>> /\ (current' = current \/ current' = 0)
    BY <1>3 DEF SocketCloses
  <2>2. CASE UNCHANGED peers
    <3>1. MessagesGot' = MessagesGot
      BY <2>2 DEF MessagesGot
    <3>2. PeersTypes' /\ CurrentIsLast' /\ InboxIsNext'
      <4>1. PeersTypes'
        BY <2>1, <2>2 DEF PeersTypes
      <4>2. CurrentIsLast'
        BY <2>1, <2>2 DEF CurrentIsLast
      <4>3. InboxIsNext'
        BY <2>1, <2>2 DEF InboxIsNext
      <4> QED BY <4>1, <4>2, <4>3
    <3>3. arrived' - Len(inbox') = arrived - Len(inbox)
      BY <2>1
    <3> QED BY <3>1, <3>2, <3>3
  <2>3. CASE current # 0 /\ peers' = [peers EXCEPT ![current].isOpen = FALSE]
    <3> DEFINE shut == [peers[current] EXCEPT !.isOpen = FALSE]
    <3>1. current \in 1..Len(peers) /\ peers[current] \in APeer /\ Len(peers) \in Nat
      BY <2>3 DEF PeersTypes
    <3>2. shut \in APeer /\ shut.got = peers[current].got /\ peers' = [peers EXCEPT ![current] = shut]
      BY <2>3, <3>1 DEF APeer
    <3> HIDE DEF shut
    <3>3. /\ peers' \in Seq(APeer) /\ Len(peers') = Len(peers)
          /\ \A p \in 1..Len(peers) : p # current => peers'[p] = peers[p]
          /\ peers'[current] = shut
      BY <3>1, <3>2 DEF PeersTypes
    <3>4. \A p \in 1..Len(peers) : peers'[p].got = peers[p].got
      BY <3>1, <3>2, <3>3
    <3>5. MessagesGot' = MessagesGot
      BY <3>3, <3>4 DEF MessagesGot
    <3>6. PeersTypes' /\ CurrentIsLast' /\ InboxIsNext'
      <4>1. PeersTypes'
        BY <2>1, <3>1, <3>3 DEF PeersTypes
      <4>2. CurrentIsLast'
        BY <2>1, <3>1, <3>3 DEF CurrentIsLast
      <4>3. InboxIsNext'
        BY <2>1 DEF InboxIsNext
      <4> QED BY <4>1, <4>2, <4>3
    <3>7. arrived' - Len(inbox') = arrived - Len(inbox)
      BY <2>1
    <3> QED BY <3>5, <3>6, <3>7
  <2> QED BY <1>3, <2>2, <2>3 DEF SocketCloses, CloseCurrent
<1>4. ASSUME UNCHANGED <<inbox, arrived, peers>>, current' \in {0, current} PROVE OrderInv'
  <2>1. MessagesGot' = MessagesGot
    BY <1>4 DEF MessagesGot
  <2>2. PeersTypes' /\ CurrentIsLast' /\ InboxIsNext'
    BY <1>4 DEF PeersTypes, CurrentIsLast, InboxIsNext
  <2>3. arrived' - Len(inbox') = arrived - Len(inbox)
    BY <1>4
  <2> QED BY <2>1, <2>2, <2>3
<1>5. ASSUME NEW p \in closing, Closed(p) PROVE OrderInv'
  BY <1>4, <1>5 DEF Closed
<1>6. CASE UNCHANGED peerVars
  BY <1>4, <1>6 DEF peerVars
<1> QED BY <1>1, <1>2, <1>3, <1>5, <1>6 DEF PeersNext

\* The peers of a socket get its messages in the order of their arrival, each once,
\* for all adapters, however many Blobs load late (message, sequential, upgrade).
THEOREM MessagesComeInOrder == PeersSpec => []MessagesInOrder
<1>1. PeersInit => OrderInv
  <2> SUFFICES ASSUME PeersInit PROVE OrderInv
    OBVIOUS
  <2>1. /\ peers = <<>> /\ inbox = <<>> /\ current = 0 /\ arrived = 0
        /\ <<>> \in Seq(APeer) /\ <<>> \in Seq(AMessage) /\ Len(<<>>) = 0
    BY DEF PeersInit
  <2>2. PeersTypes /\ CurrentIsLast /\ InboxIsNext
    BY <2>1 DEF PeersTypes, CurrentIsLast, InboxIsNext
  <2>3. FlattenSeq(MessagesGot) = MessagesGot
    <3>1. Len(MessagesGot) = 0
      BY <2>1, <2>2, GotType
    <3> QED BY <3>1, FlattenOfEmpty
  <2>4. Len(peers) = 0 /\ arrived - Len(inbox) = 0
    <3>1. Len(peers) = 0 /\ Len(inbox) = 0 /\ arrived = 0
      BY <2>1, Zenon
    <3>2. 0 - 0 = 0
      OBVIOUS
    <3> QED BY <3>1, <3>2, Zenon
  <2>5. MessagesGot = [p \in 1..0 |-> peers[p].got] /\ FirstNumbers(0) = [i \in 1..0 |-> i]
    BY <2>4 DEF MessagesGot, FirstNumbers
  <2>6. MessagesGot = FirstNumbers(0)
    BY <2>5
  <2> QED BY <2>2, <2>3, <2>4, <2>6 DEF OrderInv
<1>2. OrderInv => MessagesInOrder
  BY DEF OrderInv, MessagesInOrder, MessagesGot, FirstNumbers
<1> QED BY <1>1, <1>2, OrderStep, PTL DEF PeersSpec

-----------------------------------------------------------------------------
(* Sums of weights.                                                        *)

Weighted(S) == IsFiniteSet(S) /\ \A a \in S : a.weight \in Nat

\* What TotalOf computes of each subset, by a recursion over its elements.
Chosen(s) == CHOOSE x \in s : TRUE
StepOf(f, s) == IF s = {} THEN 0 ELSE Chosen(s).weight + f[s \ {Chosen(s)}]
IsTotal(f, S) == f = [s \in SUBSET S |-> StepOf(f, s)]
IsTotalTo(f, S, n) == /\ f = [s \in SUBSET S |-> f[s]]
                      /\ \A s \in SUBSET S : Cardinality(s) <= n => f[s] = StepOf(f, s)

LEMMA OneLess ==
  ASSUME NEW s, IsFiniteSet(s), NEW x \in s
  PROVE  /\ IsFiniteSet(s \ {x}) /\ Cardinality(s) \in Nat /\ Cardinality(s) # 0
         /\ Cardinality(s \ {x}) = Cardinality(s) - 1
BY FS_CardinalityType, FS_EmptySet, FS_RemoveElement

LEMMA ChosenIsIn == ASSUME NEW s, s # {} PROVE Chosen(s) \in s
BY DEF Chosen

LEMMA TotalExists ==
  ASSUME NEW S, IsFiniteSet(S)
  PROVE  \E f : IsTotal(f, S)
<1> DEFINE T == {n \in Nat : ~ \E f : IsTotalTo(f, S, n)}
<1>1. T = {}
  <2>1. SUFFICES ASSUME T # {} PROVE FALSE
    OBVIOUS
  <2>2. PICK k \in T : \A j \in T : k <= j
    BY <2>1, LeastElement
  <2>3. CASE k = 0
    <3> DEFINE g == [s \in SUBSET S |-> 0]
    <3>1. ASSUME NEW s \in SUBSET S, Cardinality(s) <= 0 PROVE g[s] = StepOf(g, s)
      <4>1. s = {}
        BY <3>1, FS_Subset, FS_CardinalityType, FS_EmptySet
      <4> QED BY <4>1 DEF StepOf
    <3>2. IsTotalTo(g, S, 0)
      BY <3>1 DEF IsTotalTo
    <3> QED BY <2>2, <2>3, <3>2
  <2>4. CASE k # 0
    <3>1. k \in Nat /\ k - 1 \in Nat /\ ~(k <= k - 1)
      BY <2>2, <2>4
    <3>2. PICK f : IsTotalTo(f, S, k - 1)
      BY <2>2, <3>1
    <3> DEFINE g == [s \in SUBSET S |-> IF Cardinality(s) = k THEN StepOf(f, s) ELSE f[s]]
    <3>3. \A s \in SUBSET S : g[s] = IF Cardinality(s) = k THEN StepOf(f, s) ELSE f[s]
      OBVIOUS
    <3>4. g = [s \in SUBSET S |-> g[s]]
      OBVIOUS
    <3> HIDE DEF g
    <3>5. ASSUME NEW s \in SUBSET S, Cardinality(s) <= k PROVE g[s] = StepOf(g, s)
      <4>1. IsFiniteSet(s) /\ Cardinality(s) \in Nat
        BY FS_Subset, FS_CardinalityType
      <4>2. StepOf(g, s) = StepOf(f, s)
        <5>1. CASE s = {}
          BY <5>1 DEF StepOf
        <5>2. CASE s # {}
          <6>1. PICK x \in s : x = Chosen(s)
            BY <5>2, ChosenIsIn
          <6>2. s \ {x} \in SUBSET S /\ Cardinality(s \ {x}) # k
            BY <3>1, <3>5, <4>1, OneLess
          <6>3. g[s \ {x}] = f[s \ {x}]
            BY <3>3, <6>2
          <6> QED BY <5>2, <6>1, <6>3 DEF StepOf
        <5> QED BY <5>1, <5>2
      <4>3. CASE Cardinality(s) = k
        BY <3>3, <4>2, <4>3
      <4>4. CASE Cardinality(s) # k
        <5>1. Cardinality(s) <= k - 1
          BY <3>1, <3>5, <4>1, <4>4
        <5>2. f[s] = StepOf(f, s)
          BY <3>2, <5>1 DEF IsTotalTo
        <5> QED BY <3>3, <4>2, <4>4, <5>2
      <4> QED BY <4>3, <4>4
    <3>6. IsTotalTo(g, S, k)
      BY <3>4, <3>5 DEF IsTotalTo
    <3> QED BY <2>2, <3>6
  <2> QED BY <2>3, <2>4
<1>2. Cardinality(S) \in Nat /\ \A s \in SUBSET S : Cardinality(s) <= Cardinality(S)
  BY FS_CardinalityType, FS_Subset
<1>3. PICK f : IsTotalTo(f, S, Cardinality(S))
  BY <1>1, <1>2
<1>4. f = [s \in SUBSET S |-> f[s]] /\ \A s \in SUBSET S : f[s] = StepOf(f, s)
  BY <1>2, <1>3 DEF IsTotalTo
<1>5. IsTotal(f, S)
  BY <1>4 DEF IsTotal
<1> QED BY <1>5

LEMMA TotalOfFacts ==
  ASSUME NEW S, IsFiniteSet(S)
  PROVE  \E f : IsTotal(f, S) /\ TotalOf(S) = f[S]
<1> DEFINE g == CHOOSE f : IsTotal(f, S)
<1>1. TotalOf(S) = g[S]
  BY DEF TotalOf, MapThenSumSet, MapThenFoldSet, IsTotal, StepOf, Chosen
<1>2. IsTotal(g, S)
  BY TotalExists
<1> QED BY <1>1, <1>2

\* A set of finite sets with an element has one of least cardinality.
LEMMA LeastSet ==
  ASSUME NEW T, T # {}, \A s \in T : IsFiniteSet(s)
  PROVE  \E s \in T : \A t \in T : Cardinality(s) <= Cardinality(t)
<1> DEFINE N == {Cardinality(s) : s \in T}
<1>1. N \in SUBSET Nat /\ N # {}
  BY FS_CardinalityType
<1>2. PICK k \in N : \A j \in N : k <= j
  BY <1>1, LeastElement
<1> QED BY <1>2

LEMMA TotalsAreNumbers ==
  ASSUME NEW S, Weighted(S), NEW f, IsTotal(f, S), NEW u \in SUBSET S
  PROVE  f[u] \in Nat
<1> DEFINE T == {s \in SUBSET S : f[s] \notin Nat}
<1>1. SUFFICES ASSUME T # {} PROVE FALSE
  OBVIOUS
<1>2. \A s \in T : IsFiniteSet(s)
  BY FS_Subset DEF Weighted
<1>3. PICK s \in T : \A t \in T : Cardinality(s) <= Cardinality(t)
  BY <1>1, <1>2, LeastSet
<1>4. f[s] = StepOf(f, s) /\ s \in SUBSET S /\ f[s] \notin Nat
  BY <1>3 DEF IsTotal
<1>5. CASE s = {}
  BY <1>4, <1>5 DEF StepOf
<1>6. CASE s # {}
  <2>1. PICK x \in s : x = Chosen(s)
    BY <1>6, ChosenIsIn
  <2>2. x.weight \in Nat /\ s \ {x} \in SUBSET S
    BY <1>4 DEF Weighted
  <2>3. ~(Cardinality(s) <= Cardinality(s \ {x}))
    BY <1>2, OneLess
  <2>4. f[s \ {x}] \in Nat
    BY <1>3, <2>2, <2>3
  <2>5. f[s] = x.weight + f[s \ {x}]
    BY <1>4, <1>6, <2>1 DEF StepOf
  <2> QED BY <1>4, <2>2, <2>4, <2>5
<1> QED BY <1>5, <1>6

\* Whichever element is taken out first, the total is the same.
LEMMA AnyIsFirst ==
  ASSUME NEW S, Weighted(S), NEW f, IsTotal(f, S), NEW u \in SUBSET S, NEW a \in u
  PROVE  f[u] = a.weight + f[u \ {a}]
<1> DEFINE T == {s \in SUBSET S : \E x \in s : f[s] # x.weight + f[s \ {x}]}
<1>1. SUFFICES ASSUME T # {} PROVE FALSE
  OBVIOUS
<1>2. \A s \in T : IsFiniteSet(s)
  BY FS_Subset DEF Weighted
<1>3. PICK s \in T : \A t \in T : Cardinality(s) <= Cardinality(t)
  BY <1>1, <1>2, LeastSet
<1>4. PICK x \in s : f[s] # x.weight + f[s \ {x}]
  BY <1>3
<1>5. f[s] = StepOf(f, s) /\ s \in SUBSET S /\ s # {} /\ IsFiniteSet(s)
  BY <1>2, <1>3, <1>4 DEF IsTotal
<1>6. PICK c \in s : c = Chosen(s)
  BY <1>5, ChosenIsIn
<1>7. f[s] = c.weight + f[s \ {c}]
  BY <1>5, <1>6 DEF StepOf
<1>8. CASE x = c
  BY <1>4, <1>7, <1>8
<1>9. CASE x # c
  <2>1. s \ {c} \in SUBSET S /\ s \ {x} \in SUBSET S /\ x \in s \ {c} /\ c \in s \ {x}
    BY <1>5, <1>9
  <2>2. s \ {c} \notin T /\ s \ {x} \notin T
    <3>1. \A y \in s : ~(Cardinality(s) <= Cardinality(s \ {y}))
      <4> HIDE DEF T
      <4> QED BY <1>5, OneLess
    <3> QED BY <1>3, <3>1
  <2>3. PICK r \in SUBSET S : r = (s \ {c}) \ {x} /\ r = (s \ {x}) \ {c}
    BY <1>5
  <2>4. f[s \ {c}] = x.weight + f[r] /\ f[s \ {x}] = c.weight + f[r]
    <3>1. \A t \in SUBSET S : t \notin T => \A y \in t : f[t] = y.weight + f[t \ {y}]
      OBVIOUS
    <3> HIDE DEF T
    <3>2. f[s \ {c}] = x.weight + f[(s \ {c}) \ {x}]
      BY <2>1, <2>2, <3>1, Zenon
    <3>3. f[s \ {x}] = c.weight + f[(s \ {x}) \ {c}]
      BY <2>1, <2>2, <3>1, Zenon
    <3> QED BY <2>3, <3>2, <3>3, Zenon
  <2>5. f[r] \in Nat /\ x.weight \in Nat /\ c.weight \in Nat
    BY <1>5, <2>3, TotalsAreNumbers DEF Weighted
  <2> QED BY <1>4, <1>7, <2>4, <2>5
<1> QED BY <1>8, <1>9

\* The recursions of a set and of a part of it agree.
LEMMA TotalsAgree ==
  ASSUME NEW S, IsFiniteSet(S), NEW f, IsTotal(f, S),
         NEW R \in SUBSET S, NEW g, IsTotal(g, R), NEW u \in SUBSET R
  PROVE  f[u] = g[u]
<1> DEFINE T == {s \in SUBSET R : f[s] # g[s]}
<1>1. SUFFICES ASSUME T # {} PROVE FALSE
  OBVIOUS
<1>2. \A s \in T : IsFiniteSet(s)
  BY FS_Subset
<1>3. PICK s \in T : \A t \in T : Cardinality(s) <= Cardinality(t)
  BY <1>1, <1>2, LeastSet
<1>4. f[s] = StepOf(f, s) /\ g[s] = StepOf(g, s) /\ f[s] # g[s]
  BY <1>3 DEF IsTotal
<1>5. CASE s = {}
  BY <1>4, <1>5 DEF StepOf
<1>6. CASE s # {}
  <2>1. PICK x \in s : x = Chosen(s)
    BY <1>6, ChosenIsIn
  <2>2. ~(Cardinality(s) <= Cardinality(s \ {x}))
    BY <1>2, OneLess
  <2>3. f[s \ {x}] = g[s \ {x}]
    BY <1>3, <2>2
  <2> QED BY <1>4, <1>6, <2>1, <2>3 DEF StepOf
<1> QED BY <1>5, <1>6

LEMMA TotalOfNone == TotalOf({}) = 0
<1>1. PICK f : IsTotal(f, {}) /\ TotalOf({}) = f[{}]
  BY TotalOfFacts, FS_EmptySet
<1> QED BY <1>1 DEF IsTotal, StepOf

LEMMA TotalOfType == ASSUME NEW S, Weighted(S) PROVE TotalOf(S) \in Nat
<1>1. PICK f : IsTotal(f, S) /\ TotalOf(S) = f[S]
  BY TotalOfFacts DEF Weighted
<1> QED BY <1>1, TotalsAreNumbers

LEMMA TotalOfOneMore ==
  ASSUME NEW S, Weighted(S), NEW a, a \notin S, a.weight \in Nat
  PROVE  Weighted(S \cup {a}) /\ TotalOf(S \cup {a}) = a.weight + TotalOf(S)
<1> DEFINE U == S \cup {a}
<1>1. Weighted(U)
  BY FS_AddElement DEF Weighted
<1>2. S \in SUBSET U /\ a \in U /\ U \ {a} = S
  OBVIOUS
<1> HIDE DEF U
<1>3. PICK f : IsTotal(f, U) /\ TotalOf(U) = f[U]
  BY <1>1, TotalOfFacts DEF Weighted
<1>4. PICK g : IsTotal(g, S) /\ TotalOf(S) = g[S]
  BY TotalOfFacts DEF Weighted
<1>5. f[S] = g[S]
  BY <1>1, <1>2, <1>3, <1>4, TotalsAgree DEF Weighted
<1>6. f[U] = a.weight + f[U \ {a}]
  BY <1>1, <1>2, <1>3, AnyIsFirst
<1> QED BY <1>1, <1>2, <1>3, <1>4, <1>5, <1>6 DEF U

\* The total of two sets that share nothing is the sum of theirs.
LEMMA TotalOfUnion ==
  ASSUME NEW A, NEW B, Weighted(A), Weighted(B), A \cap B = {}
  PROVE  TotalOf(A \cup B) = TotalOf(A) + TotalOf(B)
<1> DEFINE T == {s \in SUBSET B : TotalOf(A \cup s) # TotalOf(A) + TotalOf(s)}
<1>1. SUFFICES ASSUME T # {} PROVE FALSE
  OBVIOUS
<1>2. \A s \in SUBSET B : Weighted(s) /\ IsFiniteSet(s)
  BY FS_Subset DEF Weighted
<1>3. PICK s \in T : \A t \in T : Cardinality(s) <= Cardinality(t)
  BY <1>1, <1>2, LeastSet
<1>4. s \in SUBSET B /\ TotalOf(A \cup s) # TotalOf(A) + TotalOf(s) /\ TotalOf(A) \in Nat
  BY <1>3, TotalOfType
<1>5. CASE s = {}
  <2>1. A \cup s = A /\ TotalOf(s) = 0
    BY <1>5, TotalOfNone
  <2> QED BY <1>4, <2>1
<1>6. CASE s # {}
  <2>1. PICK x \in s : TRUE
    BY <1>6
  <2>2. PICK r \in SUBSET B : r = s \ {x}
    BY <1>4
  <2>3. ~(Cardinality(s) <= Cardinality(r))
    BY SMTT(20), <1>2, <1>4, <2>2, OneLess
  <2>4. TotalOf(A \cup r) = TotalOf(A) + TotalOf(r)
    BY <1>3, <2>3
  <2>5. x.weight \in Nat /\ x \notin r /\ x \notin A \cup r /\ s = r \cup {x} /\ A \cup s = (A \cup r) \cup {x}
    BY <1>4, <2>1, <2>2 DEF Weighted
  <2>6. Weighted(A \cup r) /\ Weighted(r)
    BY <1>2, FS_Union DEF Weighted
  <2>7. TotalOf(r \cup {x}) = x.weight + TotalOf(r)
    BY <2>5, <2>6, TotalOfOneMore
  <2>8. TotalOf((A \cup r) \cup {x}) = x.weight + TotalOf(A \cup r)
    BY <2>5, <2>6, TotalOfOneMore
  <2>9. PICK n \in Nat, m \in Nat, w \in Nat : n = TotalOf(A) /\ m = TotalOf(r) /\ w = x.weight
    BY <1>4, <2>5, <2>6, TotalOfType
  <2>10. TotalOf(s) = w + m /\ TotalOf(A \cup s) = w + (n + m)
    BY <2>4, <2>5, <2>7, <2>8, <2>9, Zenon
  <2>11. w + (n + m) = n + (w + m)
    OBVIOUS
  <2> QED BY <1>4, <2>9, <2>10, <2>11, Zenon
<1> QED BY <1>5, <1>6

\* What is in two sets totals at most what they do together; a part totals no more.
LEMMA TotalOfCovered ==
  ASSUME NEW A, NEW B, Weighted(A), Weighted(B), NEW X, X \subseteq A \cup B
  PROVE  TotalOf(X) <= TotalOf(A) + TotalOf(B)
<1>1. ASSUME NEW P, NEW Q, Weighted(Q), P \subseteq Q PROVE Weighted(P) /\ TotalOf(P) <= TotalOf(Q)
  <2>1. Weighted(P) /\ Weighted(Q \ P)
    BY <1>1, FS_Subset DEF Weighted
  <2>2. TotalOf(P \cup (Q \ P)) = TotalOf(P) + TotalOf(Q \ P)
    BY <2>1, TotalOfUnion
  <2>3. P \cup (Q \ P) = Q
    BY <1>1
  <2>4. PICK n \in Nat, m \in Nat : n = TotalOf(P) /\ m = TotalOf(Q \ P)
    BY <2>1, TotalOfType
  <2>5. TotalOf(Q) = n + m
    BY <2>2, <2>3, <2>4, Zenon
  <2>6. n <= n + m
    OBVIOUS
  <2> QED BY <2>1, <2>4, <2>5, <2>6, Zenon
<1>2. PICK Y : Y = B \ A
  OBVIOUS
<1>3. Weighted(Y) /\ TotalOf(Y) <= TotalOf(B)
  BY <1>1, <1>2
<1>4. TotalOf(A \cup Y) = TotalOf(A) + TotalOf(Y)
  BY <1>2, <1>3, TotalOfUnion
<1>5. Weighted(A \cup Y) /\ X \subseteq A \cup Y
  BY <1>2, <1>3, FS_Union DEF Weighted
<1>6. Weighted(X) /\ TotalOf(X) <= TotalOf(A \cup Y)
  BY <1>1, <1>5
<1>7. TotalOf(X) \in Nat /\ TotalOf(A) \in Nat /\ TotalOf(B) \in Nat /\ TotalOf(Y) \in Nat
  BY <1>3, <1>6, TotalOfType
<1> QED BY <1>3, <1>4, <1>6, <1>7

LEMMA TotalOfPart ==
  ASSUME NEW A, Weighted(A), NEW X, X \subseteq A
  PROVE  Weighted(X) /\ TotalOf(X) <= TotalOf(A)
<1>1. Weighted({}) /\ TotalOf({}) = 0
  BY FS_EmptySet, TotalOfNone DEF Weighted
<1>2. TotalOf(X) <= TotalOf(A) + TotalOf({})
  <2>1. X \subseteq A \cup {}
    OBVIOUS
  <2> QED BY <1>1, <2>1, TotalOfCovered
<1>3. Weighted(X)
  BY FS_Subset DEF Weighted
<1> QED BY <1>1, <1>2, <1>3, TotalOfType

-----------------------------------------------------------------------------
(* What a limiter lets through.                                            *)

Asking == {"calling", "evaluating", "sleeping", "failed"}
LimitCalls == [phase : Asking \cup {"idle", "passed", "answered", "thrown"}, weight : Nat,
               deadline : Int, wake : Int, retried : BOOLEAN]
Weighs(r) == /\ r.phase \in Asking => r.weight # 0
             /\ store = "memory" => r.phase \in {"idle", "sleeping", "answered"}
LimitTypes ==
  /\ store \in {"memory", "redis"} /\ instant \in Nat
  /\ used \in [Keys -> Nat] /\ reset \in [Keys -> Nat] /\ known \in BOOLEAN
  /\ client \in [Clients -> LimitCalls] /\ \A c \in Clients : Weighs(client[c])

\* The memory adapter has one window for all keys; a key of Redis counts while it
\* has a window, which ends within the time of one.
WindowsAreOpen ==
  /\ \A k \in Keys : reset[k] <= instant + Window
  /\ store = "memory" => \A j, k \in Keys : reset[j] = reset[k]
  /\ store = "redis" => \A k \in Keys : IF used[k] = 0 THEN reset[k] = 0 ELSE reset[k] > instant

\* Who was let through was so within its window, which is the current one of its
\* key or over before that began; and the windows of a key do not overlap.
Admissions == [by : Clients, key : Keys, weight : Nat, at : Nat, ends : Nat]
IsCurrentOrOver(a, r) == a.ends = r \/ (a.ends <= instant /\ (r = 0 \/ a.ends + Window <= r))
Apart(a, b) == a.ends = b.ends \/ a.ends + Window <= b.ends \/ b.ends + Window <= a.ends
AdmittedInWindows ==
  /\ admitted \subseteq Admissions /\ IsFiniteSet(admitted)
  /\ \A a \in admitted : /\ a.at < a.ends /\ a.ends <= a.at + Window /\ a.at <= instant
                         /\ IsCurrentOrOver(a, reset[a.key])
  /\ \A a, b \in admitted : a.key = b.key => Apart(a, b)

\* The current window of a key has counted all that it let through.
InWindow(A, k, e) == {a \in A : a.key = k /\ a.ends = e}
WindowsCount ==
  /\ \A k \in Keys : TotalOf(InWindow(admitted, k, reset[k])) <= used[k]
  /\ \A k \in Keys, e \in Nat : TotalOf(InWindow(admitted, k, e)) <= MaxRequests

LimitInv == LimitTypes /\ WindowsAreOpen /\ AdmittedInWindows /\ WindowsCount

LEMMA WindowsWeigh ==
  ASSUME AdmittedInWindows
  PROVE  /\ Weighted(admitted)
         /\ \A k, e : Weighted(InWindow(admitted, k, e)) /\ TotalOf(InWindow(admitted, k, e)) \in Nat
<1>1. Weighted(admitted)
  <2>1. \A a \in admitted : a \in Admissions
    BY DEF AdmittedInWindows
  <2>2. \A a \in admitted : a.weight \in Nat
    BY <2>1 DEF Admissions
  <2> QED BY <2>2 DEF AdmittedInWindows, Weighted
<1>2. ASSUME NEW k, NEW e PROVE Weighted(InWindow(admitted, k, e)) /\ TotalOf(InWindow(admitted, k, e)) \in Nat
  <2>1. InWindow(admitted, k, e) \subseteq admitted
    BY DEF InWindow
  <2> QED BY <1>1, <2>1, TotalOfPart, TotalOfType
<1> QED BY <1>1, <1>2

LEMMA TotalWithOne ==
  ASSUME NEW S, Weighted(S), NEW a, a.weight \in Nat
  PROVE  TotalOf(S \cup {a}) <= a.weight + TotalOf(S)
<1>1. PICK n \in Nat, w \in Nat : n = TotalOf(S) /\ w = a.weight
  BY TotalOfType
<1>2. n <= w + n /\ w + n <= w + n
  OBVIOUS
<1>3. CASE a \in S
  <2>1. S \cup {a} = S
    BY <1>3
  <2> QED BY <1>1, <1>2, <2>1, Zenon
<1>4. CASE a \notin S
  BY <1>1, <1>2, <1>4, TotalOfOneMore, Zenon
<1> QED BY <1>3, <1>4

\* A check that starts a window or goes on with one, and lets a call pass or not:
\* base is what the windows of that instant had counted before it.
LEMMA CheckKeeps ==
  ASSUME LimitTypes, AdmittedInWindows, WindowsCount,
         NEW c \in Clients, NEW w \in Nat, NEW success \in BOOLEAN,
         NEW r \in [Keys -> Nat], NEW base \in [Keys -> Nat],
         \A a \in admitted : IsCurrentOrOver(a, r[a.key]),
         \A j \in Keys : TotalOf(InWindow(admitted, j, r[j])) <= base[j],
         success => /\ instant < r[KeyOf[c]] /\ r[KeyOf[c]] <= instant + Window
                    /\ base[KeyOf[c]] + w <= MaxRequests,
         used' \in [Keys -> Nat], \A j \in Keys : base[j] <= used'[j],
         success => base[KeyOf[c]] + w <= used'[KeyOf[c]],
         reset' = r, instant' = instant, Admit(c, w, success)
  PROVE  AdmittedInWindows' /\ WindowsCount'
<1> DEFINE k == KeyOf[c]
<1>0. k \in Keys /\ r[k] \in Nat /\ instant \in Nat /\ Window \in Nat \ {0} /\ MaxRequests \in Nat
  BY LimitAssumption DEF Keys, LimitTypes
<1> HIDE DEF k
<1>1. CASE ~success
  <2>1. admitted' = admitted
    BY <1>1 DEF Admit
  <2>2. AdmittedInWindows'
    BY <2>1 DEF AdmittedInWindows, IsCurrentOrOver, Apart
  <2>4. ASSUME NEW j \in Keys PROVE TotalOf(InWindow(admitted', j, reset'[j])) <= used'[j]
    <3>1. PICK n \in Nat : n = TotalOf(InWindow(admitted, j, r[j]))
      BY WindowsWeigh
    <3>2. n <= base[j] /\ base[j] <= used'[j] /\ base[j] \in Nat /\ used'[j] \in Nat
      BY <3>1
    <3>3. TotalOf(InWindow(admitted', j, reset'[j])) = n
      BY <2>1, <3>1 DEF InWindow
    <3> QED BY <3>2, <3>3
  <2>5. ASSUME NEW j \in Keys, NEW e \in Nat PROVE TotalOf(InWindow(admitted', j, e)) <= MaxRequests
    <3>1. TotalOf(InWindow(admitted', j, e)) = TotalOf(InWindow(admitted, j, e))
      BY <2>1 DEF InWindow
    <3> QED BY <3>1 DEF WindowsCount
  <2> QED BY <2>2, <2>4, <2>5 DEF WindowsCount
<1>2. CASE success
  <2> DEFINE new == [by |-> c, key |-> k, weight |-> w, at |-> instant, ends |-> r[k]]
  <2>1. admitted' = admitted \cup {new}
    BY <1>2 DEF Admit, k
  <2>2. /\ new \in Admissions /\ new.key = k /\ new.weight = w /\ new.at = instant /\ new.ends = r[k]
    BY <1>0 DEF Admissions
  <2> HIDE DEF new
  <2>3. instant < r[k] /\ r[k] <= instant + Window /\ base[k] + w <= MaxRequests /\ base[k] + w <= used'[k]
    BY <1>2 DEF k
  <2>4. AdmittedInWindows'
    <3>1. admitted' \subseteq Admissions /\ IsFiniteSet(admitted')
      BY <2>1, <2>2, FS_AddElement DEF AdmittedInWindows
    <3>2. ASSUME NEW a \in admitted
          PROVE  a.at < a.ends /\ a.ends <= a.at + Window /\ a.at <= instant'
      BY <3>2 DEF AdmittedInWindows
    <3>3. new.at < new.ends /\ new.ends <= new.at + Window /\ new.at <= instant'
      BY <1>0, <2>2, <2>3
    <3>4. \A a \in admitted' : IsCurrentOrOver(a, reset[a.key])'
      BY <2>1, <2>2 DEF IsCurrentOrOver
    <3>5. ASSUME NEW a \in admitted, a.key = k PROVE Apart(a, new) /\ Apart(new, a)
      <4>1. IsCurrentOrOver(a, r[k])
        BY <3>5
      <4> QED BY <1>0, <2>2, <2>3, <4>1 DEF IsCurrentOrOver, Apart
    <3>6. Apart(new, new)
      BY DEF Apart
    <3>7. \A a, b \in admitted' : a.key = b.key => Apart(a, b)
      BY <2>1, <2>2, <3>5, <3>6 DEF AdmittedInWindows
    <3>8. \A a \in admitted' : a.at < a.ends /\ a.ends <= a.at + Window /\ a.at <= instant'
      BY <2>1, <3>2, <3>3
    <3> QED BY <3>1, <3>4, <3>7, <3>8 DEF AdmittedInWindows, Apart
  <2>5. InWindow(admitted', k, r[k]) = InWindow(admitted, k, r[k]) \cup {new}
    BY <2>1, <2>2 DEF InWindow
  <2>6. \A j, e : j # k \/ e # r[k] => InWindow(admitted', j, e) = InWindow(admitted, j, e)
    BY <2>1, <2>2 DEF InWindow
  <2>7. PICK n \in Nat, m \in Nat : /\ n = TotalOf(InWindow(admitted, k, r[k])) /\ m = TotalOf(InWindow(admitted', k, r[k]))
                                    /\ m <= w + n
    <3>1. TotalOf(InWindow(admitted, k, r[k]) \cup {new}) <= w + TotalOf(InWindow(admitted, k, r[k]))
      BY <2>2, WindowsWeigh, TotalWithOne
    <3>2. Weighted(InWindow(admitted, k, r[k]) \cup {new})
      BY <2>2, WindowsWeigh, FS_AddElement DEF Weighted
    <3>3. TotalOf(InWindow(admitted, k, r[k]) \cup {new}) \in Nat /\ TotalOf(InWindow(admitted, k, r[k])) \in Nat
      BY <3>2, WindowsWeigh, TotalOfType
    <3>4. TotalOf(InWindow(admitted', k, r[k])) = TotalOf(InWindow(admitted, k, r[k]) \cup {new})
      BY <2>5
    <3> QED BY <3>1, <3>3, <3>4
  <2>8. n <= base[k] /\ base[k] \in Nat /\ used'[k] \in Nat
    BY <1>0, <2>7
  <2>9. m <= used'[k] /\ m <= MaxRequests
    BY <1>0, <2>3, <2>7, <2>8
  <2>10. ASSUME NEW j \in Keys PROVE TotalOf(InWindow(admitted', j, reset'[j])) <= used'[j]
    <3>1. CASE j = k
      BY <2>7, <2>9, <3>1
    <3>2. CASE j # k
      <4>1. PICK i \in Nat : i = TotalOf(InWindow(admitted, j, r[j]))
        BY WindowsWeigh
      <4>2. i <= base[j] /\ base[j] <= used'[j] /\ base[j] \in Nat /\ used'[j] \in Nat
        BY <4>1
      <4>3. TotalOf(InWindow(admitted', j, reset'[j])) = i
        BY <2>6, <3>2, <4>1
      <4> QED BY <4>2, <4>3
    <3> QED BY <3>1, <3>2
  <2>11. ASSUME NEW j \in Keys, NEW e \in Nat PROVE TotalOf(InWindow(admitted', j, e)) <= MaxRequests
    <3>1. CASE j = k /\ e = r[k]
      BY <2>7, <2>9, <3>1
    <3>2. CASE j # k \/ e # r[k]
      <4>1. TotalOf(InWindow(admitted', j, e)) = TotalOf(InWindow(admitted, j, e))
        BY <2>6, <3>2
      <4> QED BY <4>1 DEF WindowsCount
    <3> QED BY <3>1, <3>2
  <2> QED BY <2>4, <2>10, <2>11 DEF WindowsCount
<1> QED BY <1>1, <1>2

\* A step that only takes a call on.
LEMMA CallsGoOn ==
  ASSUME LimitInv, UNCHANGED <<store, instant, used, reset, admitted>>, known' \in BOOLEAN,
         NEW c \in Clients, NEW r \in LimitCalls, Weighs(r), To(c, r)
  PROVE  LimitInv'
<1>1. client' \in [Clients -> LimitCalls] /\ \A d \in Clients : Weighs(client'[d])
  BY DEF LimitInv, LimitTypes, To
<1>2. LimitTypes'
  BY <1>1 DEF LimitInv, LimitTypes, Weighs
<1>3. WindowsAreOpen' /\ AdmittedInWindows' /\ WindowsCount'
  BY DEF LimitInv, WindowsAreOpen, AdmittedInWindows, WindowsCount, IsCurrentOrOver, Apart
<1> QED BY <1>2, <1>3 DEF LimitInv

LEMMA AnswerType ==
  ASSUME NEW r \in LimitCalls, NEW success \in BOOLEAN, NEW at \in Int, success \/ r.weight # 0
  PROVE  Answer(r, success, at) \in LimitCalls /\ Weighs(Answer(r, success, at))
<1>1. CASE success \/ TooLate(r, at)
  <2>1. Answer(r, success, at) = At("answered")
    BY <1>1 DEF Answer
  <2>2. At("answered") \in LimitCalls /\ At("answered").phase = "answered"
    BY DEF LimitCalls, At, NoDeadline
  <2> QED BY <2>1, <2>2 DEF Weighs, Asking
<1>2. CASE ~(success \/ TooLate(r, at))
  <2> DEFINE s == [r EXCEPT !.phase = "sleeping", !.wake = at]
  <2>1. Answer(r, success, at) = s
    BY <1>2 DEF Answer
  <2>2. s \in LimitCalls /\ s.phase = "sleeping" /\ s.weight = r.weight
    BY DEF LimitCalls, Asking
  <2> HIDE DEF s
  <2> QED BY <1>2, <2>1, <2>2 DEF Weighs
<1> QED BY <1>1, <1>2

\* The memory adapter checks.
LEMMA MemoryCheckKeeps ==
  ASSUME LimitInv, store = "memory", NEW c \in Clients, NEW r \in LimitCalls, r.weight # 0,
         MemoryCheck(c, r)
  PROVE  LimitInv'
<1> DEFINE k == KeyOf[c]
           base == IF IsOver(k) THEN [j \in Keys |-> 0] ELSE used
           ends == IF IsOver(k) THEN [j \in Keys |-> instant + Window] ELSE reset
           success == Fits(base[k], r.weight)
<1>0. /\ k \in Keys /\ instant \in Nat /\ Window \in Nat \ {0} /\ MaxRequests \in Nat
      /\ used \in [Keys -> Nat] /\ reset \in [Keys -> Nat] /\ r.weight \in Nat
  BY LimitAssumption DEF Keys, LimitTypes, LimitInv, LimitCalls
<1>1. base \in [Keys -> Nat] /\ ends \in [Keys -> Nat] /\ success \in BOOLEAN
  BY <1>0 DEF Fits
<1>2. /\ used' = [base EXCEPT ![k] = @ + (IF success THEN r.weight ELSE 0)]
      /\ reset' = ends
      /\ client' = [client EXCEPT ![c] = Answer(r, success, reset'[k])]
      /\ Admit(c, r.weight, success)
      /\ UNCHANGED <<store, instant, loaded, known, flushes>>
  BY DEF MemoryCheck
<1>3. \A j \in Keys : reset[j] = reset[k]
  BY <1>0 DEF LimitInv, WindowsAreOpen
<1>4. \A j \in Keys : ends[j] = ends[k] /\ ends[j] <= instant + Window /\ instant < ends[j]
  BY <1>0, <1>3 DEF IsOver, LimitInv, WindowsAreOpen
<1>5. \A a \in admitted : a.key \in Keys /\ a.ends \in Nat
  <2>1. \A a \in admitted : a \in Admissions
    BY DEF LimitInv, AdmittedInWindows
  <2> QED BY <2>1 DEF Admissions
<1>6. \A a \in admitted : IsCurrentOrOver(a, reset[a.key])
  BY DEF LimitInv, AdmittedInWindows
<1>7. \A a \in admitted : IsCurrentOrOver(a, ends[a.key])
  <2>1. CASE IsOver(k)
    <3>1. ASSUME NEW a \in admitted PROVE a.ends <= instant /\ ends[a.key] = instant + Window
      <4>1. reset[a.key] <= instant /\ IsCurrentOrOver(a, reset[a.key]) /\ reset[a.key] \in Nat
        BY <1>0, <1>3, <1>5, <1>6, <2>1 DEF IsOver
      <4> QED BY <1>0, <1>5, <2>1, <4>1 DEF IsCurrentOrOver
    <3> QED BY <1>0, <1>5, <3>1 DEF IsCurrentOrOver
  <2>2. CASE ~IsOver(k)
    BY <1>6, <2>2
  <2> QED BY <2>1, <2>2
<1>8. ASSUME NEW j \in Keys PROVE TotalOf(InWindow(admitted, j, ends[j])) <= base[j]
  <2>1. CASE IsOver(k)
    <3>1. ASSUME NEW a \in admitted, a.key = j PROVE a.ends # ends[j]
      <4>1. reset[j] <= instant /\ IsCurrentOrOver(a, reset[j]) /\ reset[j] \in Nat /\ ends[j] = instant + Window
        BY <1>0, <1>3, <1>6, <2>1, <3>1 DEF IsOver
      <4> QED BY <1>0, <1>5, <3>1, <4>1 DEF IsCurrentOrOver
    <3>2. InWindow(admitted, j, ends[j]) = {}
      BY <3>1 DEF InWindow
    <3>3. base[j] = 0 /\ TotalOf(InWindow(admitted, j, ends[j])) = 0
      BY <2>1, <3>2, TotalOfNone
    <3> HIDE DEF base, ends
    <3> QED BY <3>3
  <2>2. CASE ~IsOver(k)
    BY <2>2 DEF LimitInv, WindowsCount
  <2> QED BY <2>1, <2>2
<1>9. success => base[k] + r.weight <= MaxRequests
  BY DEF Fits
<1> HIDE DEF base, ends, success
<1>10. used' \in [Keys -> Nat] /\ \A j \in Keys : base[j] <= used'[j]
  BY <1>0, <1>1, <1>2
<1>11. success => base[k] + r.weight <= used'[k]
  BY <1>0, <1>1, <1>2
<1>12. AdmittedInWindows' /\ WindowsCount'
  <2>1. success => /\ instant < ends[KeyOf[c]] /\ ends[KeyOf[c]] <= instant + Window
                   /\ base[KeyOf[c]] + r.weight <= MaxRequests
    BY <1>0, <1>4, <1>9
  <2>2. LimitTypes /\ AdmittedInWindows /\ WindowsCount
    BY DEF LimitInv
  <2> QED BY <1>0, <1>1, <1>2, <1>7, <1>8, <1>10, <1>11, <2>1, <2>2, CheckKeeps
<1>13. WindowsAreOpen'
  <2>1. \A i, j \in Keys : ends[i] = ends[j]
    BY <1>0, <1>4
  <2> QED BY <1>0, <1>2, <1>4, <2>1 DEF WindowsAreOpen
<1>14. LimitTypes'
  <2>1. reset'[k] \in Int
    BY <1>0, <1>1, <1>2
  <2>2. Answer(r, success, reset'[k]) \in LimitCalls /\ Weighs(Answer(r, success, reset'[k]))
    BY <1>0, <1>1, <2>1, AnswerType
  <2>3. client' \in [Clients -> LimitCalls] /\ \A d \in Clients : Weighs(client'[d])
    BY <1>2, <2>2 DEF LimitInv, LimitTypes
  <2> QED BY <1>0, <1>1, <1>2, <1>10, <2>3 DEF LimitInv, LimitTypes, Weighs
<1> QED BY <1>12, <1>13, <1>14 DEF LimitInv

LEMMA StartKeeps ==
  ASSUME LimitInv, NEW c \in Clients, NEW r \in LimitCalls, r.weight # 0, Start(c, r)
  PROVE  LimitInv'
<1>1. CASE store = "memory"
  <2>1. MemoryCheck(c, r)
    BY <1>1 DEF Start
  <2> QED BY <1>1, <2>1, MemoryCheckKeeps
<1>2. CASE store # "memory"
  <2> DEFINE s == [r EXCEPT !.phase = Evaluates(known), !.wake = 0]
  <2>1. To(c, s) /\ UNCHANGED <<store, instant, used, reset, loaded, known, flushes, admitted>>
    BY <1>2 DEF Start
  <2>2. s \in LimitCalls /\ Weighs(s)
    <3>1. PICK p \in {"evaluating", "calling"} : p = Evaluates(known)
      BY DEF Evaluates
    <3>2. s = [r EXCEPT !.phase = p, !.wake = 0]
      BY <3>1
    <3> HIDE DEF s
    <3>3. \A i \in Int : /\ [r EXCEPT !.phase = "evaluating", !.wake = i] \in LimitCalls
                         /\ [r EXCEPT !.phase = "calling", !.wake = i] \in LimitCalls
      BY DEF LimitCalls, Asking
    <3>4. s \in LimitCalls
      <4>1. 0 \in Int
        OBVIOUS
      <4> QED BY <3>1, <3>2, <3>3, <4>1, Zenon
    <3>5. s.weight = r.weight
      BY <3>2 DEF LimitCalls
    <3> QED BY <1>2, <3>4, <3>5 DEF Weighs
  <2>3. known' \in BOOLEAN
    BY <2>1 DEF LimitInv, LimitTypes
  <2> HIDE DEF s
  <2> QED BY <2>1, <2>2, <2>3, CallsGoOn
<1> QED BY <1>1, <1>2

\* Redis runs the script.
LEMMA EvaluateKeeps ==
  ASSUME LimitInv, NEW c \in Clients, Evaluate(c)
  PROVE  LimitInv'
<1> DEFINE k == KeyOf[c]
           w == client[c].weight
           u == used[k] + w
           ends == [reset EXCEPT ![k] = IF u = w THEN instant + Window ELSE @]
           success == Fits(u, 0)
           next == IF success THEN At("passed")
                   ELSE [client[c] EXCEPT !.phase = "failed", !.wake = ends[k] - instant, !.retried = FALSE]
<1>0. /\ k \in Keys /\ instant \in Nat /\ Window \in Nat \ {0} /\ MaxRequests \in Nat
      /\ used \in [Keys -> Nat] /\ reset \in [Keys -> Nat] /\ client[c] \in LimitCalls
  BY LimitAssumption DEF Keys, LimitTypes, LimitInv
<1>1. client[c].phase = "evaluating" /\ w \in Nat /\ w # 0 /\ used[k] \in Nat /\ store = "redis"
  BY <1>0 DEF LimitTypes, LimitInv, LimitCalls, Weighs, Evaluate, Asking
<1>2. /\ used' = [used EXCEPT ![k] = u] /\ reset' = ends /\ To(c, next) /\ Admit(c, w, success)
      /\ UNCHANGED <<store, instant, loaded, known, flushes>>
  BY DEF Evaluate
<1>3. IF used[k] = 0 THEN reset[k] = 0 /\ ends[k] = instant + Window ELSE ends[k] = reset[k] /\ reset[k] > instant
  BY <1>0, <1>1 DEF LimitInv, WindowsAreOpen
<1>4. ends \in [Keys -> Nat] /\ success \in BOOLEAN /\ \A j \in Keys : j # k => ends[j] = reset[j]
  BY <1>0 DEF Fits
<1>5. success => used[k] + w <= MaxRequests
  BY <1>0, <1>1 DEF Fits
<1>6. next \in LimitCalls /\ Weighs(next)
  <2>1. ends[k] - instant \in Int
    BY <1>0, <1>4
  <2> HIDE DEF ends, success
  <2>2. CASE success
    BY <1>1, <2>2 DEF LimitCalls, At, NoDeadline, Weighs, Asking
  <2>3. CASE ~success
    <3>1. PICK i \in Int : i = ends[k] - instant
      BY <2>1
    <3>2. next = [client[c] EXCEPT !.phase = "failed", !.wake = i, !.retried = FALSE]
      BY <2>3, <3>1
    <3> HIDE DEF next
    <3>3. next \in LimitCalls /\ next.weight = client[c].weight
      BY <1>0, <3>2 DEF LimitCalls, Asking
    <3> QED BY <1>1, <3>3 DEF Weighs
  <2> QED BY <2>2, <2>3
<1>7. ends[k] > instant /\ \A j \in Keys : ends[j] <= instant + Window
  <2>1. ends[k] > instant /\ ends[k] <= instant + Window
    BY <1>0, <1>3 DEF LimitInv, WindowsAreOpen
  <2>2. \A j \in Keys : reset[j] <= instant + Window
    BY DEF LimitInv, WindowsAreOpen
  <2> HIDE DEF ends
  <2> QED BY <1>4, <2>1, <2>2
<1>8. /\ u = used[k] + w /\ w = client[c].weight
  OBVIOUS
<1> HIDE DEF ends, success, next, u
<1>9. \A a \in admitted : a.key \in Keys /\ a.ends \in Nat /\ a.at \in Nat /\ a.at < a.ends /\ IsCurrentOrOver(a, reset[a.key])
  <2>1. \A a \in admitted : a \in Admissions
    BY DEF LimitInv, AdmittedInWindows
  <2> QED BY <2>1 DEF Admissions, LimitInv, AdmittedInWindows
<1>10. \A a \in admitted : IsCurrentOrOver(a, ends[a.key])
  <2>1. ASSUME NEW a \in admitted, a.key = k, used[k] = 0 PROVE IsCurrentOrOver(a, ends[k])
    <3>1. a.ends <= instant
      BY <1>0, <1>3, <1>9, <2>1 DEF IsCurrentOrOver
    <3> QED BY <1>0, <1>3, <1>9, <2>1, <3>1 DEF IsCurrentOrOver
  <2> QED BY <1>3, <1>4, <1>9, <2>1
<1>11. ASSUME NEW j \in Keys PROVE TotalOf(InWindow(admitted, j, ends[j])) <= used[j]
  <2>1. CASE j = k /\ used[k] = 0
    <3>1. ASSUME NEW a \in admitted, a.key = k PROVE a.ends # ends[k]
      <4>1. a.ends <= instant
        BY <1>0, <1>3, <1>9, <2>1, <3>1 DEF IsCurrentOrOver
      <4> QED BY <1>0, <1>7, <1>9, <4>1
    <3>2. InWindow(admitted, j, ends[j]) = {}
      BY <2>1, <3>1 DEF InWindow
    <3>3. TotalOf(InWindow(admitted, j, ends[j])) = 0
      BY <3>2, TotalOfNone
    <3> QED BY <2>1, <3>3
  <2>2. CASE ends[j] = reset[j]
    BY <2>2 DEF LimitInv, WindowsCount
  <2> QED BY <1>3, <1>4, <2>1, <2>2
<1>12. used' \in [Keys -> Nat] /\ (\A j \in Keys : used[j] <= used'[j]) /\ used'[k] = used[k] + w
  BY <1>0, <1>1, <1>2, <1>8
<1>13. AdmittedInWindows' /\ WindowsCount'
  <2>1. /\ success => /\ instant < ends[KeyOf[c]] /\ ends[KeyOf[c]] <= instant + Window
                      /\ used[KeyOf[c]] + w <= MaxRequests
        /\ success => used[KeyOf[c]] + w <= used'[KeyOf[c]]
    BY <1>0, <1>1, <1>4, <1>5, <1>7, <1>12
  <2>2. LimitTypes /\ AdmittedInWindows /\ WindowsCount
    BY DEF LimitInv
  <2> HIDE DEF w, k
  <2> QED BY <1>0, <1>1, <1>2, <1>4, <1>10, <1>11, <1>12, <2>1, <2>2, CheckKeeps
<1>14. WindowsAreOpen'
  <2>1. ASSUME NEW j \in Keys PROVE IF used'[j] = 0 THEN ends[j] = 0 ELSE ends[j] > instant
    <3>1. CASE j = k
      BY <1>1, <1>7, <1>12, <3>1
    <3>2. CASE j # k
      <4>1. used'[j] = used[j] /\ ends[j] = reset[j]
        BY <1>0, <1>2, <1>4, <3>2
      <4>2. IF used[j] = 0 THEN reset[j] = 0 ELSE reset[j] > instant
        BY <1>1 DEF LimitInv, WindowsAreOpen
      <4> QED BY <4>1, <4>2
    <3> QED BY <3>1, <3>2
  <2> QED BY <1>1, <1>2, <1>7, <2>1 DEF WindowsAreOpen
<1>15. LimitTypes'
  <2>1. client' \in [Clients -> LimitCalls] /\ \A d \in Clients : Weighs(client'[d])
    BY <1>2, <1>6 DEF LimitInv, LimitTypes, To
  <2> QED BY <1>0, <1>2, <1>4, <1>12, <2>1 DEF LimitInv, LimitTypes, Weighs
<1> QED BY <1>13, <1>14, <1>15 DEF LimitInv

\* Time passes: Redis deletes what expires.
LEMMA TimeKeeps == ASSUME LimitInv, TimePasses PROVE LimitInv'
<1>0. /\ instant \in Nat /\ used \in [Keys -> Nat] /\ reset \in [Keys -> Nat] /\ Window \in Nat \ {0}
      /\ MaxRequests \in Nat /\ store \in {"memory", "redis"}
  BY LimitAssumption DEF LimitTypes, LimitInv
<1>1. /\ instant' = instant + 1 /\ admitted' = {a \in admitted : instant' < a.at + Window}
      /\ UNCHANGED <<store, client, loaded, known, flushes>>
  BY DEF TimePasses
<1>2. /\ used' \in [Keys -> Nat] /\ reset' \in [Keys -> Nat]
      /\ store = "memory" => used' = used /\ reset' = reset
      /\ store = "redis" => \A k \in Keys : IF reset[k] <= instant' THEN used'[k] = 0 /\ reset'[k] = 0
                                            ELSE used'[k] = used[k] /\ reset'[k] = reset[k]
  <2>1. CASE store = "memory"
    BY <1>0, <2>1 DEF TimePasses
  <2>2. CASE store = "redis"
    <3>1. /\ used' = [k \in Keys |-> IF reset[k] <= instant' THEN 0 ELSE used[k]]
          /\ reset' = [k \in Keys |-> IF reset[k] <= instant' THEN 0 ELSE reset[k]]
      BY <2>2 DEF TimePasses
    <3> QED BY <1>0, <2>2, <3>1
  <2> QED BY <1>0, <2>1, <2>2
<1>3. \A k \in Keys : \/ used'[k] = used[k] /\ reset'[k] = reset[k]
                      \/ used'[k] = 0 /\ reset'[k] = 0 /\ reset[k] <= instant'
  BY <1>0, <1>2
<1>4. \A a \in admitted : /\ a \in Admissions /\ a.key \in Keys /\ a.ends \in Nat /\ a.at \in Nat
                          /\ a.at < a.ends /\ a.ends <= a.at + Window /\ a.at <= instant
                          /\ IsCurrentOrOver(a, reset[a.key])
  <2>1. \A a \in admitted : a \in Admissions
    BY DEF LimitInv, AdmittedInWindows
  <2> QED BY <2>1 DEF Admissions, LimitInv, AdmittedInWindows
<1>5. LimitTypes'
  BY <1>0, <1>1, <1>2 DEF LimitInv, LimitTypes, Weighs
<1>6. WindowsAreOpen'
  <2>1. \A k \in Keys : reset'[k] <= instant' + Window
    <3>1. \A k \in Keys : reset[k] <= instant + Window
      BY DEF LimitInv, WindowsAreOpen
    <3> QED BY <1>0, <1>1, <1>3, <3>1
  <2>2. store = "memory" => \A j, k \in Keys : reset'[j] = reset'[k]
    BY <1>2 DEF LimitInv, WindowsAreOpen
  <2>3. ASSUME store = "redis", NEW k \in Keys
        PROVE  IF used'[k] = 0 THEN reset'[k] = 0 ELSE reset'[k] > instant'
    <3>1. IF used[k] = 0 THEN reset[k] = 0 ELSE reset[k] > instant
      BY <2>3 DEF LimitInv, WindowsAreOpen
    <3> QED BY <1>0, <1>1, <1>2, <2>3, <3>1
  <2> QED BY <1>1, <2>1, <2>2, <2>3 DEF WindowsAreOpen
<1>7. AdmittedInWindows'
  <2>1. admitted' \subseteq admitted
    BY <1>1
  <2>2. admitted' \subseteq Admissions /\ IsFiniteSet(admitted')
    BY <1>4, <2>1, FS_Subset DEF LimitInv, AdmittedInWindows
  <2>3. ASSUME NEW a \in admitted PROVE IsCurrentOrOver(a, reset[a.key])'
    <3>1. IsCurrentOrOver(a, reset[a.key]) /\ a.key \in Keys /\ a.ends \in Nat
      BY <1>4
    <3>2. PICK k \in Keys : k = a.key
      BY <3>1
    <3>3. CASE reset'[k] = reset[k]
      <4>1. a.ends = reset[k] \/ (a.ends <= instant /\ (reset[k] = 0 \/ a.ends + Window <= reset[k]))
        BY <3>1, <3>2 DEF IsCurrentOrOver
      <4>2. a.ends <= instant => a.ends <= instant'
        BY <1>0, <1>1, <3>1
      <4>3. a.ends = reset'[k] \/ (a.ends <= instant' /\ (reset'[k] = 0 \/ a.ends + Window <= reset'[k]))
        BY <3>3, <4>1, <4>2, Zenon
      <4> QED BY <3>2, <4>3 DEF IsCurrentOrOver
    <3>4. CASE reset'[k] = 0 /\ reset[k] <= instant'
      <4>1. a.ends <= instant'
        BY <1>0, <1>1, <3>1, <3>2, <3>4 DEF IsCurrentOrOver
      <4>2. a.ends = reset'[k] \/ (a.ends <= instant' /\ (reset'[k] = 0 \/ a.ends + Window <= reset'[k]))
        BY <3>4, <4>1
      <4> QED BY <3>2, <4>2 DEF IsCurrentOrOver
    <3> QED BY <1>3, <3>3, <3>4
  <2>4. ASSUME NEW a \in admitted PROVE a.at < a.ends /\ a.ends <= a.at + Window /\ a.at <= instant'
    BY <1>0, <1>1, <1>4
  <2>5. \A a, b \in admitted : a.key = b.key => Apart(a, b)
    BY DEF LimitInv, AdmittedInWindows
  <2>6. \A a, b \in admitted' : a.key = b.key => Apart(a, b)'
    BY <2>1, <2>5 DEF Apart
  <2> QED BY <2>1, <2>2, <2>3, <2>4, <2>6 DEF AdmittedInWindows
<1>8. ASSUME NEW k, NEW e PROVE /\ TotalOf(InWindow(admitted', k, e)) <= TotalOf(InWindow(admitted, k, e))
                                /\ TotalOf(InWindow(admitted', k, e)) \in Nat /\ TotalOf(InWindow(admitted, k, e)) \in Nat
  <2>1. InWindow(admitted', k, e) \subseteq InWindow(admitted, k, e)
    BY <1>1 DEF InWindow
  <2>2. Weighted(InWindow(admitted, k, e)) /\ TotalOf(InWindow(admitted, k, e)) \in Nat
    BY WindowsWeigh DEF LimitInv
  <2> QED BY <2>1, <2>2, TotalOfPart, TotalOfType
<1>9. ASSUME NEW k \in Keys PROVE TotalOf(InWindow(admitted', k, reset'[k])) <= used'[k]
  <2>1. PICK n \in Nat, m \in Nat : /\ n = TotalOf(InWindow(admitted, k, reset[k])) /\ m <= n
                                    /\ m = TotalOf(InWindow(admitted', k, reset[k]))
    BY <1>8
  <2>2. CASE used'[k] = used[k] /\ reset'[k] = reset[k]
    <3>1. n <= used[k] /\ used[k] \in Nat
      BY <1>0, <2>1 DEF LimitInv, WindowsCount
    <3>2. m <= used'[k]
      BY <2>1, <2>2, <3>1
    <3> QED BY <2>1, <2>2, <3>2
  <2>3. CASE used'[k] = 0 /\ reset'[k] = 0
    <3>1. \A a \in admitted' : a.ends # 0
      BY <1>1, <1>4
    <3>2. InWindow(admitted', k, reset'[k]) = {}
      BY <2>3, <3>1 DEF InWindow
    <3>3. 0 <= 0
      OBVIOUS
    <3> QED BY <2>3, <3>2, <3>3, TotalOfNone, Zenon
  <2> QED BY <1>3, <2>2, <2>3
<1>10. ASSUME NEW k \in Keys, NEW e \in Nat PROVE TotalOf(InWindow(admitted', k, e)) <= MaxRequests
  <2>1. PICK n \in Nat, m \in Nat : /\ n = TotalOf(InWindow(admitted, k, e)) /\ m <= n
                                    /\ m = TotalOf(InWindow(admitted', k, e))
    BY <1>8
  <2>2. n <= MaxRequests
    BY <2>1 DEF LimitInv, WindowsCount
  <2>3. m <= MaxRequests
    BY <1>0, <2>1, <2>2
  <2> QED BY <2>1, <2>3
<1> QED BY <1>5, <1>6, <1>7, <1>9, <1>10 DEF LimitInv, WindowsCount

LEMMA LimitStep == LimitInv /\ [LimitNext]_limitVars => LimitInv'
<1> SUFFICES ASSUME LimitInv, [LimitNext]_limitVars PROVE LimitInv'
  OBVIOUS
<1>0. client \in [Clients -> LimitCalls] /\ (\A c \in Clients : Weighs(client[c])) /\ known \in BOOLEAN
  BY DEF LimitInv, LimitTypes
<1>1. ASSUME NEW c \in Clients, Limit(c) PROVE LimitInv'
  <2>1. PICK d \in {NoDeadline, instant + Timeout} :
          Start(c, [At("calling") EXCEPT !.weight = WeightOf[c], !.deadline = d])
    BY <1>1 DEF Limit
  <2>2. d \in Int /\ WeightOf[c] \in Nat /\ WeightOf[c] # 0
    BY LimitAssumption DEF NoDeadline, LimitInv, LimitTypes
  <2> DEFINE r == [At("calling") EXCEPT !.weight = WeightOf[c], !.deadline = d]
  <2>3. r \in LimitCalls /\ r.weight # 0
    <3>1. PICK s \in LimitCalls : s = At("calling")
      <4>1. At("calling") \in LimitCalls
        BY DEF At, LimitCalls, Asking, NoDeadline
      <4> QED BY <4>1
    <3>2. PICK w \in Nat : w = WeightOf[c] /\ w # 0
      BY <2>2
    <3>3. [s EXCEPT !.weight = w, !.deadline = d] \in LimitCalls
      BY <2>2 DEF LimitCalls
    <3>4. [s EXCEPT !.weight = w, !.deadline = d].weight = w
      BY DEF LimitCalls
    <3> QED BY <3>1, <3>2, <3>3, <3>4
  <2> HIDE DEF r
  <2> QED BY <2>1, <2>3, StartKeeps DEF r
<1>2. ASSUME NEW c \in Clients, WakeUp(c) PROVE LimitInv'
  <2>1. client[c] \in LimitCalls /\ client[c].weight # 0 /\ Start(c, client[c])
    BY <1>0, <1>2 DEF WakeUp, Weighs, Asking
  <2> QED BY <2>1, StartKeeps
<1>3. ASSUME NEW c \in Clients, LoadScript(c) PROVE LimitInv'
  <2> DEFINE r == [client[c] EXCEPT !.phase = "evaluating"]
  <2>1. To(c, r) /\ known' = TRUE /\ UNCHANGED <<store, instant, used, reset, flushes, admitted>>
    BY <1>3 DEF LoadScript
  <2>2. client[c] \in LimitCalls /\ client[c].weight # 0 /\ store # "memory"
    BY <1>0, <1>3 DEF LoadScript, Weighs, Asking
  <2>3. r \in LimitCalls /\ r.weight = client[c].weight
    BY <2>2 DEF LimitCalls, Asking
  <2> HIDE DEF r
  <2>4. Weighs(r)
    BY <2>2, <2>3 DEF Weighs
  <2> QED BY <2>1, <2>3, <2>4, CallsGoOn
<1>4. ASSUME NEW c \in Clients, Evaluate(c) PROVE LimitInv'
  BY <1>4, EvaluateKeeps
<1>5. ASSUME NEW c \in Clients, Reply(c) PROVE LimitInv'
  <2> DEFINE success == client[c].phase = "passed"
             at == instant + client[c].wake
  <2>1. /\ To(c, Answer(client[c], success, at))
        /\ UNCHANGED <<store, instant, used, reset, loaded, known, flushes, admitted>>
        /\ client[c] \in LimitCalls /\ (success \/ client[c].weight # 0) /\ success \in BOOLEAN
    BY <1>0, <1>5 DEF Reply, Weighs, Asking
  <2>2. at \in Int
    BY <2>1 DEF LimitCalls, LimitInv, LimitTypes
  <2> HIDE DEF success, at
  <2>3. Answer(client[c], success, at) \in LimitCalls /\ Weighs(Answer(client[c], success, at))
    BY <2>1, <2>2, AnswerType
  <2> QED BY <1>0, <2>1, <2>3, CallsGoOn
<1>6. ASSUME NEW c \in Clients, NoScript(c) PROVE LimitInv'
  <2>1. client[c] \in LimitCalls /\ client[c].weight # 0 /\ store # "memory" /\ known' \in BOOLEAN
    BY <1>0, <1>6 DEF NoScript, KnownAfter, Weighs, Asking, LimitCalls
  <2>2. UNCHANGED <<store, instant, used, reset, loaded, flushes, admitted>>
    BY <1>6 DEF NoScript
  <2>3. CASE client[c].retried
    <3>1. To(c, At("thrown"))
      BY <1>6, <2>3 DEF NoScript
    <3>2. At("thrown") \in LimitCalls /\ Weighs(At("thrown"))
      BY <2>1 DEF LimitCalls, At, NoDeadline, Weighs, Asking
    <3> QED BY <2>1, <2>2, <3>1, <3>2, CallsGoOn
  <2>4. CASE ~client[c].retried
    <3>1. PICK p \in {"evaluating", "calling"} : p = Evaluates(known')
      BY DEF Evaluates
    <3>2. To(c, [client[c] EXCEPT !.phase = p, !.retried = TRUE])
      BY <1>6, <2>4, <3>1 DEF NoScript
    <3> DEFINE r == [client[c] EXCEPT !.phase = p, !.retried = TRUE]
    <3>3. /\ [client[c] EXCEPT !.phase = "evaluating", !.retried = TRUE] \in LimitCalls
          /\ [client[c] EXCEPT !.phase = "calling", !.retried = TRUE] \in LimitCalls
      BY <2>1 DEF LimitCalls, Asking
    <3>4. r \in LimitCalls
      BY <3>1, <3>3
    <3>5. r.weight = client[c].weight
      BY <2>1 DEF LimitCalls
    <3> HIDE DEF r
    <3>6. Weighs(r)
      BY <2>1, <3>5 DEF Weighs
    <3> QED BY <2>1, <2>2, <3>2, <3>4, <3>6, CallsGoOn DEF r
  <2> QED BY <2>3, <2>4
<1>7. CASE Flush
  <2>1. UNCHANGED <<store, instant, used, reset, client, known, admitted>>
    BY <1>7 DEF Flush
  <2> QED BY <2>1 DEF LimitInv, LimitTypes, WindowsAreOpen, AdmittedInWindows, WindowsCount, IsCurrentOrOver, Apart, Weighs
<1>8. CASE TimePasses
  BY <1>8, TimeKeeps
<1>9. CASE UNCHANGED limitVars
  BY <1>9 DEF limitVars, LimitInv, LimitTypes, WindowsAreOpen, AdmittedInWindows, WindowsCount, IsCurrentOrOver, Apart, Weighs
<1> QED BY <1>1, <1>2, <1>3, <1>4, <1>5, <1>6, <1>7, <1>8, <1>9 DEF LimitNext, Proceed

\* Windows that do not overlap: a span as long as one meets two of them at most.
LEMMA SpanMeetsTwo ==
  ASSUME LimitInv, NEW a \in admitted, NEW b \in admitted, NEW c \in admitted,
         b.key = a.key, c.key = a.key, b.ends # a.ends, c.ends # a.ends,
         b.at \in a.at..a.at + Window - 1, c.at \in a.at..a.at + Window - 1
  PROVE  b.ends = c.ends
<1>1. Window \in Nat \ {0}
  BY LimitAssumption
<1>2. ASSUME NEW d \in admitted PROVE /\ d.at \in Nat /\ d.ends \in Nat /\ d.at < d.ends /\ d.ends <= d.at + Window
  <2>1. d \in Admissions
    BY DEF LimitInv, AdmittedInWindows
  <2> QED BY <2>1 DEF Admissions, LimitInv, AdmittedInWindows
<1>3. Apart(a, b) /\ Apart(a, c) /\ Apart(b, c)
  BY DEF LimitInv, AdmittedInWindows
<1>4. ASSUME NEW d \in admitted, Apart(a, d), d.ends # a.ends, d.at \in a.at..a.at + Window - 1
      PROVE  a.ends + Window <= d.ends /\ d.ends < a.at + 2 * Window /\ d.ends \in Nat
  BY <1>1, <1>2, <1>4 DEF Apart
<1>5. a.ends + Window <= b.ends /\ b.ends < a.at + 2 * Window /\ a.ends + Window <= c.ends /\ c.ends < a.at + 2 * Window
  BY <1>3, <1>4
<1>6. a.at \in Nat /\ a.ends \in Nat /\ b.ends \in Nat /\ c.ends \in Nat /\ a.at < a.ends
  BY <1>2
<1> QED BY <1>1, <1>3, <1>5, <1>6 DEF Apart

\* A window lets at most maxRequests through, and a span as long as a window at
\* most twice as many, for both adapters, any keys and weights, and any number of
\* calls, restarts of the server and lost scripts (checkLimit, the script).
THEOREM LimitsAreKept == LimitSpec => []WithinTheLimit
<1>1. LimitInit => LimitInv
  <2> SUFFICES ASSUME LimitInit PROVE LimitInv
    OBVIOUS
  <2>1. Window \in Nat \ {0} /\ MaxRequests \in Nat /\ instant = 0 /\ admitted = {}
    BY LimitAssumption DEF LimitInit
  <2>2. used \in [Keys -> Nat] /\ reset \in [Keys -> Nat] /\ store \in {"memory", "redis"} /\ known \in BOOLEAN
    BY <2>1 DEF LimitInit
  <2>3. At("idle") \in LimitCalls /\ Weighs(At("idle"))
    BY DEF At, LimitCalls, Asking, NoDeadline, Weighs
  <2>4. LimitTypes
    BY <2>1, <2>2, <2>3 DEF LimitInit, LimitTypes
  <2>5. WindowsAreOpen
    BY <2>1 DEF LimitInit, WindowsAreOpen
  <2>6. AdmittedInWindows
    BY <2>1, FS_EmptySet DEF AdmittedInWindows
  <2>7. \A k, e : InWindow(admitted, k, e) = {}
    BY <2>1 DEF InWindow
  <2>8. \A k, e : TotalOf(InWindow(admitted, k, e)) = 0
    BY <2>7, TotalOfNone, Zenon
  <2>9. (\A k \in Keys : 0 <= used[k]) /\ 0 <= MaxRequests
    BY <2>1, <2>2
  <2>10. WindowsCount
    BY <2>8, <2>9 DEF WindowsCount
  <2> QED BY <2>4, <2>5, <2>6, <2>10 DEF LimitInv
<1>2. LimitInv => WithinTheLimit
  <2> SUFFICES ASSUME LimitInv, NEW a \in admitted
               PROVE  LET same == {b \in admitted : b.key = a.key}
                      IN  /\ TotalOf({b \in same : b.ends = a.ends}) <= MaxRequests
                          /\ TotalOf({b \in same : b.at \in a.at..a.at + Window - 1}) <= 2 * MaxRequests
    BY DEF WithinTheLimit
  <2> DEFINE same == {b \in admitted : b.key = a.key}
             span == {b \in same : b.at \in a.at..a.at + Window - 1}
             W(e) == InWindow(admitted, a.key, e)
  <2>1. MaxRequests \in Nat /\ \A b \in admitted : b.key \in Keys /\ b.ends \in Nat
    <3>1. \A b \in admitted : b \in Admissions
      BY DEF LimitInv, AdmittedInWindows
    <3> QED BY <3>1, LimitAssumption DEF Admissions
  <2>2. \A b \in admitted : TotalOf(W(b.ends)) <= MaxRequests
    BY <2>1 DEF LimitInv, WindowsCount
  <2>3. {b \in same : b.ends = a.ends} = W(a.ends)
    BY DEF InWindow
  <2>4. \A e : Weighted(W(e)) /\ TotalOf(W(e)) \in Nat
    BY WindowsWeigh DEF LimitInv
  <2>5. \E b \in admitted : span \subseteq W(a.ends) \cup W(b.ends)
    <3>1. CASE \A b \in span : b.ends = a.ends
      <4>1. span \subseteq W(a.ends) \cup W(a.ends)
        BY <3>1 DEF InWindow
      <4> QED BY <4>1
    <3>2. CASE \E b \in span : b.ends # a.ends
      <4>1. PICK b \in span : b.ends # a.ends
        BY <3>2
      <4>2. ASSUME NEW c \in span PROVE c.ends = a.ends \/ c.ends = b.ends
        BY <4>1, SpanMeetsTwo
      <4>3. span \subseteq W(a.ends) \cup W(b.ends)
        BY <4>2 DEF InWindow
      <4> QED BY <4>1, <4>3
    <3> QED BY <3>1, <3>2
  <2> HIDE DEF span, W
  <2>6. PICK b \in admitted : span \subseteq W(a.ends) \cup W(b.ends)
    BY <2>5
  <2>7. TotalOf(span) <= TotalOf(W(a.ends)) + TotalOf(W(b.ends)) /\ TotalOf(span) \in Nat
    <3>1. Weighted(span)
      <4>1. span \subseteq admitted
        BY DEF span
      <4> QED BY <4>1, WindowsWeigh, TotalOfPart DEF LimitInv
    <3> QED BY <2>4, <2>6, <3>1, TotalOfCovered, TotalOfType
  <2>8. PICK n \in Nat, m \in Nat, t \in Nat :
          n = TotalOf(W(a.ends)) /\ m = TotalOf(W(b.ends)) /\ t = TotalOf(span)
    BY <2>4, <2>7
  <2>9. n <= MaxRequests /\ m <= MaxRequests /\ t <= n + m
    BY <2>2, <2>7, <2>8
  <2>10. t <= 2 * MaxRequests
    BY <2>1, <2>9
  <2>11. TotalOf(span) <= 2 * MaxRequests
    BY <2>8, <2>10
  <2> QED BY <2>2, <2>3, <2>11 DEF span
<1> QED BY <1>1, <1>2, LimitStep, PTL DEF LimitSpec

-----------------------------------------------------------------------------
(* A batch.                                                                *)

ServerBatchSpec == ServerBatchInit /\ [][ServerBatchNext]_serverBatchVars

BatchTypes ==
  /\ batch \in Interceptions \cup {Plain}
  /\ progress \in {"called", "passed", "refused", "running", "replied", "failed"}
  /\ member \in [BatchMembers -> {"handling", "encoding", "settled", "rejected"}]
  /\ frames \in [BatchMembers -> Nat] /\ output \in Seq(BatchMembers)
  /\ channel \in {"none", "readable", "closed", "errored", "cancelled"}
  /\ {keepAlive, over, closedPeer} \subseteq BOOLEAN

\* The frames of member i among what was collected or written.
FramesOf(i) == {k \in DOMAIN output : output[k] = i}
FramesAreOut == \A i \in BatchMembers : Cardinality(FramesOf(i)) = frames[i]

\* How far the batch is, for its stream, its timer and its peer.
ReplyTellsOfBatch ==
  /\ ~Running /\ progress # "failed" =>
       channel = "none" /\ ~over /\ output = <<>> /\ \A i \in BatchMembers : member[i] = "handling"
  /\ progress = "failed" => over /\ \A i \in BatchMembers : member[i] = "settled"
  /\ channel # "none" <=> batch.streaming /\ Running
  /\ keepAlive <=> channel = "readable"
  /\ closedPeer = over
  /\ channel = "readable" => ~over
  /\ channel = "errored" => OneRejected
  /\ batch.streaming /\ Running => progress = "replied"

\* Who has settled had all of its frames sent, unless the peer was closed before.
SettledIsAnswered ==
  /\ \A i \in BatchMembers : member[i] = "settled" => frames[i] > 0 \/ closedPeer
  /\ channel = "closed" \/ (~batch.streaming /\ progress = "replied") =>
       \A i \in BatchMembers : member[i] = "settled" /\ frames[i] > 0

ServerBatchInv == BatchTypes /\ FramesAreOut /\ ReplyTellsOfBatch /\ SettledIsAnswered

LEMMA FramesOfType ==
  ASSUME BatchTypes, NEW i
  PROVE  IsFiniteSet(FramesOf(i)) /\ FramesOf(i) \subseteq 1..Len(output) /\ Cardinality(FramesOf(i)) \in Nat
<1>1. Len(output) \in Nat /\ DOMAIN output = 1..Len(output) /\ 1 \in Int /\ Len(output) \in Int
  BY DEF BatchTypes
<1>2. IsFiniteSet(1..Len(output))
  BY <1>1, FS_Interval
<1>3. FramesOf(i) \subseteq 1..Len(output)
  BY <1>1 DEF FramesOf
<1>4. IsFiniteSet(FramesOf(i))
  BY <1>2, <1>3, FS_Subset
<1> QED BY <1>3, <1>4, FS_CardinalityType

\* A frame that is sent counts for its member and for no other.
LEMMA FrameIsCounted ==
  ASSUME BatchTypes, FramesAreOut, NEW i \in BatchMembers,
         frames' = [frames EXCEPT ![i] = @ + 1], output' = Append(output, i), batch' = batch
  PROVE  /\ frames' \in [BatchMembers -> Nat] /\ output' \in Seq(BatchMembers)
         /\ FramesAreOut'
<1> DEFINE n == Len(output)
<1>1. n \in Nat /\ output \in Seq(BatchMembers) /\ frames \in [BatchMembers -> Nat]
  BY DEF BatchTypes
<1>2. /\ output' \in Seq(BatchMembers) /\ DOMAIN output' = 1..(n + 1) /\ DOMAIN output = 1..n
      /\ \A k \in 1..n : output'[k] = output[k]
      /\ output'[n + 1] = i
  BY <1>1, AppendProperties
<1>3. /\ frames' \in [BatchMembers -> Nat] /\ frames'[i] = frames[i] + 1
      /\ \A j \in BatchMembers : j # i => frames'[j] = frames[j]
  BY <1>1
<1> HIDE DEF n
<1>4. \A k \in 1..(n + 1) : k \in 1..n \/ k = n + 1
  BY <1>1
<1>5. 1..n \subseteq 1..(n + 1) /\ n + 1 \in 1..(n + 1) /\ n + 1 \notin 1..n
  BY <1>1
<1>6. FramesOf(i)' = FramesOf(i) \cup {n + 1} /\ n + 1 \notin FramesOf(i)
  BY <1>2, <1>4, <1>5 DEF FramesOf
<1>7. Cardinality(FramesOf(i)') = Cardinality(FramesOf(i)) + 1
  BY <1>6, FramesOfType, FS_AddElement
<1>8. ASSUME NEW j \in BatchMembers, j # i PROVE FramesOf(j)' = FramesOf(j)
  BY <1>2, <1>4, <1>5, <1>8 DEF FramesOf
<1>9. FramesAreOut'
  <2>1. ASSUME NEW j \in BatchMembers PROVE Cardinality(FramesOf(j)') = frames'[j]
    <3>1. CASE j = i
      BY <1>3, <1>7, <3>1 DEF FramesAreOut
    <3>2. CASE j # i
      BY <1>3, <1>8, <3>2 DEF FramesAreOut
    <3> QED BY <3>1, <3>2
  <2>2. BatchMembers' = BatchMembers
    BY DEF BatchMembers
  <2> QED BY <2>1, <2>2 DEF FramesAreOut
<1> QED BY <1>2, <1>3, <1>9

\* Steps that send nothing.
LEMMA NothingSent ==
  ASSUME FramesAreOut, UNCHANGED <<batch, frames, output>>
  PROVE  FramesAreOut'
<1>1. BatchMembers' = BatchMembers /\ \A i : FramesOf(i)' = FramesOf(i)
  BY DEF BatchMembers, FramesOf
<1> QED BY <1>1 DEF FramesAreOut

LEMMA ServerBatchStep == ServerBatchInv /\ [ServerBatchNext]_serverBatchVars => ServerBatchInv'
<1> SUFFICES ASSUME ServerBatchInv, [ServerBatchNext]_serverBatchVars PROVE ServerBatchInv'
  OBVIOUS
<1> USE DEF ServerBatchInv
<1>0. batch' = batch /\ BatchMembers' = BatchMembers
  BY DEF ServerBatchNext, serverBatchVars, Refuse, Accept, JoinResolves, ResponseFails, JoinRejects, KeepAliveFires, CancelStream,
         NextFrame, SendFrame, EncodingFails, MemberEnds, BatchMembers
<1>1. CASE Refuse
  <2>1. BatchTypes'
    BY <1>0, <1>1 DEF Refuse, BatchTypes
  <2>2. FramesAreOut'
    BY <1>1, NothingSent DEF Refuse
  <2>3. ReplyTellsOfBatch'
    BY <1>0, <1>1 DEF Refuse, ReplyTellsOfBatch, Running, OneRejected
  <2>4. SettledIsAnswered'
    BY <1>0, <1>1 DEF Refuse, SettledIsAnswered, ReplyTellsOfBatch
  <2> QED BY <2>1, <2>2, <2>3, <2>4
<1>2. CASE Accept
  <2>0. batch.streaming \in BOOLEAN
    <3>1. CASE batch \in Interceptions
      BY <3>1 DEF Interceptions
    <3>2. CASE batch = Plain
      BY <3>2 DEF Plain
    <3> QED BY <3>1, <3>2 DEF BatchTypes
  <2>1. BatchTypes'
    BY <1>0, <1>2, <2>0 DEF Accept, BatchTypes
  <2>2. FramesAreOut'
    BY <1>2, NothingSent DEF Accept
  <2>3. ReplyTellsOfBatch'
    BY <1>0, <1>2, <2>0 DEF Accept, ReplyTellsOfBatch, Running, OneRejected
  <2>4. SettledIsAnswered'
    BY <1>0, <1>2, <2>0 DEF Accept, SettledIsAnswered, ReplyTellsOfBatch
  <2> QED BY <2>1, <2>2, <2>3, <2>4
<1>3. CASE JoinResolves
  <2>1. BatchTypes'
    BY <1>0, <1>3 DEF JoinResolves, BatchTypes
  <2>2. FramesAreOut'
    BY <1>3, NothingSent DEF JoinResolves
  <2>3. ReplyTellsOfBatch'
    BY <1>0, <1>3 DEF JoinResolves, ReplyTellsOfBatch, Running, OneRejected
  <2>4. \A i \in BatchMembers : member[i] = "settled" /\ frames[i] > 0
    BY <1>3 DEF JoinResolves, AllSettled, SettledIsAnswered, ReplyTellsOfBatch
  <2>5. SettledIsAnswered'
    BY <1>0, <1>3, <2>4 DEF JoinResolves, SettledIsAnswered
  <2> QED BY <2>1, <2>2, <2>3, <2>5
<1>4. CASE JoinRejects
  <2>1. BatchTypes'
    BY <1>0, <1>4 DEF JoinRejects, BatchTypes
  <2>2. FramesAreOut'
    BY <1>4, NothingSent DEF JoinRejects
  <2>3. ReplyTellsOfBatch'
    BY <1>0, <1>4 DEF JoinRejects, ReplyTellsOfBatch, Running, OneRejected
  <2>4. SettledIsAnswered'
    BY <1>0, <1>4 DEF JoinRejects, SettledIsAnswered
  <2> QED BY <2>1, <2>2, <2>3, <2>4
<1>5. CASE KeepAliveFires \/ CancelStream
  <2>0. UNCHANGED <<batch, progress, member, frames, output, over, closedPeer>>
    BY <1>5 DEF KeepAliveFires, CancelStream
  <2>1. BatchTypes'
    BY <1>0, <1>5, <2>0 DEF KeepAliveFires, CancelStream, BatchTypes
  <2>2. FramesAreOut'
    BY <2>0, NothingSent
  <2>3. ReplyTellsOfBatch'
    BY <1>0, <1>5, <2>0 DEF KeepAliveFires, CancelStream, ReplyTellsOfBatch, Running, OneRejected
  <2>4. SettledIsAnswered'
    BY <1>0, <1>5, <2>0 DEF KeepAliveFires, CancelStream, SettledIsAnswered
  <2> QED BY <2>1, <2>2, <2>3, <2>4
<1>6. ASSUME NEW i \in BatchMembers, NextFrame(i) \/ EncodingFails(i) \/ MemberEnds(i) PROVE ServerBatchInv'
  <2>1. PICK m \in {"encoding", "rejected", "settled"} :
          /\ member' = [member EXCEPT ![i] = m]
          /\ m = "settled" => frames[i] > 0 \/ closedPeer
    BY <1>6 DEF NextFrame, EncodingFails, MemberEnds
  <2>2. UNCHANGED <<batch, progress, frames, output, channel, keepAlive, over, closedPeer>>
    BY <1>6 DEF NextFrame, EncodingFails, MemberEnds
  <2>3. /\ member' \in [BatchMembers -> {"handling", "encoding", "settled", "rejected"}]
        /\ member'[i] = m /\ \A j \in BatchMembers : j # i => member'[j] = member[j]
    BY <2>1 DEF BatchTypes
  <2>4. member[i] \notin {"settled", "rejected"}
    BY <1>6 DEF NextFrame, EncodingFails, MemberEnds
  <2>5. BatchTypes'
    BY <1>0, <2>2, <2>3 DEF BatchTypes
  <2>6. FramesAreOut'
    BY <2>2, NothingSent
  <2>7. ReplyTellsOfBatch'
    <3>1. OneRejected => OneRejected'
      BY <1>0, <2>3, <2>4 DEF OneRejected
    <3>2. ~Running => FALSE
      BY <1>6, <2>4 DEF ReplyTellsOfBatch, NextFrame, EncodingFails, MemberEnds
    <3> QED BY <1>0, <2>2, <3>1, <3>2 DEF ReplyTellsOfBatch, Running
  <2>8. SettledIsAnswered'
    BY <1>0, <2>1, <2>2, <2>3, <2>4 DEF SettledIsAnswered
  <2> QED BY <2>5, <2>6, <2>7, <2>8
<1>7. ASSUME NEW i \in BatchMembers, SendFrame(i) PROVE ServerBatchInv'
  <2>1. PICK m \in {"handling", "rejected"} :
          /\ member' = [member EXCEPT ![i] = m]
          /\ m = "handling" => frames' = [frames EXCEPT ![i] = @ + 1] /\ output' = Append(output, i)
          /\ m = "rejected" => UNCHANGED <<frames, output>>
    BY <1>7 DEF SendFrame
  <2>2. UNCHANGED <<batch, progress, channel, over, closedPeer>> /\ keepAlive' = KeptAlive /\ member[i] = "encoding"
    BY <1>7 DEF SendFrame
  <2>3. /\ member' \in [BatchMembers -> {"handling", "encoding", "settled", "rejected"}]
        /\ member'[i] = m /\ \A j \in BatchMembers : j # i => member'[j] = member[j]
    BY <2>1 DEF BatchTypes
  <2>4. frames' \in [BatchMembers -> Nat] /\ output' \in Seq(BatchMembers) /\ FramesAreOut'
    <3>1. CASE m = "handling"
      BY <1>0, <2>1, <3>1, FrameIsCounted
    <3>2. CASE m = "rejected"
      BY <2>1, <2>2, <3>2, NothingSent DEF BatchTypes
    <3> QED BY <3>1, <3>2
  <2>5. BatchTypes'
    BY <1>0, <2>2, <2>3, <2>4 DEF BatchTypes, KeptAlive
  <2>6. ReplyTellsOfBatch'
    <3>1. OneRejected => OneRejected'
      BY <1>0, <2>2, <2>3 DEF OneRejected
    <3>2. Running
      BY <2>2 DEF ReplyTellsOfBatch
    <3>3. keepAlive' <=> channel = "readable"
      BY <2>2 DEF ReplyTellsOfBatch, KeptAlive
    <3> QED BY <1>0, <2>2, <3>1, <3>2, <3>3 DEF ReplyTellsOfBatch, Running
  <2>7. SettledIsAnswered'
    BY <1>0, <2>1, <2>2, <2>3 DEF SettledIsAnswered, BatchTypes
  <2> QED BY <2>4, <2>5, <2>6, <2>7
<1>8. CASE ResponseFails
  <2>1. BatchTypes'
    BY <1>0, <1>8 DEF ResponseFails, BatchTypes
  <2>2. FramesAreOut'
    BY <1>8, NothingSent DEF ResponseFails
  <2>3. ReplyTellsOfBatch'
    BY <1>0, <1>8 DEF ResponseFails, ReplyTellsOfBatch, Running, OneRejected, AllSettled
  <2>4. SettledIsAnswered'
    BY <1>0, <1>8 DEF ResponseFails, SettledIsAnswered, ReplyTellsOfBatch, Running
  <2> QED BY <2>1, <2>2, <2>3, <2>4
<1>9. CASE UNCHANGED serverBatchVars
  BY <1>0, <1>9, NothingSent DEF serverBatchVars, BatchTypes, ReplyTellsOfBatch, SettledIsAnswered, Running, OneRejected
<1> QED BY <1>1, <1>2, <1>3, <1>4, <1>5, <1>6, <1>7, <1>8, <1>9 DEF ServerBatchNext

\* A stream is kept alive as long as it can be read, ends well only when every member
\* was answered in full, and fails only by one that was not, for batches of any size
\* (scheduleKeepAlive, clearKeepAlive, handleIndividualRequest in batch.ts).
THEOREM BatchesAreAnswered == ServerBatchSpec => []BatchIsAnswered
<1>1. ServerBatchInit => ServerBatchInv
  <2> SUFFICES ASSUME ServerBatchInit PROVE ServerBatchInv
    OBVIOUS
  <2>1. <<>> \in Seq(BatchMembers) /\ DOMAIN <<>> = {}
    OBVIOUS
  <2>2. BatchTypes
    BY <2>1 DEF ServerBatchInit, BatchTypes
  <2>3. FramesAreOut
    <3>1. \A i : FramesOf(i) = {}
      BY <2>1 DEF ServerBatchInit, FramesOf
    <3> QED BY <3>1, FS_EmptySet DEF FramesAreOut, ServerBatchInit
  <2>4. ReplyTellsOfBatch /\ SettledIsAnswered
    BY DEF ServerBatchInit, ReplyTellsOfBatch, SettledIsAnswered, Running
  <2> QED BY <2>2, <2>3, <2>4 DEF ServerBatchInv
<1>2. ServerBatchInv => BatchIsAnswered
  <2> SUFFICES ASSUME ServerBatchInv PROVE BatchIsAnswered
    OBVIOUS
  <2>1. \A i \in BatchMembers : Cardinality({ k \in DOMAIN output : output[k] = i }) = frames[i]
    BY DEF ServerBatchInv, FramesAreOut, FramesOf
  <2> QED BY <2>1 DEF ServerBatchInv, ReplyTellsOfBatch, SettledIsAnswered, BatchIsAnswered, Running
<1> QED BY <1>1, <1>2, ServerBatchStep, PTL DEF ServerBatchSpec

-----------------------------------------------------------------------------
\* What was charged on the way to a call is noted in its context.
ChargesAreNoted ==
  /\ applied \in [Calls -> SUBSET Limits] /\ charged \in [Calls -> SUBSET Limits]
  /\ \A c \in Calls : charged[c] \subseteq applied[c]
  /\ twice = {}

\* A limit that was charged on the way is not charged again, for any nesting of
\* calls, any limits and any answers of the limiters (ratelimit).
THEOREM NeverChargedTwice == RequestSpec => []ChargedOncePerPath
<1>1. RequestInit => ChargesAreNoted
  BY DEF RequestInit, ChargesAreNoted
<1>2. ChargesAreNoted /\ [RequestNext]_requestVars => ChargesAreNoted'
  <2> SUFFICES ASSUME ChargesAreNoted, [RequestNext]_requestVars PROVE ChargesAreNoted'
    OBVIOUS
  <2>1. ASSUME NEW c \in Calls, NEW limit \in Limits, NEW dedupe \in BOOLEAN, NEW result \in Results,
               Middleware(c, limit, dedupe, result)
        PROVE  ChargesAreNoted'
    <3>1. dedupe => limit \notin charged[c]
      BY <2>1 DEF ChargesAreNoted, Middleware
    <3>2. twice' = {}
      BY <2>1, <3>1 DEF ChargesAreNoted, Middleware
    <3> QED BY <2>1, <3>2 DEF ChargesAreNoted, Middleware, Noted
  <2>2. ASSUME NEW c \in Calls, NEW d \in Calls, CallInside(c, d) PROVE ChargesAreNoted'
    BY <2>2 DEF ChargesAreNoted, CallInside
  <2>3. ASSUME NEW c \in Calls, NEW how \in {"returned", "thrown"}, Ends(c, how) PROVE ChargesAreNoted'
    BY <2>3 DEF ChargesAreNoted, Ends
  <2>4. CASE Respond \/ UNCHANGED requestVars
    BY <2>4 DEF ChargesAreNoted, Respond, requestVars
  <2> QED BY <2>1, <2>2, <2>3, <2>4 DEF RequestNext
<1>3. ChargesAreNoted => ChargedOncePerPath
  BY DEF ChargesAreNoted, ChargedOncePerPath
<1> QED BY <1>1, <1>2, <1>3, PTL DEF RequestSpec

-----------------------------------------------------------------------------
\* The lists of schemas, and how they are put together.
Descending(low, high) == [i \in 1..(IF config.out THEN high - low ELSE 0) |-> high - i]

LEMMA Ascend ==
  ASSUME NEW b \in Nat, NEW e \in Nat, b <= e
  PROVE  [i \in 1..b |-> i - 1] \o [i \in 1..(e - b) |-> b + i - 1] = [i \in 1..e |-> i - 1]
OBVIOUS

LEMMA Descend ==
  ASSUME NEW l \in Nat, NEW m \in Nat, NEW h \in Nat, l <= m, m <= h
  PROVE  [i \in 1..(h - m) |-> h - i] \o Reverse([i \in 1..(m - l) |-> l + i - 1]) = [i \in 1..(h - l) |-> h - i]
<1>1. Reverse([i \in 1..(m - l) |-> l + i - 1]) = [i \in 1..(m - l) |-> m - i]
  BY DEF Reverse
<1>2. [i \in 1..(h - m) |-> h - i] \o [i \in 1..(m - l) |-> m - i] = [i \in 1..(h - l) |-> h - i]
  <2> DEFINE a == [i \in 1..(h - m) |-> h - i]
             b == [i \in 1..(m - l) |-> m - i]
  <2>1. a \in Seq(Int) /\ b \in Seq(Int) /\ Len(a) = h - m /\ Len(b) = m - l
    OBVIOUS
  <2>2. \A i \in 1..(h - l) : (a \o b)[i] = IF i <= h - m THEN h - i ELSE m - (i - (h - m))
    BY <2>1
  <2>3. a \o b \in Seq(Int) /\ Len(a \o b) = h - l
    BY <2>1
  <2>4. \A i \in 1..(h - l) : (a \o b)[i] = h - i
    BY <2>2
  <2> DEFINE c == [i \in 1..(h - l) |-> h - i]
  <2>5. c \in Seq(Int) /\ Len(c) = h - l /\ \A i \in 1..(h - l) : c[i] = h - i
    OBVIOUS
  <2> HIDE DEF a, b, c
  <2>6. a \o b = c
    BY <2>3, <2>4, <2>5, SeqEqual
  <2> QED BY <2>6 DEF a, b, c
<1> QED BY <1>1, <1>2

LEMMA ReverseOfAll ==
  ASSUME NEW n \in Nat PROVE Reverse([i \in 1..n |-> i - 1]) = [i \in 1..n |-> n - i]
BY DEF Reverse

\* What the variables hold.
Sides == {"in", "out"}
Counts == [in : Nat, out : Nat]
Thrown == ORPCErrors \cup {Other}
Outcomes == {Nothing} \cup {Output(from, passed) : from \in Nat, passed \in Seq(Int)} \cup {Error(e) : e \in Thrown}
Activations == [stage : {"input", "running", "output"}, input : Seq(Int), result : Outcomes]

\* The numbers that were noted at use grow along the list.
Ordered ==
  /\ mids \in Seq(Counts) /\ total \in Counts
  /\ \A s \in Sides : \A i \in 1..Len(mids) :
       /\ mids[i][s] <= total[s]
       /\ \A j \in 1..Len(mids) : i <= j => mids[i][s] <= mids[j][s]

\* Where activation n is, its input went through what comes before, and what came
\* back went through what comes after.
GoodInput(a, n) ==
  /\ a.stage = "input" => a.input = UpTo(Begin(n, "in"), "in") /\ a.result = Nothing
  /\ a.stage # "input" => a.input = UpTo(End(n, "in"), "in")
GoodOutput(r, n, low) ==
  r.is = "output" => r.from \in n..Len(mids) + 1 /\ r.passed = Descending(low, End(r.from, "out"))
GoodStack ==
  /\ stack \in Seq(Activations)
  /\ IF phase = "calling" THEN Depth \in 1..Len(mids) + 1 ELSE stack = <<>>
  /\ \A n \in 1..Depth :
       /\ GoodInput(stack[n], n) /\ GoodOutput(stack[n].result, n, End(n, "out"))
       /\ stack[n].stage = "output" => stack[n].result.is = "output"
       /\ n < Depth => stack[n].stage = "running"
GoodAnswer ==
  /\ phase # "answered" => answer = Nothing
  /\ GoodOutput(answer, 1, 0)
  /\ answer.is = "error" /\ answer.error # Other => (answer.error.defined <=> answer.error.accepted)
CallInv == Ordered /\ GoodStack /\ GoodAnswer

LEMMA Bounds ==
  ASSUME Ordered
  PROVE  \A s \in Sides : \A n \in 1..Len(mids) + 1 :
           /\ Begin(n, s) \in Nat /\ End(n, s) \in Nat /\ Begin(n, s) <= End(n, s)
           /\ n > 1 => Begin(n, s) = End(n - 1, s)
           /\ \A m \in 1..Len(mids) + 1 : n <= m => End(n, s) <= End(m, s)
<1> SUFFICES ASSUME NEW s \in Sides, NEW n \in 1..Len(mids) + 1
             PROVE  /\ Begin(n, s) \in Nat /\ End(n, s) \in Nat /\ Begin(n, s) <= End(n, s)
                    /\ n > 1 => Begin(n, s) = End(n - 1, s)
                    /\ \A m \in 1..Len(mids) + 1 : n <= m => End(n, s) <= End(m, s)
  OBVIOUS
<1>1. total[s] \in Nat /\ \A i \in 1..Len(mids) : mids[i][s] \in Nat
  <2>1. \A c \in Counts : c[s] \in Nat
    BY DEF Counts, Sides
  <2> QED BY <2>1 DEF Ordered
<1> QED BY <1>1 DEF Ordered, Begin, End

\* A list of schemas passes through the next ones.
LEMMA Passing ==
  ASSUME Ordered, NEW n \in 1..Len(mids) + 1
  PROVE  /\ UpTo(Begin(n, "in"), "in") \o Segment(n, "in") = UpTo(End(n, "in"), "in")
         /\ \A from \in n..Len(mids) + 1 :
              Descending(End(n, "out"), End(from, "out")) \o Reverse(Segment(n, "out"))
                = Descending(Begin(n, "out"), End(from, "out"))
<1>1. \A s \in Sides : Begin(n, s) \in Nat /\ End(n, s) \in Nat /\ Begin(n, s) <= End(n, s)
  BY Bounds
<1>2. UpTo(Begin(n, "in"), "in") \o Segment(n, "in") = UpTo(End(n, "in"), "in")
  <2>1. CASE config["in"]
    <3>1. [i \in 1..Begin(n, "in") |-> i - 1] \o [i \in 1..(End(n, "in") - Begin(n, "in")) |-> Begin(n, "in") + i - 1]
            = [i \in 1..End(n, "in") |-> i - 1]
      BY <1>1, Ascend DEF Sides
    <3> QED BY <2>1, <3>1 DEF UpTo, Segment
  <2>2. CASE ~config["in"]
    BY <2>2 DEF UpTo, Segment
  <2> QED BY <2>1, <2>2
<1>3. ASSUME NEW from \in n..Len(mids) + 1
      PROVE  Descending(End(n, "out"), End(from, "out")) \o Reverse(Segment(n, "out"))
               = Descending(Begin(n, "out"), End(from, "out"))
  <2>1. Begin(n, "out") <= End(n, "out") /\ End(n, "out") <= End(from, "out") /\ End(from, "out") \in Nat
    BY Bounds DEF Sides, Ordered
  <2>2. CASE config.out
    <3>1. [i \in 1..(End(from, "out") - End(n, "out")) |-> End(from, "out") - i]
            \o Reverse([i \in 1..(End(n, "out") - Begin(n, "out")) |-> Begin(n, "out") + i - 1])
            = [i \in 1..(End(from, "out") - Begin(n, "out")) |-> End(from, "out") - i]
      <4>1. /\ Begin(n, "out") \in Nat /\ End(n, "out") \in Nat /\ End(from, "out") \in Nat
            /\ Begin(n, "out") <= End(n, "out") /\ End(n, "out") <= End(from, "out")
        BY <1>1, <2>1 DEF Sides
      <4> QED BY ZenonT(20), <4>1, Descend
    <3> QED BY <2>2, <3>1 DEF Descending, Segment
  <2>3. CASE ~config.out
    BY <2>3 DEF Descending, Segment, Reverse
  <2> QED BY <2>2, <2>3
<1> QED BY <1>2, <1>3

\* What is good stays so while the procedure is called.
LEMMA GoodStays ==
  ASSUME UNCHANGED <<mids, total, config>>
  PROVE  /\ \A a, n : GoodInput(a, n)' <=> GoodInput(a, n)
         /\ \A r, n, low : GoodOutput(r, n, low)' <=> GoodOutput(r, n, low)
         /\ \A n, s : End(n, s)' = End(n, s)
<1>1. /\ \A n, s : End(n, s)' = End(n, s) /\ Begin(n, s)' = Begin(n, s) /\ UpTo(n, s)' = UpTo(n, s)
      /\ \A low, high : Descending(low, high)' = Descending(low, high)
  BY DEF End, Begin, UpTo, Descending
<1> QED BY <1>1 DEF GoodInput, GoodOutput

\* The activation on top ends well: the one below, or the caller, gets a result
\* that went through all it had to.
LEMMA LeaveKeeps ==
  ASSUME CallInv, phase = "calling", UNCHANGED <<mids, total, config>>,
         NEW result \in Outcomes, result.is # "nothing",
         GoodOutput(result, Depth, Begin(Depth, "out")), Leave(result)
  PROVE  CallInv'
<1> USE DEF CallInv
<1>1. Ordered'
  BY DEF Ordered
<1>2. Depth \in 1..Len(mids) + 1 /\ stack \in Seq(Activations)
  BY DEF GoodStack, Depth
<1>3. CASE Depth > 1
  <2> DEFINE below == stack[Depth - 1]
             new == [below EXCEPT !.result = result]
  <2>1. /\ stack' = [Front(stack) EXCEPT ![Depth - 1].result = result] /\ UNCHANGED <<phase, answer>>
    BY <1>3 DEF Leave
  <2>2. /\ Front(stack) \in Seq(Activations) /\ Len(Front(stack)) = Depth - 1
        /\ \A n \in 1..Depth - 1 : Front(stack)[n] = stack[n]
    BY <1>2, <1>3 DEF Front, Depth
  <2>3. /\ below \in Activations /\ below.stage = "running" /\ below.input = UpTo(End(Depth - 1, "in"), "in")
    BY <1>2, <1>3 DEF GoodStack, GoodInput, Depth
  <2>4. new \in Activations /\ new.stage = "running" /\ new.input = below.input /\ new.result = result
    BY <2>3 DEF Activations
  <2>5. stack' = [Front(stack) EXCEPT ![Depth - 1] = new]
    <3>1. Front(stack)[Depth - 1] = below
      BY <1>2, <1>3, <2>2
    <3> HIDE DEF below
    <3> QED BY <2>1, <3>1
  <2> HIDE DEF new, below
  <2>6. /\ stack' \in Seq(Activations) /\ Len(stack') = Depth - 1
        /\ \A n \in 1..Depth - 2 : stack'[n] = stack[n]
        /\ stack'[Depth - 1] = new
    BY <1>2, <1>3, <2>2, <2>4, <2>5
  <2>7. Begin(Depth, "out") = End(Depth - 1, "out")
    BY <1>2, <1>3, Bounds DEF Sides
  <2>8. GoodInput(new, Depth - 1) /\ GoodOutput(new.result, Depth - 1, End(Depth - 1, "out"))
    BY <1>2, <1>3, <2>3, <2>4, <2>7 DEF GoodInput, GoodOutput
  <2>9. \A n \in 1..Depth - 1 :
          /\ GoodInput(stack'[n], n) /\ GoodOutput(stack'[n].result, n, End(n, "out"))
          /\ stack'[n].stage = "running"
    <3> TAKE n \in 1..Depth - 1
    <3>1. CASE n = Depth - 1
      BY <2>4, <2>6, <2>8, <3>1
    <3>2. CASE n # Depth - 1
      <4>1. n \in 1..Depth - 2 /\ n \in 1..Depth /\ n < Depth
        BY <1>2, <3>2
      <4> QED BY <2>6, <4>1 DEF GoodStack
    <3> QED BY <3>1, <3>2
  <2>10. GoodStack'
    <3>1. Depth' = Depth - 1 /\ phase' = "calling" /\ Depth - 1 \in 1..Len(mids) + 1
      BY <1>2, <1>3, <2>1, <2>6 DEF Depth
    <3>2. \A n \in 1..Depth' : /\ GoodInput(stack[n], n)' /\ GoodOutput(stack[n].result, n, End(n, "out"))'
                              /\ stack'[n].stage = "running"
      BY <2>9, <3>1, GoodStays
    <3> QED BY <2>6, <3>1, <3>2 DEF GoodStack
  <2>11. GoodAnswer'
    BY <2>1 DEF GoodAnswer, GoodOutput, End, Descending
  <2> QED BY <1>1, <2>10, <2>11
<1>4. CASE Depth = 1
  <2>1. /\ stack' = <<>> /\ phase' = "answered"
        /\ answer' = IF result.is = "error" THEN Error(Reconciled(result.error)) ELSE result
    BY <1>4 DEF Leave
  <2>2. GoodStack'
    BY <2>1 DEF GoodStack, Depth
  <2>3. CASE result.is = "error"
    <3>1. PICK e \in Thrown : result = Error(e)
      BY <2>3 DEF Outcomes, Nothing, Output
    <3>2. answer' = Error(Reconciled(e))
      BY <2>1, <2>3, <3>1 DEF Error
    <3>3. Reconciled(e) # Other => (Reconciled(e).defined <=> Reconciled(e).accepted)
      <4>1. CASE e = Other
        BY <4>1 DEF Reconciled
      <4>2. CASE e # Other
        <5>1. e \in ORPCErrors
          BY <4>2 DEF Thrown
        <5>2. CASE e.accepted
          BY <4>2, <5>1, <5>2 DEF Reconciled, ORPCErrors
        <5>3. CASE ~e.accepted /\ ~e.defined
          BY <4>2, <5>1, <5>3 DEF Reconciled, ORPCErrors
        <5>4. CASE ~e.accepted /\ e.defined
          BY <4>2, <5>1, <5>4 DEF Reconciled, ORPCErrors
        <5> QED BY <5>2, <5>3, <5>4
      <4> QED BY <4>1, <4>2
    <3> QED BY <1>1, <2>1, <2>2, <3>2, <3>3 DEF GoodAnswer, GoodOutput, Error
  <2>4. CASE result.is # "error"
    <3>1. answer' = result
      BY <2>1, <2>4
    <3>2. Begin(Depth, "out") = 0
      BY <1>4 DEF Begin
    <3>3. result.is = "output" => result.from \in 1..Len(mids) + 1 /\ result.passed = Descending(0, End(result.from, "out"))
      BY <1>4, <3>2 DEF GoodOutput
    <3> QED BY <1>1, <2>1, <2>2, <2>4, <3>1, <3>3 DEF GoodAnswer, GoodOutput, Descending, End
  <2> QED BY <2>3, <2>4
<1> QED BY <1>2, <1>3, <1>4

\* The activation on top goes on as another, of which the input and the output are
\* good, and nothing else changes.
LEMMA TopChanges ==
  ASSUME CallInv, phase = "calling", UNCHANGED <<mids, total, config, phase, answer>>,
         NEW new \in Activations, stack' = [stack EXCEPT ![Depth] = new],
         GoodInput(new, Depth), GoodOutput(new.result, Depth, End(Depth, "out")),
         new.stage = "output" => new.result.is = "output"
  PROVE  CallInv'
<1> USE DEF CallInv
<1>1. Depth \in 1..Len(mids) + 1 /\ Depth = Len(stack) /\ stack \in Seq(Activations)
  BY DEF GoodStack, Depth
<1>2. /\ stack' \in Seq(Activations) /\ Len(stack') = Depth
      /\ \A n \in 1..Depth - 1 : stack'[n] = stack[n]
      /\ stack'[Depth] = new
  BY <1>1
<1>3. \A n \in 1..Depth :
        /\ GoodInput(stack'[n], n) /\ GoodOutput(stack'[n].result, n, End(n, "out"))
        /\ stack'[n].stage = "output" => stack'[n].result.is = "output"
        /\ n < Depth => stack'[n].stage = "running"
  <2> TAKE n \in 1..Depth
  <2>1. CASE n = Depth
    BY <1>2, <2>1
  <2>2. CASE n # Depth
    <3>1. n \in 1..Depth - 1 /\ n < Depth
      BY <1>1, <2>2
    <3> QED BY <1>2, <3>1 DEF GoodStack
  <2> QED BY <2>1, <2>2
<1>4. GoodStack'
  <2>1. Depth' = Depth /\ phase' = "calling"
    BY <1>1, <1>2 DEF Depth
  <2>2. \A n \in 1..Depth' : GoodInput(stack[n], n)' /\ GoodOutput(stack[n].result, n, End(n, "out"))'
    BY <1>3, <2>1, GoodStays
  <2> QED BY <1>1, <1>2, <1>3, <2>1, <2>2 DEF GoodStack
<1>5. Ordered' /\ GoodAnswer'
  BY DEF Ordered, GoodAnswer, GoodOutput, End, Descending
<1> QED BY <1>4, <1>5

LEMMA OutputIsOutcome ==
  ASSUME NEW from \in Nat, NEW passed \in Seq(Int)
  PROVE  /\ Output(from, passed) \in Outcomes /\ Output(from, passed).is = "output"
         /\ Output(from, passed).from = from /\ Output(from, passed).passed = passed
<1>1. Output(from, passed) \in Outcomes
  BY DEF Outcomes
<1> QED BY <1>1 DEF Output

\* The procedure is built: there are no activations yet, and the numbers grow.
LEMMA BuildingKeeps ==
  ASSUME CallInv, phase \in {"building", "augmenting"}, phase' \in {"building", "augmenting"},
         Ordered', UNCHANGED <<stack, answer>>
  PROVE  CallInv'
<1>1. stack = <<>> /\ stack' = <<>> /\ answer' = Nothing
  BY DEF CallInv, GoodStack, GoodAnswer
<1>2. GoodStack'
  BY <1>1 DEF GoodStack, Depth
<1>3. GoodAnswer'
  BY <1>1 DEF GoodAnswer, GoodOutput, Nothing
<1> QED BY <1>2, <1>3 DEF CallInv

LEMMA CallStep == CallInv /\ [CallNextState]_callVars => CallInv'
<1> SUFFICES ASSUME CallInv, [CallNextState]_callVars PROVE CallInv'
  OBVIOUS
<1> USE DEF CallInv
<1>1. ASSUME NEW side \in Sides, AddSchema(side) PROVE CallInv'
  <2>1. /\ phase = "building" /\ mids' = mids /\ total' = [total EXCEPT ![side] = @ + 1]
        /\ UNCHANGED <<phase, stack, answer>>
    BY <1>1 DEF AddSchema
  <2>2. total' \in Counts /\ \A s \in Sides : total[s] \in Nat /\ total[s] <= total'[s]
    BY <2>1 DEF Ordered, Counts, Sides
  <2>3. \A s \in Sides : \A i \in 1..Len(mids) : mids[i][s] \in Nat
    <3>1. \A c \in Counts, s \in Sides : c[s] \in Nat
      BY DEF Counts, Sides
    <3> QED BY <3>1 DEF Ordered
  <2>4. Ordered'
    BY <2>1, <2>2, <2>3 DEF Ordered, Sides
  <2> QED BY <2>1, <2>4, BuildingKeeps
<1>2. CASE Use
  <2>1. /\ phase = "building" /\ mids' = Append(mids, total) /\ UNCHANGED <<total, phase, stack, answer>>
    BY <1>2 DEF Use
  <2>2. /\ mids \in Seq(Counts) /\ total \in Counts /\ mids' \in Seq(Counts) /\ Len(mids') = Len(mids) + 1
        /\ \A i \in 1..Len(mids) : mids'[i] = mids[i]
        /\ mids'[Len(mids) + 1] = total
    BY <2>1 DEF Ordered
  <2>3. \A s \in Sides : total[s] \in Nat
    BY <2>2 DEF Counts, Sides
  <2>4. Ordered'
    BY <2>1, <2>2, <2>3 DEF Ordered, Sides
  <2> QED BY <2>1, <2>4, BuildingKeeps
<1>3. CASE Augment
  <2>1. /\ phase \in {"building", "augmenting"} /\ mids' = <<OfRouter>> \o mids
        /\ phase' = "augmenting" /\ UNCHANGED <<total, stack, answer>>
    BY <1>3 DEF Augment
  <2>2. OfRouter \in Counts /\ \A s \in Sides : OfRouter[s] = 0
    BY DEF OfRouter, Counts, Sides
  <2>3. /\ mids \in Seq(Counts) /\ total \in Counts /\ mids' \in Seq(Counts) /\ Len(mids') = Len(mids) + 1
        /\ \A i \in 2..Len(mids) + 1 : mids'[i] = mids[i - 1]
        /\ mids'[1] = OfRouter
    BY <2>1, <2>2 DEF Ordered
  <2>4. \A c \in Counts, s \in Sides : c[s] \in Nat
    BY DEF Counts, Sides
  <2>5. \A s \in Sides : \A i \in 1..Len(mids') :
          /\ mids'[i][s] <= total[s]
          /\ \A j \in 1..Len(mids') : i <= j => mids'[i][s] <= mids'[j][s]
    <3> TAKE s \in Sides
    <3> TAKE i \in 1..Len(mids')
    <3>1. CASE i = 1
      BY <2>2, <2>3, <2>4, <3>1
    <3>2. CASE i # 1
      <4>1. i \in 2..Len(mids) + 1 /\ i - 1 \in 1..Len(mids)
        BY <2>3, <3>2
      <4>2. mids'[i][s] <= total[s]
        BY <2>3, <4>1 DEF Ordered
      <4>3. ASSUME NEW j \in 1..Len(mids'), i <= j PROVE mids'[i][s] <= mids'[j][s]
        <5>1. j \in 2..Len(mids) + 1 /\ j - 1 \in 1..Len(mids) /\ i - 1 <= j - 1
          BY <2>3, <4>1, <4>3
        <5> QED BY <2>3, <4>1, <5>1 DEF Ordered
      <4> QED BY <4>2, <4>3
    <3> QED BY <3>1, <3>2
  <2>6. Ordered'
    BY <2>1, <2>3, <2>5 DEF Ordered
  <2> QED BY <2>1, <2>6, BuildingKeeps
<1>4. CASE Call
  <2> DEFINE first == Activation(<<>>)
  <2>1. /\ phase' = "calling" /\ stack' = <<first>> /\ UNCHANGED <<mids, total, config, answer>>
        /\ answer = Nothing
    BY <1>4 DEF Call, GoodAnswer
  <2>2. first \in Activations /\ first.stage = "input" /\ first.input = <<>> /\ first.result = Nothing
    BY DEF Activation, Activations, Outcomes
  <2> HIDE DEF first
  <2>3. Begin(1, "in") = 0 /\ UpTo(0, "in") = <<>>
    BY DEF Begin, UpTo
  <2>4. GoodInput(first, 1) /\ GoodOutput(first.result, 1, End(1, "out"))
    BY <2>2, <2>3 DEF GoodInput, GoodOutput, Nothing
  <2>5. GoodInput(first, 1)' /\ GoodOutput(first.result, 1, End(1, "out"))'
    BY <2>1, <2>4, GoodStays DEF first
  <2>6. Len(mids) \in Nat
    BY DEF Ordered
  <2>7. stack' \in Seq(Activations) /\ Len(stack') = 1 /\ stack'[1] = first /\ Depth' = 1
    BY <2>1, <2>2 DEF Depth
  <2>8. GoodStack'
    BY <2>1, <2>2, <2>5, <2>6, <2>7 DEF GoodStack, first
  <2>9. Ordered' /\ GoodAnswer'
    BY <2>1 DEF Ordered, GoodAnswer, GoodOutput, Nothing
  <2> QED BY <2>8, <2>9
<1>5. ASSUME phase = "calling"
      PROVE  /\ Depth \in 1..Len(mids) + 1 /\ Depth = Len(stack) /\ stack \in Seq(Activations)
             /\ Top \in Activations /\ Top = stack[Depth]
             /\ GoodInput(Top, Depth) /\ GoodOutput(Top.result, Depth, End(Depth, "out"))
             /\ Top.stage = "output" => Top.result.is = "output"
  BY <1>5 DEF GoodStack, Top, Depth
<1>6. \A e \in Thrown : /\ Error(e) \in Outcomes /\ Error(e).is = "error"
                         /\ \A n, low : GoodOutput(Error(e), n, low)
  BY DEF Outcomes, Error, GoodOutput
<1>7. ASSUME NEW e \in Thrown, phase = "calling", UNCHANGED <<mids, total, config>>, Leave(Error(e))
      PROVE  CallInv'
  BY <1>6, <1>7, LeaveKeeps
<1>8. CASE ValidateInput
  <2>1. phase = "calling" /\ Top.stage = "input" /\ UNCHANGED <<mids, total, config>>
    BY <1>8 DEF ValidateInput, In
  <2>2. CASE /\ stack' = [stack EXCEPT ![Depth].stage = "running", ![Depth].input = @ \o Segment(Depth, "in")]
             /\ UNCHANGED <<phase, answer>>
    <3> DEFINE new == [Top EXCEPT !.stage = "running", !.input = @ \o Segment(Depth, "in")]
    <3>1. stack' = [stack EXCEPT ![Depth] = new]
      BY <1>5, <2>1, <2>2
    <3>2. Top.input = UpTo(Begin(Depth, "in"), "in") /\ Top.result = Nothing
      BY <1>5, <2>1 DEF GoodInput
    <3>3. Top.input \o Segment(Depth, "in") = UpTo(End(Depth, "in"), "in")
      BY <1>5, <2>1, <3>2, Passing
    <3>4. UpTo(End(Depth, "in"), "in") \in Seq(Int)
      <4>1. End(Depth, "in") \in Nat
        BY <1>5, <2>1, Bounds DEF Sides
      <4> QED BY <4>1 DEF UpTo
    <3>5. /\ new \in Activations /\ new.stage = "running" /\ new.result = Nothing
          /\ new.input = UpTo(End(Depth, "in"), "in")
      BY <1>5, <2>1, <3>2, <3>3, <3>4 DEF Activations
    <3> HIDE DEF new
    <3>6. GoodInput(new, Depth) /\ GoodOutput(new.result, Depth, End(Depth, "out"))
      BY <3>5 DEF GoodInput, GoodOutput, Nothing
    <3> QED BY <2>1, <2>2, <3>1, <3>5, <3>6, TopChanges
  <2>3. ASSUME NEW e \in Invalid, Leave(Error(e)) PROVE CallInv'
    BY <1>7, <2>1, <2>3 DEF Invalid, Thrown
  <2> QED BY <1>8, <2>2, <2>3 DEF ValidateInput
<1>9. CASE CallNext
  <2> DEFINE new == Activation(Top.input)
  <2>1. /\ phase = "calling" /\ Top.stage = "running" /\ Depth # Len(mids) + 1
        /\ stack' = Append(stack, new) /\ UNCHANGED <<mids, total, config, phase, answer>>
    BY <1>9 DEF CallNext, In, IsHandler
  <2>2. /\ Depth \in 1..Len(mids) + 1 /\ Depth = Len(stack) /\ stack \in Seq(Activations)
        /\ Top \in Activations /\ Top = stack[Depth] /\ GoodInput(Top, Depth)
        /\ Depth + 1 \in 1..Len(mids) + 1 /\ Len(mids) \in Nat
    <3>1. Len(mids) \in Nat
      BY DEF Ordered
    <3> QED BY <1>5, <2>1, <3>1
  <2>3. new \in Activations /\ new.stage = "input" /\ new.input = Top.input /\ new.result = Nothing
    BY <2>2 DEF Activation, Activations, Outcomes
  <2> HIDE DEF new
  <2>4. new.input = UpTo(Begin(Depth + 1, "in"), "in")
    <3>1. Begin(Depth + 1, "in") = End(Depth, "in")
      BY <2>2, Bounds DEF Sides
    <3> QED BY <2>1, <2>2, <2>3, <3>1 DEF GoodInput
  <2>5. GoodInput(new, Depth + 1) /\ GoodOutput(new.result, Depth + 1, End(Depth + 1, "out"))
    BY <2>3, <2>4 DEF GoodInput, GoodOutput, Nothing
  <2>6. /\ stack' \in Seq(Activations) /\ Len(stack') = Depth + 1 /\ Depth' = Depth + 1
        /\ \A n \in 1..Depth : stack'[n] = stack[n]
        /\ stack'[Depth + 1] = new
    BY <2>1, <2>2, <2>3 DEF Depth
  <2>7. \A n \in 1..Depth + 1 :
          /\ GoodInput(stack'[n], n) /\ GoodOutput(stack'[n].result, n, End(n, "out"))
          /\ stack'[n].stage = "output" => stack'[n].result.is = "output"
          /\ n < Depth + 1 => stack'[n].stage = "running"
    <3> TAKE n \in 1..Depth + 1
    <3>1. CASE n = Depth + 1
      BY <2>3, <2>5, <2>6, <3>1
    <3>2. CASE n # Depth + 1
      <4>1. n \in 1..Depth /\ stack'[n] = stack[n] /\ (n = Depth \/ n < Depth)
        BY <2>2, <2>6, <3>2
      <4> QED BY <2>1, <2>2, <4>1 DEF GoodStack
    <3> QED BY <3>1, <3>2
  <2>8. \A n \in 1..Depth' : GoodInput(stack[n], n)' /\ GoodOutput(stack[n].result, n, End(n, "out"))'
    BY <2>1, <2>6, <2>7, GoodStays
  <2>9. GoodStack'
    BY <2>1, <2>2, <2>6, <2>7, <2>8 DEF GoodStack
  <2>10. Ordered' /\ GoodAnswer'
    BY <2>1 DEF Ordered, GoodAnswer, GoodOutput, End, Descending
  <2> QED BY <2>9, <2>10
<1>10. ASSUME NEW r \in Outcomes, phase = "calling", Top.stage = "running", r.is = "output",
              GoodOutput(r, Depth, End(Depth, "out")), Becomes("output", r),
              UNCHANGED <<mids, total, config, phase, answer>>
       PROVE  CallInv'
  <2> DEFINE new == [Top EXCEPT !.stage = "output", !.result = r]
  <2>1. stack' = [stack EXCEPT ![Depth] = new]
    BY <1>5, <1>10 DEF Becomes
  <2>2. /\ new \in Activations /\ new.stage = "output" /\ new.result = r /\ new.input = Top.input
    BY <1>5, <1>10 DEF Activations
  <2> HIDE DEF new
  <2>3. GoodInput(new, Depth)
    BY <1>5, <1>10, <2>2 DEF GoodInput
  <2> QED BY <1>10, <2>1, <2>2, <2>3, TopChanges
<1>11. ASSUME phase = "calling"
       PROVE  /\ Output(Depth, <<>>) \in Outcomes /\ Output(Depth, <<>>).is = "output"
              /\ GoodOutput(Output(Depth, <<>>), Depth, End(Depth, "out"))
  <2>1. Depth \in 1..Len(mids) + 1 /\ Len(mids) \in Nat /\ End(Depth, "out") \in Nat
    BY <1>5, <1>11, Bounds DEF Sides, Ordered
  <2>2. Descending(End(Depth, "out"), End(Depth, "out")) = <<>>
    BY <2>1 DEF Descending
  <2>3. /\ Output(Depth, <<>>) \in Outcomes /\ Output(Depth, <<>>).is = "output"
        /\ Output(Depth, <<>>).from = Depth /\ Output(Depth, <<>>).passed = <<>>
    <3>1. Depth \in Nat
      BY <2>1
    <3>2. <<>> \in Seq(Int)
      OBVIOUS
    <3> QED BY <3>1, <3>2, OutputIsOutcome, Zenon
  <2> QED BY <2>1, <2>2, <2>3 DEF GoodOutput
<1>12. CASE MiddlewareEnds
  <2>1. phase = "calling" /\ Top.stage = "running" /\ UNCHANGED <<mids, total, config>>
    BY <1>12 DEF MiddlewareEnds, In
  <2>2. ASSUME NEW r \in {Output(Depth, <<>>)} \cup (IF Top.result.is = "output" THEN {Top.result} ELSE {}),
               Becomes("output", r), UNCHANGED <<phase, answer>>
        PROVE  CallInv'
    <3>1. r \in Outcomes /\ r.is = "output" /\ GoodOutput(r, Depth, End(Depth, "out"))
      BY <1>5, <1>11, <2>1, <2>2 DEF Activations
    <3> QED BY <1>10, <2>1, <2>2, <3>1
  <2>3. CASE Top.result.is = "error" /\ Leave(Top.result)
    <3>1. Top.result \in Outcomes /\ Top.result.is # "nothing"
          /\ GoodOutput(Top.result, Depth, Begin(Depth, "out"))
      BY <1>5, <2>1, <2>3 DEF Activations, GoodOutput
    <3> QED BY <2>1, <2>3, <3>1, LeaveKeeps
  <2>4. ASSUME NEW e \in ORPCErrors \cup {Other}, Leave(Error(e)) PROVE CallInv'
    BY <1>7, <2>1, <2>4 DEF Thrown
  <2> QED BY <1>12, <2>2, <2>3, <2>4 DEF MiddlewareEnds
<1>13. CASE HandlerEnds
  <2>1. phase = "calling" /\ Top.stage = "running" /\ UNCHANGED <<mids, total, config>>
    BY <1>13 DEF HandlerEnds, In
  <2>2. CASE Becomes("output", Output(Depth, <<>>)) /\ UNCHANGED <<phase, answer>>
    BY <1>10, <1>11, <2>1, <2>2
  <2>3. CASE Leave(Error(Other))
    BY <1>7, <2>1, <2>3 DEF Thrown
  <2>4. ASSUME NEW e \in ORPCErrors, Leave(Error(e)) \/ Leave(Error(Returned(e))) PROVE CallInv'
    <3>1. Returned(e) \in ORPCErrors
      BY DEF Returned, ORPCErrors
    <3> QED BY <1>7, <2>1, <2>4, <3>1 DEF Thrown
  <2> QED BY <1>13, <2>2, <2>3, <2>4 DEF HandlerEnds
<1>14. CASE ValidateOutput
  <2> DEFINE mine == Reverse(Segment(Depth, "out"))
             result == Output(Top.result.from, Top.result.passed \o mine)
  <2>1. /\ phase = "calling" /\ Top.stage = "output" /\ UNCHANGED <<mids, total, config>>
        /\ Leave(result) \/ \E e \in Invalid : Leave(Error(e))
    BY <1>14 DEF ValidateOutput, In
  <2>2. ASSUME NEW e \in Invalid, Leave(Error(e)) PROVE CallInv'
    BY <1>7, <2>1, <2>2 DEF Invalid, Thrown
  <2>3. CASE Leave(result)
    <3>1. /\ Top.result.from \in Depth..Len(mids) + 1 /\ Depth \in 1..Len(mids) + 1 /\ Len(mids) \in Nat
          /\ Top.result.passed = Descending(End(Depth, "out"), End(Top.result.from, "out"))
      BY <1>5, <2>1 DEF GoodOutput, Ordered
    <3>2. Top.result.passed \o mine = Descending(Begin(Depth, "out"), End(Top.result.from, "out"))
      BY <3>1, Passing
    <3>3. Descending(Begin(Depth, "out"), End(Top.result.from, "out")) \in Seq(Int)
      <4>1. Begin(Depth, "out") \in Nat /\ End(Top.result.from, "out") \in Nat
            /\ Begin(Depth, "out") <= End(Top.result.from, "out")
        BY SMTT(20), <3>1, Bounds DEF Sides
      <4> QED BY <4>1 DEF Descending
    <3>4. /\ result \in Outcomes /\ result.is = "output" /\ result.from = Top.result.from
          /\ result.passed = Top.result.passed \o mine
      <4>1. Top.result.from \in Nat
        BY <3>1
      <4>2. Top.result.passed \o mine \in Seq(Int)
        BY <3>2, <3>3, Zenon
      <4> QED BY <4>1, <4>2, OutputIsOutcome, Zenon
    <3> HIDE DEF result, mine
    <3>5. GoodOutput(result, Depth, Begin(Depth, "out"))
      BY <3>1, <3>2, <3>4 DEF GoodOutput
    <3> QED BY <2>1, <2>3, <3>4, <3>5, LeaveKeeps
  <2> QED BY <2>1, <2>2, <2>3
<1>15. CASE UNCHANGED callVars
  <2>1. UNCHANGED <<mids, total, config, phase, stack, answer>> /\ Depth' = Depth
    BY <1>15 DEF callVars, Depth
  <2>2. \A n \in 1..Depth : GoodInput(stack[n], n)' /\ GoodOutput(stack[n].result, n, End(n, "out"))'
    BY <2>1, GoodStays DEF GoodStack
  <2>3. GoodStack'
    BY <2>1, <2>2 DEF GoodStack
  <2>4. Ordered' /\ GoodAnswer'
    BY <2>1 DEF Ordered, GoodAnswer, GoodOutput, End, Descending
  <2> QED BY <2>3, <2>4
<1> QED BY <1>1, <1>2, <1>3, <1>4, <1>8, <1>9, <1>12, <1>13, <1>14, <1>15 DEF CallNextState, Sides

\* A call is checked on both sides, for procedures of any number of middlewares
\* and schemas and middlewares that call next as often as they like
\* (executeProcedureInternal, orderedMiddlewares, reconcileORPCError).
THEOREM CallsAreCheckedBothWays == CallSpec => []CheckedBothWays
<1>1. CallInit => CallInv
  <2> SUFFICES ASSUME CallInit PROVE CallInv
    OBVIOUS
  <2>1. Ordered
    BY DEF CallInit, Ordered, Counts
  <2>2. GoodStack /\ GoodAnswer
    BY DEF CallInit, GoodStack, GoodAnswer, GoodOutput, Depth, Nothing
  <2> QED BY <2>1, <2>2 DEF CallInv
<1>2. CallInv => CheckedBothWays
  <2> SUFFICES ASSUME CallInv PROVE CheckedBothWays
    OBVIOUS
  <2>1. \A n \in 1..Depth : stack[n].stage # "input" => stack[n].input = UpTo(End(n, "in"), "in")
    BY DEF CallInv, GoodStack, GoodInput
  <2>2. ASSUME answer.is = "output" PROVE answer.passed = Reverse(UpTo(End(answer.from, "out"), "out"))
    <3>1. answer.from \in 1..Len(mids) + 1 /\ answer.passed = Descending(0, End(answer.from, "out"))
      BY <2>2 DEF CallInv, GoodAnswer, GoodOutput
    <3>2. End(answer.from, "out") \in Nat
      BY <3>1, Bounds DEF CallInv, Sides
    <3>3. CASE config.out
      BY <3>1, <3>2, <3>3, ReverseOfAll DEF Descending, UpTo
    <3>4. CASE ~config.out
      BY <3>1, <3>4 DEF Descending, UpTo, Reverse
    <3> QED BY <3>3, <3>4
  <2> QED BY <2>1, <2>2 DEF CheckedBothWays, CallInv, GoodAnswer
<1> QED BY <1>1, <1>2, CallStep, PTL DEF CallSpec

-----------------------------------------------------------------------------
(* A form that is read as it comes.  Total is what the parser reads: a line  *)
(* break, for the boundary that has no line before it, and the bytes of the  *)
(* form; the proof says where in it each piece of the form is, that a        *)
(* delimiter is nowhere else, and at which byte the parser is.               *)

\* The length of two sequences together.
LEMMA ConcatLength ==
  ASSUME NEW S, NEW s \in Seq(S), NEW t \in Seq(S), NEW m \in Nat, NEW n \in Nat, Len(s) = m, Len(t) = n
  PROVE  s \o t \in Seq(S) /\ Len(s \o t) = m + n
BY ConcatProperties

\* From its n-th byte on, b reads s.
Reads(b, n, s) ==
  n \in Nat /\ n + Len(s) <= Len(b) /\ \A i \in 1..Len(s) : b[n + i] = s[i]

\* Two sequences are read, one after the other.
LEMMA ReadsConcat ==
  ASSUME NEW S, NEW b \in Seq(S), NEW s \in Seq(S), NEW t \in Seq(S), NEW n \in Nat
  PROVE  Reads(b, n, s \o t) <=> Reads(b, n, s) /\ Reads(b, n + Len(s), t)
<1>1. /\ Len(s) \in Nat /\ Len(t) \in Nat /\ Len(s \o t) = Len(s) + Len(t)
      /\ \A i \in 1..Len(s) : (s \o t)[i] = s[i]
      /\ \A i \in 1..Len(t) : (s \o t)[Len(s) + i] = t[i]
  BY ConcatProperties
<1>2. ASSUME Reads(b, n, s \o t) PROVE Reads(b, n, s) /\ Reads(b, n + Len(s), t)
  <2>1. \A i \in 1..Len(t) : b[n + Len(s) + i] = t[i]
    <3>1. SUFFICES ASSUME NEW i \in 1..Len(t) PROVE b[n + Len(s) + i] = t[i]
      OBVIOUS
    <3>2. Len(s) + i \in 1..(Len(s) + Len(t)) /\ n + (Len(s) + i) = n + Len(s) + i
      BY <1>1
    <3>3. b[n + (Len(s) + i)] = (s \o t)[Len(s) + i]
      BY <1>1, <1>2, <3>2 DEF Reads
    <3> QED BY <1>1, <3>2, <3>3
  <2>2. \A i \in 1..Len(s) : i \in 1..(Len(s) + Len(t))
    BY <1>1
  <2> QED BY <1>1, <1>2, <2>1, <2>2 DEF Reads
<1>3. ASSUME Reads(b, n, s), Reads(b, n + Len(s), t) PROVE Reads(b, n, s \o t)
  <2>1. SUFFICES ASSUME NEW i \in 1..(Len(s) + Len(t)) PROVE b[n + i] = (s \o t)[i]
    BY <1>1, <1>3 DEF Reads
  <2>2. CASE i \in 1..Len(s)
    BY <1>1, <1>3, <2>2 DEF Reads
  <2>3. CASE i \notin 1..Len(s)
    <3>1. i - Len(s) \in 1..Len(t) /\ Len(s) + (i - Len(s)) = i /\ n + Len(s) + (i - Len(s)) = n + i
      BY <1>1, <2>3
    <3> QED BY <1>1, <1>3, <3>1 DEF Reads
  <2> QED BY <2>2, <2>3
<1> QED BY <1>2, <1>3

\* What is read of a part is read of the whole.
LEMMA ReadsWithin ==
  ASSUME NEW S, NEW b \in Seq(S), NEW s \in Seq(S), NEW t \in Seq(S), NEW n, NEW m,
         Reads(b, n, s), Reads(s, m, t)
  PROVE  Reads(b, n + m, t)
<1>1. n \in Nat /\ m \in Nat /\ Len(s) \in Nat /\ Len(t) \in Nat /\ Len(b) \in Nat /\ m + Len(t) <= Len(s) /\ n + Len(s) <= Len(b)
  BY DEF Reads
<1>2. \A i \in 1..Len(t) : b[n + m + i] = t[i]
  <2>1. SUFFICES ASSUME NEW i \in 1..Len(t) PROVE b[n + m + i] = t[i]
    OBVIOUS
  <2>2. m + i \in 1..Len(s) /\ n + (m + i) = n + m + i
    BY <1>1
  <2> QED BY <2>2 DEF Reads
<1> QED BY <1>1, <1>2 DEF Reads

\* Reading and SubSeq.
LEMMA ReadsSubSeq ==
  ASSUME NEW S, NEW b \in Seq(S), NEW s \in Seq(S), NEW n \in Nat, n + Len(s) <= Len(b)
  PROVE  Reads(b, n, s) <=> SubSeq(b, n + 1, n + Len(s)) = s
<1> DEFINE t == SubSeq(b, n + 1, n + Len(s))
<1>1. t \in Seq(S) /\ Len(t) = Len(s) /\ Len(s) \in Nat /\ \A i \in 1..Len(s) : t[i] = b[n + i]
  <2>1. Len(s) \in Nat /\ \A i \in (n + 1)..(n + Len(s)) : b[i] \in S
    OBVIOUS
  <2> QED BY <2>1, SubSeqProperties
<1> HIDE DEF t
<1>2. ASSUME t = s PROVE Reads(b, n, s)
  BY <1>1, <1>2 DEF Reads
<1>3. ASSUME Reads(b, n, s) PROVE t = s
  <2>1. \A i \in 1..Len(t) : t[i] = s[i]
    BY <1>1, <1>3 DEF Reads
  <2> QED BY <1>1, <2>1, SeqEqual
<1> QED BY <1>2, <1>3 DEF t

\* What a part of a sequence is.
LEMMA SubSeqFacts ==
  ASSUME NEW S, NEW b \in Seq(S), NEW n \in Nat, NEW m \in Nat, n <= m, m <= Len(b)
  PROVE  /\ SubSeq(b, n + 1, m) \in Seq(S) /\ Len(SubSeq(b, n + 1, m)) = m - n
         /\ \A i \in 1..(m - n) : SubSeq(b, n + 1, m)[i] = b[n + i]
<1>1. \A i \in (n + 1)..m : b[i] \in S
  OBVIOUS
<1> QED BY <1>1, SubSeqProperties

\* What is read of the bytes from n up to m.
LEMMA ReadsOfSubSeq ==
  ASSUME NEW S, NEW b \in Seq(S), NEW s \in Seq(S), NEW n \in Nat, NEW m \in Nat, n <= m, m <= Len(b)
  PROVE  /\ SubSeq(b, n + 1, m) \in Seq(S) /\ Len(SubSeq(b, n + 1, m)) = m - n
         /\ \A i \in 1..(m - n) : SubSeq(b, n + 1, m)[i] = b[n + i]
         /\ \A i \in Nat : Reads(SubSeq(b, n + 1, m), i, s) <=> Reads(b, n + i, s) /\ n + i + Len(s) <= m
<1> DEFINE t == SubSeq(b, n + 1, m)
<1>1. t \in Seq(S) /\ Len(t) = m - n /\ Len(s) \in Nat /\ Len(b) \in Nat /\ \A i \in 1..(m - n) : t[i] = b[n + i]
  BY SubSeqFacts
<1> HIDE DEF t
<1>2. ASSUME NEW i \in Nat PROVE Reads(t, i, s) <=> Reads(b, n + i, s) /\ n + i + Len(s) <= m
  <2>1. CASE i + Len(s) <= m - n
    <3>1. \A j \in 1..Len(s) : i + j \in 1..(m - n) /\ n + (i + j) = n + i + j
      BY <1>1, <2>1
    <3>2. \A j \in 1..Len(s) : t[i + j] = b[n + i + j]
      BY <1>1, <3>1
    <3> QED BY SMTT(30), <1>1, <2>1, <3>2 DEF Reads
  <2>2. CASE ~(i + Len(s) <= m - n)
    BY <1>1, <2>2 DEF Reads
  <2> QED BY <2>1, <2>2
<1> QED BY <1>1, <1>2 DEF t

\* indexOf finds the first place where the needle is.
LEMMA IndexOfFacts ==
  ASSUME NEW S, NEW b \in Seq(S), NEW s \in Seq(S)
  PROVE  \/ IndexOf(s, b) = -1 /\ \A i \in Nat : ~Reads(b, i, s)
         \/ /\ IndexOf(s, b) \in Nat /\ Reads(b, IndexOf(s, b), s)
            /\ \A i \in Nat : Reads(b, i, s) => IndexOf(s, b) <= i
<1> DEFINE at == {i \in 0..Len(b) - Len(s) : SubSeq(b, i + 1, i + Len(s)) = s}
<1>1. \A i \in Nat : i \in at <=> Reads(b, i, s)
  <2>1. SUFFICES ASSUME NEW i \in Nat PROVE i \in at <=> Reads(b, i, s)
    OBVIOUS
  <2>2. CASE i + Len(s) <= Len(b)
    <3>1. i \in 0..Len(b) - Len(s)
      BY <2>2
    <3> QED BY <2>2, <3>1, ReadsSubSeq
  <2>3. CASE ~(i + Len(s) <= Len(b))
    <3>1. i \notin 0..Len(b) - Len(s)
      BY <2>3
    <3> QED BY <2>3, <3>1 DEF Reads
  <2> QED BY <2>2, <2>3
<1>2. at \in SUBSET Nat
  OBVIOUS
<1>3. IndexOf(s, b) = IF at = {} THEN -1 ELSE CHOOSE i \in at : \A j \in at : i <= j
  BY DEF IndexOf
<1> HIDE DEF at
<1>4. CASE at = {}
  BY <1>1, <1>3, <1>4
<1>5. CASE at # {}
  <2>1. \E i \in at : \A j \in at : i <= j
    BY <1>2, <1>5, LeastElement
  <2>2. IndexOf(s, b) \in at /\ \A j \in at : IndexOf(s, b) <= j
    BY <1>3, <1>5, <2>1
  <2> QED BY <1>1, <1>2, <2>2
<1> QED BY <1>4, <1>5

\* The bytes that the parser reads: the line break it starts with, and the form;
\* where the delimiter before part i begins (or the last one), where the headers of
\* part i do, and its body.
Total(f) == Crlf \o Bytes(f)
FirstParts(f, m) == [i \in 1..m |-> PartBytes(f.parts[i])]
DelimiterAt(f, i) == Len(f.preamble) + Len(FlattenSeq(FirstParts(f, i - 1)))
HeadStart(f, i) == DelimiterAt(f, i) + 5 + Len(LineBytes(f.parts[i].line))
BodyStart(f, i) == HeadStart(f, i) + Len(HeaderBytes(f.parts[i].header))

Lines == GoodLines \cup {"broken"}
Headers == GoodHeaders \cup {"missing", "malformed"}

\* The bytes: strings, and the literals among them, which the provers do not know to be
\* strings.
Symbols == STRING \cup {"cr", "lf", "-", "B", "sp", "x", "file", "field", "long", "malformed"}
\* The bytes that are written as such are symbols.
LEMMA LiteralBytes ==
  /\ "cr" \in Symbols /\ "lf" \in Symbols /\ "-" \in Symbols /\ "B" \in Symbols /\ "sp" \in Symbols /\ "x" \in Symbols
  /\ "file" \in Symbols /\ "field" \in Symbols /\ "long" \in Symbols /\ "malformed" \in Symbols
BY DEF Symbols

\* So are those of a body, a preamble and an epilogue.
LEMMA StringsAreSymbols == ASSUME NEW s \in Seq(STRING) PROVE s \in Seq(Symbols)
<1>1. STRING \subseteq Symbols
  BY DEF Symbols
<1>2. Seq(STRING) \subseteq Seq(Symbols)
  BY <1>1, SeqMonotonic
<1> QED BY <1>2

\* The line after a boundary consists of symbols,
LEMMA LineType == ASSUME NEW line \in Lines PROVE LineBytes(line) \in Seq(Symbols)
BY LiteralBytes DEF Lines, GoodLines, LineBytes, Crlf

\* and so does a header block.
LEMMA HeaderType == ASSUME NEW header \in Headers PROVE HeaderBytes(header) \in Seq(Symbols)
<1>1. CASE header = "missing"
  BY <1>1, LiteralBytes DEF HeaderBytes, Crlf
<1>2. CASE header = "long"
  <2> DEFINE xs == [i \in 1..MaxPartHeader |-> "x"]
  <2>1. xs \in Seq(Symbols)
    BY FormAssumption, LiteralBytes
  <2> HIDE DEF xs
  <2>2. <<header>> \in Seq(Symbols) /\ Crlf \in Seq(Symbols)
    BY <1>2, LiteralBytes DEF Crlf
  <2>3. <<header>> \o xs \o Crlf \o Crlf \in Seq(Symbols)
    BY <2>1, <2>2, ConcatProperties
  <2>4. HeaderBytes(header) = <<header>> \o xs \o Crlf \o Crlf
    BY <1>2 DEF HeaderBytes, xs
  <2> QED BY <2>3, <2>4
<1>3. CASE header \in {"file", "field", "malformed"}
  <2>1. HeaderBytes(header) = <<header>> \o Crlf \o Crlf
    BY <1>3 DEF HeaderBytes
  <2>2. <<header>> \in Seq(Symbols) /\ Crlf \in Seq(Symbols)
    BY <1>3, LiteralBytes DEF Crlf
  <2> QED BY <2>1, <2>2, ConcatProperties
<1> QED BY <1>1, <1>2, <1>3 DEF Headers, GoodHeaders

\* What a form consists of (FormAssumption).
LEMMA FormType ==
  ASSUME NEW f \in Forms
  PROVE  /\ f.preamble \in Seq(Symbols) /\ f.epilogue \in Seq(Symbols) /\ Len(f.parts) \in Nat
         /\ \A i \in 1..Len(f.parts) :
              /\ f.parts[i].line \in Lines /\ f.parts[i].header \in Headers /\ f.parts[i].body \in Seq(Symbols)
              /\ PartBytes(f.parts[i]) \in Seq(Symbols)
<1> DEFINE P == [line : Lines, body : Seq(STRING), header : Headers]
<1>1. f.preamble \in Seq(Symbols) /\ f.epilogue \in Seq(Symbols) /\ f.parts \in Seq(P)
  BY FormAssumption, StringsAreSymbols DEF Lines, Headers
<1>2. SUFFICES ASSUME NEW i \in 1..Len(f.parts)
               PROVE  /\ f.parts[i].line \in Lines /\ f.parts[i].header \in Headers /\ f.parts[i].body \in Seq(Symbols)
                      /\ PartBytes(f.parts[i]) \in Seq(Symbols)
  BY <1>1
<1>3. f.parts[i] \in P
  <2> HIDE DEF P
  <2> QED BY <1>1, ElementOfSeq
<1>4. f.parts[i].line \in Lines /\ f.parts[i].header \in Headers /\ f.parts[i].body \in Seq(Symbols)
  BY <1>3, StringsAreSymbols
<1>5. <<"-", "-", "B">> \in Seq(Symbols) /\ Crlf \in Seq(Symbols)
  BY LiteralBytes DEF Crlf
<1>6. PartBytes(f.parts[i]) \in Seq(Symbols)
  BY <1>4, <1>5, LineType, HeaderType, ConcatProperties DEF PartBytes
<1> QED BY <1>4, <1>6

\* The bytes of the first m parts.
LEMMA FirstPartsFacts ==
  ASSUME NEW f \in Forms, NEW m \in 0..Len(f.parts)
  PROVE  /\ FirstParts(f, m) \in Seq(Seq(Symbols)) /\ Len(FirstParts(f, m)) = m
         /\ \A i \in 1..m : FirstParts(f, m)[i] = PartBytes(f.parts[i])
         /\ FlattenSeq(FirstParts(f, m)) \in Seq(Symbols)
<1>1. m \in Nat /\ \A i \in 1..m : PartBytes(f.parts[i]) \in Seq(Symbols)
  BY FormType
<1>2. /\ FirstParts(f, m) \in Seq(Seq(Symbols)) /\ Len(FirstParts(f, m)) = m
      /\ \A i \in 1..m : FirstParts(f, m)[i] = PartBytes(f.parts[i])
  BY <1>1 DEF FirstParts
<1> QED BY <1>2, FlattenSeqType

\* They are those of the parts before, and those of the last.
LEMMA FirstPartsNext ==
  ASSUME NEW f \in Forms, NEW m \in 1..Len(f.parts)
  PROVE  FlattenSeq(FirstParts(f, m)) = FlattenSeq(FirstParts(f, m - 1)) \o PartBytes(f.parts[m])
<1>1. PICK n \in Nat : n = m - 1 /\ m = n + 1 /\ n \in 0..Len(f.parts) /\ m \in 0..Len(f.parts) /\ m \in 1..m
  BY FormType
<1>2. \A i \in 1..n : i \in 1..m
  BY <1>1
<1>3. \A i \in 1..n : FirstParts(f, m)[i] = FirstParts(f, n)[i]
  BY <1>1, <1>2, FirstPartsFacts
<1>4. FlattenSeq(FirstParts(f, m)) = FlattenSeq(FirstParts(f, n)) \o FirstParts(f, m)[n + 1]
  <2> DEFINE s == FirstParts(f, n)
             t == FirstParts(f, m)
  <2>1. /\ s \in Seq(Seq(Symbols)) /\ t \in Seq(Seq(Symbols)) /\ Len(s) = n /\ Len(t) = n + 1
        /\ \A i \in 1..n : t[i] = s[i]
    BY <1>1, <1>3, FirstPartsFacts
  <2> HIDE DEF s, t
  <2>2. FlattenSeq(t) = FlattenSeq(s) \o t[n + 1]
    BY <2>1, FlattenOfMore
  <2> QED BY <2>2 DEF s, t
<1>5. FirstParts(f, m)[n + 1] = PartBytes(f.parts[m])
  BY <1>1, FirstPartsFacts
<1> QED BY <1>1, <1>4, <1>5

\* A sequence reads itself.
LEMMA ReadsAll == ASSUME NEW S, NEW b \in Seq(S) PROVE Reads(b, 0, b)
BY DEF Reads

\* The bytes of all parts begin with those of the first m.
LEMMA FirstPartsAreRead ==
  ASSUME NEW f \in Forms, NEW m \in 0..Len(f.parts)
  PROVE  Reads(FlattenSeq(FirstParts(f, Len(f.parts))), 0, FlattenSeq(FirstParts(f, m)))
<1> DEFINE n == Len(f.parts)
           all == FlattenSeq(FirstParts(f, n))
           T == {j \in 0..n : ~Reads(all, 0, FlattenSeq(FirstParts(f, n - j)))}
<1>1. n \in Nat /\ all \in Seq(Symbols)
  BY FormType, FirstPartsFacts
<1> HIDE DEF n
<1>2. T = {}
  <2>1. SUFFICES ASSUME T # {} PROVE FALSE
    OBVIOUS
  <2>2. T \in SUBSET Nat
    OBVIOUS
  <2>3. PICK k \in T : \A j \in T : k <= j
    BY <2>1, <2>2, LeastElement
  <2>4. k \in 0..n /\ ~Reads(all, 0, FlattenSeq(FirstParts(f, n - k)))
    OBVIOUS
  <2>5. k # 0
    BY <1>1, <2>4, ReadsAll
  <2>6. k - 1 \in 0..n /\ ~(k <= k - 1) /\ n - (k - 1) \in 1..n /\ (n - (k - 1)) - 1 = n - k /\ n - k \in 0..n
    BY <1>1, <2>4, <2>5
  <2>7. Reads(all, 0, FlattenSeq(FirstParts(f, n - (k - 1))))
    BY <2>3, <2>6
  <2>8. FlattenSeq(FirstParts(f, n - (k - 1))) = FlattenSeq(FirstParts(f, n - k)) \o PartBytes(f.parts[n - (k - 1)])
    BY <2>6, FirstPartsNext DEF n
  <2>9. FlattenSeq(FirstParts(f, n - k)) \in Seq(Symbols) /\ PartBytes(f.parts[n - (k - 1)]) \in Seq(Symbols)
    BY <2>6, FirstPartsFacts, FormType DEF n
  <2> HIDE DEF all
  <2>10. PICK z \in Nat : z = 0
    OBVIOUS
  <2>11. Reads(all, z, FlattenSeq(FirstParts(f, n - k)) \o PartBytes(f.parts[n - (k - 1)]))
    BY <2>7, <2>8, <2>10
  <2>12. Reads(all, z, FlattenSeq(FirstParts(f, n - k)))
    BY <1>1, <2>9, <2>11, ReadsConcat, Zenon
  <2> QED BY <2>4, <2>10, <2>12
<1>3. n - m \in 0..n /\ n - (n - m) = m
  BY <1>1 DEF n
<1> QED BY <1>2, <1>3 DEF n

\* Where what is in the bytes that the parser reads.
LEMMA PiecesAreRead ==
  ASSUME NEW f \in Forms
  PROVE  /\ Total(f) \in Seq(Symbols) /\ Bytes(f) \in Seq(Symbols) /\ Len(Total(f)) = Len(Bytes(f)) + 2
         /\ Reads(Total(f), 2, Bytes(f)) /\ Reads(Total(f), 0, Crlf \o f.preamble)
         /\ \A i \in 1..Len(f.parts) :
              /\ DelimiterAt(f, i + 1) = DelimiterAt(f, i) + Len(PartBytes(f.parts[i]))
              /\ Reads(Total(f), DelimiterAt(f, i) + 2, PartBytes(f.parts[i]))
         /\ DelimiterAt(f, 1) = Len(f.preamble)
         /\ Reads(Total(f), DelimiterAt(f, Len(f.parts) + 1) + 2, <<"-", "-", "B", "-", "-">>)
<1> DEFINE n == Len(f.parts)
           all == FlattenSeq(FirstParts(f, n))
           close == <<"-", "-", "B", "-", "-">>
           pre == f.preamble
           post == f.epilogue
<1>1. /\ n \in Nat /\ all \in Seq(Symbols) /\ pre \in Seq(Symbols) /\ post \in Seq(Symbols)
      /\ close \in Seq(Symbols) /\ Crlf \in Seq(Symbols) /\ Len(Crlf) = 2
  <2>1. close \in Seq(Symbols) /\ Crlf \in Seq(Symbols) /\ Len(Crlf) = 2
    BY LiteralBytes DEF Crlf
  <2>2. n \in Nat /\ pre \in Seq(Symbols) /\ post \in Seq(Symbols)
    BY FormType
  <2>3. n \in 0..n
    BY <2>2
  <2>4. all \in Seq(Symbols)
    BY <2>3, FirstPartsFacts
  <2> QED BY <2>1, <2>2, <2>4
<1>2. Bytes(f) = pre \o all \o close \o post
  BY DEF Bytes, FirstParts
<1> HIDE DEF n, all, close, pre, post
<1> DEFINE b == Bytes(f)
<1>3. b \in Seq(Symbols)
  BY <1>1, <1>2, ConcatProperties
<1>4. Reads(b, 0, pre) /\ Reads(b, Len(pre), all) /\ Reads(b, Len(pre) + Len(all), close)
  <2>1. /\ pre \o all \in Seq(Symbols) /\ pre \o all \o close \in Seq(Symbols)
        /\ Len(pre \o all) = Len(pre) + Len(all) /\ Len(pre) \in Nat /\ Len(all) \in Nat
        /\ 0 + Len(pre) = Len(pre) /\ 0 + Len(pre \o all) = Len(pre) + Len(all)
    BY <1>1, ConcatProperties
  <2>2. Reads(b, 0, pre \o all \o close)
    <3>1. Reads(b, 0, (pre \o all \o close) \o post)
      BY <1>2, <1>3, ReadsAll
    <3>2. PICK z \in Nat : z = 0
      OBVIOUS
    <3>3. Reads(b, z, pre \o all \o close)
      BY <1>1, <1>3, <2>1, <3>1, <3>2, ReadsConcat, Zenon
    <3> QED BY <3>2, <3>3
  <2>3. Reads(b, 0, pre \o all) /\ Reads(b, Len(pre) + Len(all), close)
    BY <1>1, <1>3, <2>1, <2>2, ReadsConcat
  <2>4. Reads(b, 0, pre) /\ Reads(b, Len(pre), all)
    BY <1>1, <1>3, <2>1, <2>3, ReadsConcat
  <2> QED BY <2>3, <2>4
<1> HIDE DEF b
<1> DEFINE t == Total(f)
<1>5. t \in Seq(Symbols) /\ Len(t) = Len(b) + 2 /\ Reads(t, 0, Crlf) /\ Reads(t, 2, b)
  <2>1. PICK c \in Seq(Symbols) : c = Crlf /\ Len(c) = 2
    BY <1>1
  <2>2. t = c \o b
    BY <2>1 DEF Total, b
  <2> HIDE DEF t
  <2>3. c \o b \in Seq(Symbols) /\ Len(c \o b) = Len(c) + Len(b) /\ Len(b) \in Nat
    BY <1>3, ConcatProperties
  <2>4. t \in Seq(Symbols) /\ Len(t) = Len(b) + 2 /\ 0 + Len(c) = 2
    BY <2>1, <2>2, <2>3
  <2>5. Reads(t, 0, c \o b)
    BY <2>2, <2>4, ReadsAll
  <2>6. Reads(t, 0, c) /\ Reads(t, 2, b)
    <3>1. PICK z \in Nat : z = 0
      OBVIOUS
    <3>2. Reads(t, z, c) /\ Reads(t, z + Len(c), b)
      BY <1>3, <2>4, <2>5, <3>1, ReadsConcat, Zenon
    <3> QED BY <2>4, <3>1, <3>2
  <2> QED BY <2>1, <2>4, <2>6
<1> HIDE DEF t
<1>6. Reads(t, 0, Crlf \o pre)
  <2>1. Reads(t, 2, pre)
    <3>1. Reads(t, 2 + 0, pre)
      BY <1>1, <1>3, <1>4, <1>5, ReadsWithin
    <3> QED BY <3>1
  <2>2. 0 + Len(Crlf) = 2
    BY <1>1
  <2> QED BY <1>1, <1>5, <2>1, <2>2, ReadsConcat
<1>7. ASSUME NEW m \in 0..n
      PROVE  /\ DelimiterAt(f, m + 1) = Len(pre) + Len(FlattenSeq(FirstParts(f, m)))
             /\ FlattenSeq(FirstParts(f, m)) \in Seq(Symbols)
             /\ Reads(t, DelimiterAt(f, m + 1) + 2 - Len(FlattenSeq(FirstParts(f, m))), FlattenSeq(FirstParts(f, m)))
  <2> DEFINE first == FlattenSeq(FirstParts(f, m))
  <2>1. m + 1 - 1 = m
    BY <1>1
  <2>2. first \in Seq(Symbols)
    BY FirstPartsFacts DEF n
  <2>3. DelimiterAt(f, m + 1) = Len(pre) + Len(first)
    BY <2>1 DEF DelimiterAt, pre
  <2>4. Reads(all, 0, first)
    BY FirstPartsAreRead DEF n, all
  <2> HIDE DEF first
  <2>5. Reads(t, 2 + Len(pre) + 0, first)
    <3>1. Reads(t, 2 + Len(pre), all)
      BY <1>1, <1>3, <1>4, <1>5, ReadsWithin
    <3> QED BY <1>1, <1>5, <2>2, <2>4, <3>1, ReadsWithin
  <2>6. 2 + Len(pre) + 0 = DelimiterAt(f, m + 1) + 2 - Len(first)
    BY <1>1, <2>2, <2>3
  <2> QED BY <2>2, <2>3, <2>5, <2>6 DEF first
<1>8. ASSUME NEW i \in 1..n
      PROVE  /\ DelimiterAt(f, i + 1) = DelimiterAt(f, i) + Len(PartBytes(f.parts[i]))
             /\ Reads(t, DelimiterAt(f, i) + 2, PartBytes(f.parts[i]))
  <2> DEFINE part == PartBytes(f.parts[i])
             before == FlattenSeq(FirstParts(f, i - 1))
  <2>1. i - 1 \in 0..n /\ i \in 0..n /\ i - 1 + 1 = i /\ i \in 1..Len(f.parts)
    BY <1>1 DEF n
  <2>2. part \in Seq(Symbols) /\ FlattenSeq(FirstParts(f, i)) = before \o part
    BY <2>1, FormType, FirstPartsNext
  <2>3. DelimiterAt(f, i) = Len(pre) + Len(before) /\ before \in Seq(Symbols)
    BY <1>7, <2>1
  <2>4. DelimiterAt(f, i + 1) = Len(pre) + Len(before \o part)
    BY <1>7, <2>1, <2>2
  <2>9. Reads(t, DelimiterAt(f, i + 1) + 2 - Len(before \o part), before \o part)
    BY <1>7, <2>1, <2>2
  <2> HIDE DEF part, before
  <2>5. PICK x \in Nat, y \in Nat, z \in Nat : x = Len(pre) /\ y = Len(before) /\ z = Len(part)
    BY <1>1, <2>2, <2>3
  <2>6. Len(before \o part) = y + z
    BY <2>2, <2>3, <2>5, ConcatProperties
  <2>10. DelimiterAt(f, i) = x + y /\ DelimiterAt(f, i + 1) = x + (y + z)
    BY <2>3, <2>4, <2>5, <2>6
  <2>7. DelimiterAt(f, i + 1) + 2 - Len(before \o part) \in Nat /\ (DelimiterAt(f, i + 1) + 2 - Len(before \o part)) + Len(before) = DelimiterAt(f, i) + 2
    BY <2>5, <2>6, <2>10
  <2>8. Reads(t, DelimiterAt(f, i) + 2, part)
    BY <1>5, <2>2, <2>3, <2>7, <2>9, ReadsConcat
  <2>11. DelimiterAt(f, i + 1) = DelimiterAt(f, i) + Len(part)
    BY <2>5, <2>10
  <2> QED BY <2>8, <2>11 DEF part
<1>9. DelimiterAt(f, 1) = Len(pre)
  <2>1. 0 \in 0..n /\ 0 + 1 = 1
    BY <1>1
  <2>2. FirstParts(f, 0) \in Seq(Seq(Symbols)) /\ Len(FirstParts(f, 0)) = 0
    BY <2>1, FirstPartsFacts DEF n
  <2>3. Len(FlattenSeq(FirstParts(f, 0))) = 0
    BY <2>2, FlattenOfEmpty
  <2>4. DelimiterAt(f, 1) = Len(pre) + Len(FlattenSeq(FirstParts(f, 0)))
    BY <1>7, <2>1
  <2>5. Len(pre) \in Nat
    BY <1>1
  <2> QED BY <2>3, <2>4, <2>5
<1>10. Reads(t, DelimiterAt(f, n + 1) + 2, close)
  <2>1. n \in 0..n /\ Len(pre) \in Nat /\ Len(all) \in Nat
    BY <1>1
  <2>2. DelimiterAt(f, n + 1) = Len(pre) + Len(all)
    BY <1>7, <2>1 DEF all
  <2>3. 2 + (Len(pre) + Len(all)) = DelimiterAt(f, n + 1) + 2
    BY <2>1, <2>2
  <2>4. Reads(t, 2 + (Len(pre) + Len(all)), close)
    BY <1>1, <1>3, <1>4, <1>5, ReadsWithin
  <2> QED BY <2>3, <2>4
<1> QED BY <1>3, <1>5, <1>6, <1>8, <1>9, <1>10 DEF t, b, n, close, pre

\* The bytes of a delimiter and of a line break.
LEMMA DelimiterFacts ==
  /\ delimiter \in Seq(Symbols) /\ Len(delimiter) = 5 /\ Crlf \in Seq(Symbols) /\ Len(Crlf) = 2
  /\ delimiter[1] = "cr" /\ delimiter[2] = "lf" /\ delimiter[3] = "-" /\ delimiter[4] = "-" /\ delimiter[5] = "B"
  /\ Crlf[1] = "cr" /\ Crlf[2] = "lf"
<1>1. delimiter = <<"cr", "lf", "-", "-", "B">>
  <2>1. <<"cr", "lf", "-", "-", "B">> = <<"cr", "lf">> \o <<"-", "-", "B">>
    OBVIOUS
  <2> QED BY <2>1 DEF delimiter, Crlf
<1>2. Crlf \in Seq(Symbols) /\ Len(Crlf) = 2 /\ Crlf[1] = "cr" /\ Crlf[2] = "lf"
  BY LiteralBytes DEF Crlf
<1> QED BY <1>1, <1>2, LiteralBytes

\* A line break and a boundary are a delimiter.
LEMMA DelimiterIsRead ==
  ASSUME NEW b \in Seq(Symbols), NEW n \in Nat, Reads(b, n, Crlf), Reads(b, n + 2, <<"-", "-", "B">>)
  PROVE  Reads(b, n, delimiter)
<1>1. <<"-", "-", "B">> \in Seq(Symbols)
  BY LiteralBytes
<1>2. Crlf \in Seq(Symbols) /\ Len(Crlf) = 2 /\ delimiter = Crlf \o <<"-", "-", "B">>
  BY DelimiterFacts DEF delimiter
<1> QED BY <1>1, <1>2, ReadsConcat

\* The pieces of one part.
LEMMA PartIsRead ==
  ASSUME NEW b \in Seq(Symbols), NEW n \in Nat,
         NEW line \in Seq(Symbols), NEW header \in Seq(Symbols), NEW body \in Seq(Symbols),
         Reads(b, n + 2, <<"-", "-", "B">> \o line \o header \o body \o Crlf)
  PROVE  /\ Reads(b, n + 2, <<"-", "-", "B">>)
         /\ Reads(b, n + 5, line) /\ Reads(b, n + 5 + Len(line), header)
         /\ Reads(b, n + 5 + Len(line) + Len(header), body)
         /\ Reads(b, n + 5 + Len(line) + Len(header) + Len(body), Crlf)
         /\ Len(<<"-", "-", "B">> \o line \o header \o body \o Crlf) = 5 + Len(line) + Len(header) + Len(body)
<1> DEFINE d == <<"-", "-", "B">>
<1>1. PICK v \in Nat : v = 3 /\ d \in Seq(Symbols) /\ Len(d) = v
  BY LiteralBytes
<1>2. PICK c \in Seq(Symbols), w \in Nat : c = Crlf /\ w = 2 /\ Len(c) = w
  BY DelimiterFacts
<1> HIDE DEF d
<1>12. d \in Seq(Symbols) /\ Len(d) = v
  BY <1>1
<1>13. Len(c) = w
  BY <1>2
<1>3. PICK x \in Nat, y \in Nat, z \in Nat : x = Len(line) /\ y = Len(header) /\ z = Len(body)
  OBVIOUS
<1>4. /\ d \o line \in Seq(Symbols) /\ Len(d \o line) = v + x
      /\ d \o line \o header \in Seq(Symbols) /\ Len(d \o line \o header) = v + x + y
      /\ d \o line \o header \o body \in Seq(Symbols) /\ Len(d \o line \o header \o body) = v + x + y + z
      /\ Len(d \o line \o header \o body \o c) = v + x + y + z + w
  <2>1. d \o line \in Seq(Symbols) /\ Len(d \o line) = v + x
    BY <1>12, <1>3, ConcatProperties
  <2>2. d \o line \o header \in Seq(Symbols) /\ Len(d \o line \o header) = v + x + y
    BY <1>3, <2>1, ConcatProperties
  <2>3. d \o line \o header \o body \in Seq(Symbols) /\ Len(d \o line \o header \o body) = v + x + y + z
    BY <1>3, <2>2, ConcatProperties
  <2>4. Len((d \o line \o header \o body) \o c) = v + x + y + z + w
    <3> DEFINE q == d \o line \o header \o body
    <3>1. q \in Seq(Symbols) /\ Len(q) = v + x + y + z
      BY <2>3
    <3> HIDE DEF q
    <3>2. Len(q \o c) = Len(q) + Len(c)
      BY <3>1, ConcatProperties
    <3>3. Len(q \o c) = v + x + y + z + w
      BY <1>13, <3>1, <3>2
    <3> QED BY <3>3 DEF q
  <2> QED BY <2>1, <2>2, <2>3, <2>4
<1>5. Reads(b, n + 2, (d \o line \o header \o body) \o c)
  BY <1>2 DEF d
<1>6. n + 2 \in Nat
  OBVIOUS
<1>7. Reads(b, n + 2, d \o line \o header \o body) /\ Reads(b, n + 2 + (v + x + y + z), c)
  BY <1>4, <1>5, <1>6, ReadsConcat
<1>8. Reads(b, n + 2, d \o line \o header) /\ Reads(b, n + 2 + (v + x + y), body)
  BY <1>4, <1>6, <1>7, ReadsConcat
<1>9. Reads(b, n + 2, d \o line) /\ Reads(b, n + 2 + (v + x), header)
  BY <1>4, <1>6, <1>8, ReadsConcat
<1>10. Reads(b, n + 2, d) /\ Reads(b, n + 2 + v, line)
  BY <1>12, <1>6, <1>9, ReadsConcat
<1>11. /\ n + 2 + v = n + 5 /\ n + 2 + (v + x) = n + 5 + x /\ n + 2 + (v + x + y) = n + 5 + x + y
       /\ n + 2 + (v + x + y + z) = n + 5 + x + y + z /\ v + x + y + z + w = 5 + x + y + z
  BY <1>1, <1>2, <1>3
<1> QED BY <1>2, <1>3, <1>4, <1>7, <1>8, <1>9, <1>10, <1>11 DEF d

\* A form: a delimiter before each part and at the end, and the line, the headers and
\* the body of each part.
LEMMA Layout ==
  ASSUME NEW f \in Forms
  PROVE  /\ \A i \in 1..(Len(f.parts) + 1) : DelimiterAt(f, i) \in Nat /\ Reads(Total(f), DelimiterAt(f, i), delimiter)
         /\ \A i \in 1..Len(f.parts) :
              /\ Reads(Total(f), DelimiterAt(f, i) + 5, LineBytes(f.parts[i].line))
              /\ Reads(Total(f), HeadStart(f, i), HeaderBytes(f.parts[i].header))
              /\ Reads(Total(f), BodyStart(f, i), f.parts[i].body)
              /\ DelimiterAt(f, i + 1) = BodyStart(f, i) + Len(f.parts[i].body)
              /\ HeadStart(f, i) \in Nat /\ BodyStart(f, i) \in Nat
         /\ Reads(Total(f), DelimiterAt(f, Len(f.parts) + 1) + 5, <<"-", "-">>)
<1> DEFINE n == Len(f.parts)
           t == Total(f)
<1>1. n \in Nat /\ t \in Seq(Symbols)
  BY FormType, PiecesAreRead
<1>2. ASSUME NEW i \in 1..n, DelimiterAt(f, i) \in Nat
      PROVE  /\ Reads(t, DelimiterAt(f, i) + 2, <<"-", "-", "B">>)
             /\ Reads(t, DelimiterAt(f, i) + 5, LineBytes(f.parts[i].line))
             /\ Reads(t, HeadStart(f, i), HeaderBytes(f.parts[i].header))
             /\ Reads(t, BodyStart(f, i), f.parts[i].body)
             /\ DelimiterAt(f, i + 1) = BodyStart(f, i) + Len(f.parts[i].body)
             /\ Reads(t, DelimiterAt(f, i + 1), Crlf)
             /\ HeadStart(f, i) \in Nat /\ BodyStart(f, i) \in Nat /\ DelimiterAt(f, i + 1) \in Nat
  <2>1. PICK line \in Seq(Symbols), header \in Seq(Symbols), body \in Seq(Symbols) :
          /\ line = LineBytes(f.parts[i].line) /\ header = HeaderBytes(f.parts[i].header) /\ body = f.parts[i].body
    <3>1. f.parts[i].line \in Lines /\ f.parts[i].header \in Headers /\ f.parts[i].body \in Seq(Symbols)
      BY FormType
    <3> QED BY <3>1, LineType, HeaderType
  <2>2. PICK s \in Nat : s = DelimiterAt(f, i)
    BY <1>2
  <2>3. /\ DelimiterAt(f, i + 1) = s + Len(PartBytes(f.parts[i]))
        /\ Reads(t, s + 2, PartBytes(f.parts[i]))
    BY <2>2, PiecesAreRead
  <2>4. PartBytes(f.parts[i]) = <<"-", "-", "B">> \o line \o header \o body \o Crlf
    BY <2>1 DEF PartBytes
  <2>5. HeadStart(f, i) = s + 5 + Len(line) /\ BodyStart(f, i) = s + 5 + Len(line) + Len(header)
    BY <2>1, <2>2 DEF HeadStart, BodyStart
  <2> HIDE DEF n, t
  <2>6. Reads(t, s + 2, <<"-", "-", "B">> \o line \o header \o body \o Crlf)
    BY <2>3, <2>4
  <2>7. /\ Reads(t, s + 2, <<"-", "-", "B">>)
        /\ Reads(t, s + 5, line) /\ Reads(t, s + 5 + Len(line), header)
        /\ Reads(t, s + 5 + Len(line) + Len(header), body)
        /\ Reads(t, s + 5 + Len(line) + Len(header) + Len(body), Crlf)
        /\ Len(<<"-", "-", "B">> \o line \o header \o body \o Crlf) = 5 + Len(line) + Len(header) + Len(body)
    BY <1>1, <2>6, PartIsRead
  <2>8. Len(PartBytes(f.parts[i])) = 5 + Len(line) + Len(header) + Len(body)
    BY <2>4, <2>7
  <2>9. PICK x \in Nat, y \in Nat, z \in Nat : x = Len(line) /\ y = Len(header) /\ z = Len(body)
    OBVIOUS
  <2>10. DelimiterAt(f, i + 1) = s + 5 + x + y + z
    BY <2>3, <2>8, <2>9
  <2>11. DelimiterAt(f, i + 1) = BodyStart(f, i) + Len(body) /\ Reads(t, DelimiterAt(f, i + 1), Crlf)
    BY <2>5, <2>7, <2>9, <2>10
  <2>12. HeadStart(f, i) \in Nat /\ BodyStart(f, i) \in Nat /\ DelimiterAt(f, i + 1) \in Nat
    BY <2>5, <2>9, <2>10
  <2> QED BY <2>1, <2>2, <2>5, <2>7, <2>11, <2>12
<1>3. DelimiterAt(f, 1) \in Nat /\ Reads(t, DelimiterAt(f, 1), Crlf)
  <2>1. PICK p \in Seq(Symbols) : p = f.preamble
    BY FormType
  <2>2. PICK c \in Seq(Symbols) : c = Crlf /\ Len(c) = 2
    BY DelimiterFacts
  <2>3. DelimiterAt(f, 1) = Len(p) /\ Len(p) \in Nat
    BY <2>1, PiecesAreRead
  <2>4. Reads(t, 0, c \o p)
    BY <2>1, <2>2, PiecesAreRead
  <2> HIDE DEF t
  <2>5. PICK k \in Nat, w \in Nat : k = Len(p) /\ w = 2
    BY <2>3
  <2>6. c \o p \in Seq(Symbols) /\ Len(c \o p) = w + k
    <3>1. Len(c) = w
      BY <2>2, <2>5
    <3>2. Len(p) = k
      BY <2>5
    <3> QED BY <3>1, <3>2, ConcatLength
  <2>7. SubSeq(c \o p, k + 1, k + 2) = c
    BY <2>1, <2>2, <2>5, FormAssumption
  <2> DEFINE q == c \o p
  <2> HIDE DEF q
  <2>8. q \in Seq(Symbols) /\ Len(q) = w + k /\ SubSeq(q, k + 1, k + 2) = c /\ Reads(t, 0, q)
    BY <2>4, <2>6, <2>7 DEF q
  <2>9. Reads(q, k, c)
    <3>1. k + Len(c) <= Len(q) /\ k + Len(c) = k + 2
      BY <2>2, <2>5, <2>8
    <3>2. SubSeq(q, k + 1, k + Len(c)) = c
      BY <2>8, <3>1
    <3> QED BY <2>8, <3>1, <3>2, ReadsSubSeq
  <2>10. Reads(t, 0 + k, c) /\ 0 + k = k
    <3>1. Reads(t, 0 + k, c)
      BY <1>1, <2>8, <2>9, ReadsWithin
    <3> QED BY <3>1
  <2> QED BY <2>2, <2>3, <2>5, <2>10
<1>4. \A i \in 1..(n + 1) : DelimiterAt(f, i) \in Nat /\ Reads(t, DelimiterAt(f, i), Crlf)
  <2>1. SUFFICES ASSUME NEW i \in 1..(n + 1) PROVE DelimiterAt(f, i) \in Nat /\ Reads(t, DelimiterAt(f, i), Crlf)
    OBVIOUS
  <2> DEFINE T == {j \in 1..(n + 1) : ~(DelimiterAt(f, j) \in Nat /\ Reads(t, DelimiterAt(f, j), Crlf))}
  <2>2. SUFFICES ASSUME T # {} PROVE FALSE
    BY <2>1
  <2> HIDE DEF n, t
  <2>3. T \in SUBSET Nat
    BY <1>1
  <2>4. PICK k \in T : \A j \in T : k <= j
    BY <2>2, <2>3, LeastElement
  <2>5. k \in 1..(n + 1) /\ ~(DelimiterAt(f, k) \in Nat /\ Reads(t, DelimiterAt(f, k), Crlf))
    OBVIOUS
  <2>6. k # 1
    BY <1>3, <2>5
  <2>7. k - 1 \in 1..n /\ k - 1 \in 1..(n + 1) /\ ~(k <= k - 1) /\ k - 1 + 1 = k
    BY <1>1, <2>5, <2>6
  <2>8. DelimiterAt(f, k - 1) \in Nat
    BY <2>4, <2>7
  <2> HIDE DEF T
  <2> QED BY <1>2, <2>5, <2>7, <2>8
<1>5. \A i \in 1..n : i \in 1..(n + 1)
  BY <1>1
<1>6. Reads(t, DelimiterAt(f, n + 1) + 2, <<"-", "-", "B">>) /\ Reads(t, DelimiterAt(f, n + 1) + 5, <<"-", "-">>)
  <2>1. n + 1 \in 1..(n + 1)
    BY <1>1
  <2>2. DelimiterAt(f, n + 1) \in Nat
    BY <1>4, <2>1
  <2>3. <<"-", "-", "B", "-", "-">> = <<"-", "-", "B">> \o <<"-", "-">>
    OBVIOUS
  <2>4. <<"-", "-", "B">> \in Seq(Symbols) /\ <<"-", "-">> \in Seq(Symbols) /\ Len(<<"-", "-", "B">>) = 3
    BY LiteralBytes
  <2>5. Reads(t, DelimiterAt(f, n + 1) + 2, <<"-", "-", "B">> \o <<"-", "-">>)
    BY <2>3, PiecesAreRead
  <2>6. PICK s \in Nat : s = DelimiterAt(f, n + 1) + 2 /\ s + 3 = DelimiterAt(f, n + 1) + 5
    BY <2>2
  <2> HIDE DEF n, t
  <2>7. Reads(t, s, <<"-", "-", "B">>) /\ Reads(t, s + 3, <<"-", "-">>)
    BY <1>1, <2>4, <2>5, <2>6, ReadsConcat
  <2> QED BY <2>6, <2>7
<1>7. \A i \in 1..(n + 1) : Reads(t, DelimiterAt(f, i), delimiter)
  <2>1. SUFFICES ASSUME NEW i \in 1..(n + 1) PROVE Reads(t, DelimiterAt(f, i), delimiter)
    OBVIOUS
  <2>2. Reads(t, DelimiterAt(f, i) + 2, <<"-", "-", "B">>)
    <3>1. i \in 1..n \/ i = n + 1
      BY <1>1
    <3> QED BY <1>2, <1>4, <1>6, <3>1
  <2> HIDE DEF n, t
  <2> QED BY <1>1, <1>4, <2>2, DelimiterIsRead
<1> QED BY <1>2, <1>4, <1>5, <1>6, <1>7

\* A delimiter begins with a line break and has no other: it does not overlap with the
\* next one, which begins where u ends or before.
LEMMA NoneOverlaps ==
  ASSUME NEW t \in Seq(Symbols), NEW u \in Seq(Symbols), NEW from \in Nat, NEW next \in Nat, NEW i \in Nat,
         Reads(t, from, u), next <= from + Len(u), t[next + 1] = "cr",
         \A j \in Nat : ~Reads(u, j, delimiter),
         from <= i, i < next
  PROVE  ~Reads(t, i, delimiter)
<1>1. SUFFICES ASSUME Reads(t, i, delimiter) PROVE FALSE
  OBVIOUS
<1>2. PICK l \in Nat : l = Len(u) /\ next <= from + l
  OBVIOUS
<1>3. \A j \in 1..5 : t[i + j] = delimiter[j]
  BY <1>1, DelimiterFacts DEF Reads
<1>4. CASE i + 5 <= from + l
  <2>1. PICK k \in Nat : k = i - from /\ i = from + k /\ k + 5 <= l
    BY <1>2, <1>4
  <2>2. \A j \in 1..5 : u[k + j] = delimiter[j]
    <3>1. SUFFICES ASSUME NEW j \in 1..5 PROVE u[k + j] = delimiter[j]
      OBVIOUS
    <3>2. k + j \in 1..l /\ from + (k + j) = i + j
      BY <1>2, <2>1
    <3>3. t[from + (k + j)] = u[k + j]
      BY <1>2, <3>2 DEF Reads
    <3> QED BY <1>3, <3>2, <3>3
  <2>3. Reads(u, k, delimiter)
    BY <1>2, <2>1, <2>2, DelimiterFacts DEF Reads
  <2> QED BY <2>1, <2>3
<1>5. CASE ~(i + 5 <= from + l)
  <2>1. PICK k \in 2..5 : next + 1 = i + k
    <3>1. next + 1 - i \in 2..5 /\ next + 1 = i + (next + 1 - i)
      BY <1>2, <1>5
    <3> QED BY <3>1
  <2>2. delimiter[k] = "cr"
    <3>1. k \in 1..5
      BY <2>1
    <3> QED BY <1>3, <2>1, <3>1
  <2>3. k = 2 \/ k = 3 \/ k = 4 \/ k = 5
    BY <2>1
  <2> QED BY <2>2, <2>3, DelimiterFacts
<1> QED BY <1>4, <1>5

\* The delimiters before the first part and after each part are the first ones there.
LEMMA NoEarlierDelimiter ==
  ASSUME NEW f \in Forms
  PROVE  /\ \A i \in Nat : i < DelimiterAt(f, 1) => ~Reads(Total(f), i, delimiter)
         /\ \A k \in 1..Len(f.parts) : \A i \in Nat :
              BodyStart(f, k) <= i /\ i < DelimiterAt(f, k + 1) => ~Reads(Total(f), i, delimiter)
<1> DEFINE n == Len(f.parts)
           t == Total(f)
<1>1. n \in Nat /\ t \in Seq(Symbols)
  BY FormType, PiecesAreRead
<1>2. \A i \in 1..(n + 1) : DelimiterAt(f, i) \in Nat /\ t[DelimiterAt(f, i) + 1] = "cr"
  <2>1. SUFFICES ASSUME NEW i \in 1..(n + 1) PROVE DelimiterAt(f, i) \in Nat /\ t[DelimiterAt(f, i) + 1] = "cr"
    OBVIOUS
  <2>2. DelimiterAt(f, i) \in Nat /\ Reads(t, DelimiterAt(f, i), delimiter)
    BY Layout
  <2> HIDE DEF t
  <2>3. 1 \in 1..Len(delimiter) /\ delimiter[1] = "cr"
    BY DelimiterFacts
  <2> QED BY <2>2, <2>3 DEF Reads
<1>3. ASSUME NEW i \in Nat, i < DelimiterAt(f, 1) PROVE ~Reads(t, i, delimiter)
  <2>1. PICK p \in Seq(Symbols) : p = f.preamble
    BY FormType
  <2>2. PICK c \in Seq(Symbols), w \in Nat : c = Crlf /\ w = 2 /\ Len(c) = w
    BY DelimiterFacts
  <2> DEFINE u == c \o p
  <2>3. IndexOf(delimiter, u) = -1
    BY <2>1, <2>2, FormAssumption
  <2>4. Reads(t, 0, u)
    BY <2>1, <2>2, PiecesAreRead
  <2>5. u \in Seq(Symbols) /\ Len(u) = w + Len(p)
    <3>1. Len(c) = w
      BY <2>2
    <3> QED BY <3>1, ConcatProperties
  <2> HIDE DEF u
  <2>6. \A j \in Nat : ~Reads(u, j, delimiter)
    BY <2>3, <2>5, DelimiterFacts, IndexOfFacts
  <2>7. DelimiterAt(f, 1) = Len(p)
    BY <2>1, PiecesAreRead
  <2>8. PICK s \in Nat : s = DelimiterAt(f, 1) /\ t[s + 1] = "cr" /\ s <= 0 + Len(u) /\ 0 <= i /\ i < s
    <3>1. 1 \in 1..(n + 1)
      BY <1>1
    <3>2. DelimiterAt(f, 1) \in Nat /\ t[DelimiterAt(f, 1) + 1] = "cr"
      BY <1>2, <3>1
    <3> HIDE DEF t
    <3>3. DelimiterAt(f, 1) <= 0 + Len(u)
      BY <2>2, <2>5, <2>7, <3>2
    <3> QED BY <1>3, <3>2, <3>3
  <2> HIDE DEF t
  <2> QED BY <1>1, <2>4, <2>5, <2>6, <2>8, NoneOverlaps
<1>4. ASSUME NEW k \in 1..n, NEW i \in Nat, BodyStart(f, k) <= i, i < DelimiterAt(f, k + 1)
      PROVE  ~Reads(t, i, delimiter)
  <2>1. PICK u \in Seq(Symbols) : u = f.parts[k].body
    BY FormType
  <2>2. IndexOf(delimiter, u) = -1
    BY <2>1, FormAssumption
  <2>3. \A j \in Nat : ~Reads(u, j, delimiter)
    BY <2>2, DelimiterFacts, IndexOfFacts
  <2>4. /\ Reads(t, BodyStart(f, k), u) /\ BodyStart(f, k) \in Nat
        /\ DelimiterAt(f, k + 1) = BodyStart(f, k) + Len(u)
    BY <2>1, Layout
  <2>5. PICK s \in Nat : s = DelimiterAt(f, k + 1) /\ t[s + 1] = "cr"
    <3>1. k + 1 \in 1..(n + 1)
      BY <1>1
    <3> QED BY <1>2, <3>1
  <2> HIDE DEF t
  <2>6. s <= BodyStart(f, k) + Len(u) /\ i < s
    BY <1>4, <2>4, <2>5
  <2> QED BY <1>1, <1>4, <2>3, <2>4, <2>5, <2>6, NoneOverlaps
<1> QED BY <1>3, <1>4

HeadersEnd == Crlf \o Crlf

\* The two line breaks that end a header block.
LEMMA HeadersEndFacts ==
  /\ HeadersEnd \in Seq(Symbols) /\ Len(HeadersEnd) = 4 /\ HeadersEnd[1] = "cr"
<1>1. HeadersEnd = <<"cr", "lf", "cr", "lf">>
  <2>1. <<"cr", "lf", "cr", "lf">> = <<"cr", "lf">> \o <<"cr", "lf">>
    OBVIOUS
  <2> QED BY <2>1 DEF HeadersEnd, Crlf
<1> QED BY <1>1, LiteralBytes

\* A block of headers is at most 5 bytes unless it is long, and ends where the first
\* empty line is.
IsBlock(h, header, k) ==
  /\ h \in Seq(Symbols) /\ Len(h) = k + 4 /\ h[1] = header
  /\ Reads(h, k, HeadersEnd) /\ \A j \in 1..k : h[j] # "cr"

\* Lines without a line break, and two line breaks, are a header block.
LEMMA BlockOf ==
  ASSUME NEW lines \in Seq(Symbols), NEW header, NEW k \in Nat \ {0}, Len(lines) = k,
         lines[1] = header, \A j \in 1..k : lines[j] # "cr"
  PROVE  IsBlock(lines \o Crlf \o Crlf, header, k)
<1>1. PICK e \in Seq(Symbols), w \in Nat : e = HeadersEnd /\ w = 4 /\ Len(e) = w
  BY HeadersEndFacts
<1>2. PICK h : h = lines \o e
  OBVIOUS
<1>3. lines \o Crlf \o Crlf = h
  <2>1. PICK c \in Seq(Symbols) : c = Crlf
    BY DelimiterFacts
  <2>2. e = c \o c
    BY <1>1, <2>1 DEF HeadersEnd
  <2>3. (lines \o c) \o c = lines \o (c \o c)
    BY SMTT(30), <2>1, ConcatAssociative
  <2> QED BY <1>2, <2>1, <2>2, <2>3
<1>4. Len(e) = w
  BY <1>1
<1>5. h \in Seq(Symbols) /\ Len(h) = k + w /\ \A j \in 1..k : h[j] = lines[j]
  <2>1. lines \o e \in Seq(Symbols) /\ Len(lines \o e) = Len(lines) + Len(e)
    BY ConcatProperties
  <2>2. \A j \in 1..Len(lines) : (lines \o e)[j] = lines[j]
    <3>1. \A j \in 1..Len(lines) : j \in 1..(Len(lines) + Len(e)) /\ j <= Len(lines)
      OBVIOUS
    <3> QED BY <3>1, ConcatProperties
  <2> QED BY <1>2, <1>4, <2>1, <2>2
<1>6. Reads(h, k, e)
  <2>1. Reads(h, 0, lines \o e)
    <3>1. Reads(h, 0, h)
      BY <1>5, ReadsAll
    <3> QED BY <1>2, <3>1
  <2>2. 0 + Len(lines) = k
    OBVIOUS
  <2> QED BY <1>5, <2>1, <2>2, ReadsConcat
<1>7. Len(h) = k + 4
  BY <1>1, <1>5
<1>8. 1 \in 1..k
  OBVIOUS
<1>9. h[1] = header /\ \A j \in 1..k : h[j] # "cr"
  BY <1>5, <1>8
<1> QED BY <1>1, <1>3, <1>5, <1>6, <1>7, <1>9 DEF IsBlock

\* Each header that is not missing is one; that of a long header is the longest.
LEMMA HeaderFacts ==
  ASSUME NEW header \in Headers, header # "missing"
  PROVE  \E k \in Nat \ {0} : IsBlock(HeaderBytes(header), header, k) /\ (header # "long" => k = 1)
<1>1. header \in Symbols /\ header # "cr"
  BY LiteralBytes DEF Headers, GoodHeaders
<1>2. <<header>> \in Seq(Symbols) /\ Len(<<header>>) = 1 /\ <<header>>[1] = header
  BY <1>1
<1>3. CASE header = "long"
  <2> DEFINE xs == [i \in 1..MaxPartHeader |-> "x"]
             lines == <<header>> \o xs
  <2>1. HeaderBytes(header) = lines \o Crlf \o Crlf
    BY <1>3 DEF HeaderBytes
  <2>2. MaxPartHeader \in Nat
    BY FormAssumption
  <2>3. xs \in Seq(Symbols) /\ Len(xs) = MaxPartHeader /\ \A j \in 1..MaxPartHeader : xs[j] = "x"
    BY <2>2, LiteralBytes
  <2> HIDE DEF xs
  <2>4. PICK one \in Seq(Symbols), w \in Nat : one = <<header>> /\ w = 1 /\ Len(one) = w /\ one[1] = header
    <3> DEFINE it == <<header>>
    <3>1. it \in Seq(Symbols) /\ Len(it) = 1 /\ it[1] = header /\ it = <<header>>
      BY <1>2
    <3> HIDE DEF it
    <3>2. 1 \in Nat
      OBVIOUS
    <3> QED BY <3>1, <3>2
  <2>5. Len(one) = w
    BY <2>4
  <2>6. one \o xs \in Seq(Symbols) /\ Len(one \o xs) = w + MaxPartHeader
    BY <2>2, <2>3, <2>5, ConcatProperties
  <2>7. \A j \in 1..(w + MaxPartHeader) : (one \o xs)[j] = IF j <= w THEN one[j] ELSE xs[j - w]
    BY <2>2, <2>3, <2>5, ConcatProperties
  <2>8. lines = one \o xs
    BY <2>4
  <2> HIDE DEF lines
  <2> DEFINE k == w + MaxPartHeader
  <2>9. k \in Nat \ {0} /\ 1 \in 1..k /\ 1 <= w
    BY <2>2, <2>4
  <2>10. lines[1] = header
    BY <2>4, <2>7, <2>8, <2>9
  <2>11. \A j \in 1..k : lines[j] # "cr"
    <3>1. SUFFICES ASSUME NEW j \in 1..k PROVE lines[j] # "cr"
      OBVIOUS
    <3>2. CASE j <= w
      <4>1. j = 1
        BY <2>4, <3>2
      <4> QED BY <1>1, <2>10, <4>1
    <3>3. CASE ~(j <= w)
      <4>1. j - w \in 1..MaxPartHeader
        BY <2>2, <2>4, <3>3
      <4>2. lines[j] = xs[j - w]
        BY <2>7, <2>8, <3>3
      <4>3. lines[j] = "x"
        BY <2>3, <4>1, <4>2
      <4> QED BY <4>3
    <3> QED BY <3>2, <3>3
  <2>12. lines \in Seq(Symbols) /\ Len(lines) = k
    BY <2>6, <2>8
  <2> HIDE DEF k
  <2>13. IsBlock(HeaderBytes(header), header, k)
    BY <2>1, <2>9, <2>10, <2>11, <2>12, BlockOf
  <2> QED BY <1>3, <2>9, <2>13
<1>4. CASE header # "long"
  <2>1. HeaderBytes(header) = <<header>> \o Crlf \o Crlf
    BY <1>4 DEF HeaderBytes, Headers, GoodHeaders
  <2>2. 1 \in Nat \ {0} /\ \A j \in 1..1 : <<header>>[j] # "cr"
    <3>1. \A j \in 1..1 : j = 1
      OBVIOUS
    <3> QED BY <1>1, <1>2, <3>1
  <2>3. IsBlock(<<header>> \o Crlf \o Crlf, header, 1)
    BY <1>2, <2>2, BlockOf
  <2> QED BY <2>1, <2>2, <2>3
<1> QED BY <1>3, <1>4

\* What the writers got: of each part but the one that is read all of it.
IsGood(f, i) == f.parts[i].line \in GoodLines /\ f.parts[i].header \in GoodHeaders
APart == [header : GoodHeaders, body : Seq(Symbols), ended : BOOLEAN]
IsRight(p, f, i) ==
  /\ IsGood(f, i) /\ p.header = f.parts[i].header
  /\ IsPrefix(p.body, f.parts[i].body)
  /\ p.ended => p.body = f.parts[i].body
PartsAreRight ==
  /\ parts \in Seq(APart) /\ Len(parts) <= Len(form.parts)
  /\ \A i \in 1..Len(parts) :
       IsRight(parts[i], form, i) /\ (i < Len(parts) \/ state # "body" => parts[i].ended)

\* b is what of t is after the first from and up to the to-th.
IsSlice(b, t, from, to) == b = SubSeq(t, from + 1, to)

\* Where the parser is: it has dealt with c bytes, and keeps what else has come.
IsAt(c) ==
  LET k == Len(parts) IN
  /\ IsSlice(buffer, Total(form), c, received + 2)
  /\ state = "preamble" => k = 0 /\ c <= DelimiterAt(form, 1)
  /\ state = "delimiter-end" => c = DelimiterAt(form, k + 1) + 5
  /\ state = "headers" => /\ k < Len(form.parts) /\ c = HeadStart(form, k + 1)
                          /\ form.parts[k + 1].line \in GoodLines
  /\ state = "body" => /\ k > 0 /\ BodyStart(form, k) <= c /\ c <= DelimiterAt(form, k + 1)
                       /\ parts[k].body = SubSeq(form.parts[k].body, 1, c - BodyStart(form, k))
                       /\ ~parts[k].ended

MultipartTypes ==
  /\ form \in Forms /\ received \in 0..Len(Bytes(form))
  /\ source \in {"open", "ended"} /\ state \in {"preamble", "delimiter-end", "headers", "body"}
  /\ busy \in BOOLEAN /\ outcome \in {"none", "done", "thrown"}

OutcomeIsRight ==
  /\ outcome = "done" => Len(parts) = Len(form.parts) /\ state # "body"
  /\ outcome = "thrown" =>
       source = "ended" \/ \E i \in 1..Len(form.parts) : ~IsGood(form, i) \/ form.parts[i].header = "long"

\* It does not stop at work that it could do.
WaitsForMore ==
  /\ busy => source = "open" /\ outcome = "none"
  /\ source = "ended" => outcome # "none"
  /\ (~busy /\ outcome = "none") \/ (source = "ended" /\ outcome = "thrown") => received < Len(Bytes(form))

\* The invariant from which FormIsReadWhole follows: MultipartTypes, the parts are those of
\* the form, the outcome has a reason, the parser works while it can, and a place
\* in the form that its state fits.
MultipartInv ==
  /\ MultipartTypes /\ PartsAreRight /\ OutcomeIsRight /\ WaitsForMore
  /\ outcome = "none" => \E c \in 0..(received + 2) : IsAt(c)

\* What a slice consists of.
LEMMA SliceFacts ==
  ASSUME NEW S, NEW t \in Seq(S), NEW c \in Nat, NEW r \in Nat, c <= r, r <= Len(t),
         NEW b, IsSlice(b, t, c, r)
  PROVE  b \in Seq(S) /\ Len(b) = r - c /\ \A i \in 1..(r - c) : b[i] = t[c + i]
BY SubSeqFacts DEF IsSlice

\* What is left of the bytes from c up to r, and what goes of them, when s are dealt with.
LEMMA DropFacts ==
  ASSUME NEW S, NEW t \in Seq(S), NEW c \in Nat, NEW r \in Nat, NEW s \in Nat, c + s <= r, r <= Len(t),
         NEW b, IsSlice(b, t, c, r)
  PROVE  /\ IsSlice(Drop(b, s), t, c + s, r) /\ IsSlice(SubSeq(b, 1, s), t, c, c + s)
<1>1. b \in Seq(S) /\ Len(b) = r - c /\ \A i \in 1..(r - c) : b[i] = t[c + i]
  <2>1. c <= r
    OBVIOUS
  <2>2. b = SubSeq(t, c + 1, r)
    BY DEF IsSlice
  <2>3. /\ SubSeq(t, c + 1, r) \in Seq(S) /\ Len(SubSeq(t, c + 1, r)) = r - c
        /\ \A i \in 1..(r - c) : SubSeq(t, c + 1, r)[i] = t[c + i]
    BY <2>1, SubSeqFacts
  <2> QED BY <2>2, <2>3, Zenon
<1>2. PICK n \in Nat : n = r - c /\ s <= n
  OBVIOUS
<1>3. Drop(b, s) = SubSeq(t, c + s + 1, r)
  <2> DEFINE x == SubSeq(b, s + 1, n)
             y == SubSeq(t, c + s + 1, r)
  <2>1. x \in Seq(S) /\ Len(x) = n - s /\ \A i \in 1..(n - s) : x[i] = b[s + i]
    BY <1>1, <1>2, ReadsOfSubSeq
  <2>2. y \in Seq(S) /\ Len(y) = r - (c + s) /\ \A i \in 1..(r - (c + s)) : y[i] = t[c + s + i]
    <3>1. c + s \in Nat
      OBVIOUS
    <3> QED BY <3>1, ReadsOfSubSeq
  <2> HIDE DEF x, y
  <2>3. n - s = r - (c + s)
    BY <1>2
  <2>4. \A i \in 1..Len(x) : x[i] = y[i]
    <3>1. SUFFICES ASSUME NEW i \in 1..(n - s) PROVE x[i] = y[i]
      BY <2>1
    <3>2. s + i \in 1..(r - c) /\ c + (s + i) = c + s + i
      BY <1>2
    <3> QED BY <1>1, <2>1, <2>2, <2>3, <3>2
  <2>5. x = y
    BY <2>1, <2>2, <2>3, <2>4, SeqEqual
  <2> QED BY <1>1, <1>2, <2>5 DEF Drop, x, y
<1>4. SubSeq(b, 1, s) = SubSeq(t, c + 1, c + s)
  <2> DEFINE x == SubSeq(b, 0 + 1, s)
             y == SubSeq(t, c + 1, c + s)
  <2>1. x \in Seq(S) /\ Len(x) = s - 0 /\ \A i \in 1..(s - 0) : x[i] = b[0 + i]
    BY <1>1, <1>2, ReadsOfSubSeq
  <2>2. y \in Seq(S) /\ Len(y) = c + s - c /\ \A i \in 1..(c + s - c) : y[i] = t[c + i]
    <3>1. c + s \in Nat /\ c <= c + s
      OBVIOUS
    <3> QED BY <3>1, ReadsOfSubSeq
  <2> HIDE DEF x, y
  <2>3. s - 0 = s /\ c + s - c = s
    OBVIOUS
  <2>4. \A i \in 1..Len(x) : x[i] = y[i]
    <3>1. SUFFICES ASSUME NEW i \in 1..s PROVE x[i] = y[i]
      BY <2>1, <2>3
    <3>2. i \in 1..(r - c) /\ 0 + i = i
      BY <1>2
    <3>3. x[i] = b[i] /\ y[i] = t[c + i]
      BY <2>1, <2>2, <2>3, <3>2
    <3> QED BY <1>1, <3>2, <3>3
  <2>5. x = y
    BY <2>1, <2>2, <2>3, <2>4, SeqEqual
  <2>6. 0 + 1 = 1
    OBVIOUS
  <2> QED BY <2>5, <2>6 DEF x, y
<1> QED BY <1>3, <1>4 DEF IsSlice

\* What of a body has been read up to c, and then up to e.
GrowsBy(body, t, from, c, e) ==
  SubSeq(body, 1, e - from) = SubSeq(body, 1, c - from) \o SubSeq(t, c + 1, e)

\* The bytes of a body from c to e, after those before c, are those up to e.
LEMMA BodyGrows ==
  ASSUME NEW S, NEW t \in Seq(S), NEW body \in Seq(S), NEW from \in Nat, Reads(t, from, body),
         NEW c \in Nat, NEW e \in Nat, from <= c, c <= e, e <= from + Len(body)
  PROVE  GrowsBy(body, t, from, c, e)
<1>1. PICK n \in Nat, m \in Nat, l \in Nat : n = c - from /\ m = e - from /\ l = Len(body) /\ n <= m /\ m <= l /\ from \in Nat
  <2>1. from \in Nat /\ Len(body) \in Nat
    BY DEF Reads
  <2>2. c - from \in Nat /\ e - from \in Nat /\ c - from <= e - from /\ e - from <= Len(body)
    BY <2>1
  <2> QED BY <2>1, <2>2
<1> DEFINE x == SubSeq(t, c + 1, e)
           y == SubSeq(body, n + 1, m)
<1>2. x \in Seq(S) /\ Len(x) = e - c /\ \A i \in 1..(e - c) : x[i] = t[c + i]
  <2>1. e <= Len(t)
    BY <1>1 DEF Reads
  <2> QED BY <2>1, ReadsOfSubSeq
<1>3. y \in Seq(S) /\ Len(y) = m - n /\ \A i \in 1..(m - n) : y[i] = body[n + i]
  BY <1>1, ReadsOfSubSeq
<1> HIDE DEF x, y
<1>4. m - n = e - c
  BY <1>1
<1>5. \A i \in 1..Len(x) : x[i] = y[i]
  <2>1. SUFFICES ASSUME NEW i \in 1..(e - c) PROVE x[i] = y[i]
    BY <1>2
  <2>2. n + i \in 1..l /\ from + (n + i) = c + i
    BY <1>1
  <2>3. t[from + (n + i)] = body[n + i]
    BY <1>1, <2>2 DEF Reads
  <2> QED BY <1>2, <1>3, <1>4, <2>2, <2>3
<1>6. x = y
  BY <1>2, <1>3, <1>4, <1>5, SeqEqual
<1>7. SubSeq(body, 1, m) = SubSeq(body, 1, n) \o SubSeq(body, n + 1, m)
  <2>1. 1 \in 1..(Len(body) + 1) /\ n \in (1 - 1)..Len(body) /\ m \in n..Len(body)
    BY <1>1
  <2> QED BY <2>1, ConcatAdjacentSubSeq
<1> QED BY <1>1, <1>6, <1>7 DEF GrowsBy, x, y

\* The first m bytes of a body are a beginning of it, and the body if m is its length.
LEMMA BeginningIsPrefix ==
  ASSUME NEW S, NEW body \in Seq(S), NEW m \in Nat, m <= Len(body)
  PROVE  /\ SubSeq(body, 1, m) \in Seq(S) /\ IsPrefix(SubSeq(body, 1, m), body)
         /\ m = Len(body) => SubSeq(body, 1, m) = body
<1>1. SubSeq(body, 1, m) \in Seq(S) /\ Len(SubSeq(body, 1, m)) = m
  <2>1. SubSeq(body, 0 + 1, m) \in Seq(S) /\ Len(SubSeq(body, 0 + 1, m)) = m - 0
    BY ReadsOfSubSeq
  <2> QED BY <2>1
<1>2. SubSeq(SubSeq(body, 1, m), 1, m) = SubSeq(body, 1, m)
  BY <1>1, SubSeqFull
<1>3. IsPrefix(SubSeq(body, 1, m), body)
  BY <1>1, <1>2 DEF IsPrefix
<1>4. m = Len(body) => SubSeq(body, 1, m) = body
  BY SubSeqFull
<1> QED BY <1>1, <1>3, <1>4

\* The search for d, which is at next and not earlier, from c on in what has come.
LEMMA SearchFor ==
  ASSUME NEW t \in Seq(Symbols), NEW c \in Nat, NEW r \in Nat, c <= r, r <= Len(t), NEW next \in Nat, c <= next,
         NEW d \in Seq(Symbols), NEW w \in Nat, w = Len(d),
         Reads(t, next, d), \A i \in Nat : c <= i /\ i < next => ~Reads(t, i, d),
         NEW b, IsSlice(b, t, c, r)
  PROVE  \/ IndexOf(d, b) = -1 /\ next + w > r
         \/ IndexOf(d, b) = next - c /\ next + w <= r
<1>2. b \in Seq(Symbols) /\ \A i \in Nat : Reads(b, i, d) <=> Reads(t, c + i, d) /\ c + i + w <= r
  BY ReadsOfSubSeq DEF IsSlice
<1>3. next - c \in Nat /\ c + (next - c) = next
  OBVIOUS
<1>4. CASE next + w <= r
  <2>1. Reads(b, next - c, d)
    BY <1>2, <1>3, <1>4
  <2>2. IndexOf(d, b) \in Nat /\ Reads(b, IndexOf(d, b), d) /\ IndexOf(d, b) <= next - c
    BY <1>2, <1>3, <2>1, IndexOfFacts
  <2>3. PICK i \in Nat : i = IndexOf(d, b)
    BY <2>2
  <2>4. Reads(t, c + i, d) /\ c + i \in Nat /\ c <= c + i
    BY <1>2, <2>2, <2>3
  <2>5. ~(c + i < next)
    BY <2>4
  <2> QED BY SMTT(30), <1>4, <2>2, <2>3, <2>5
<1>5. CASE next + w > r
  <2>1. ASSUME NEW i \in Nat, Reads(b, i, d) PROVE FALSE
    <3>1. Reads(t, c + i, d) /\ c + i + w <= r /\ c + i \in Nat /\ c <= c + i
      BY <1>2, <2>1
    <3>2. c + i < next
      BY <1>5, <3>1
    <3> QED BY <3>1, <3>2
  <2>2. IndexOf(d, b) = -1
    BY <1>2, <2>1, IndexOfFacts
  <2> QED BY <1>5, <2>2
<1> QED BY <1>4, <1>5

\* What follows of the types, stated as the steps use it.
LEMMA Basics ==
  ASSUME MultipartTypes, PartsAreRight
  PROVE  /\ form \in Forms /\ Total(form) \in Seq(Symbols) /\ Len(Total(form)) = Len(Bytes(form)) + 2
         /\ Len(Bytes(form)) \in Nat /\ received \in Nat /\ received <= Len(Bytes(form))
         /\ Len(parts) \in Nat /\ Len(form.parts) \in Nat /\ Len(parts) <= Len(form.parts)
<1>1. form \in Forms /\ Len(parts) \in Nat /\ Len(parts) <= Len(form.parts)
  BY DEF MultipartTypes, PartsAreRight
<1>2. Total(form) \in Seq(Symbols) /\ Bytes(form) \in Seq(Symbols) /\ Len(Total(form)) = Len(Bytes(form)) + 2
  BY <1>1, PiecesAreRead
<1>3. Len(Bytes(form)) \in Nat
  BY <1>2
<1>4. received \in Nat /\ received <= Len(Bytes(form))
  BY <1>3 DEF MultipartTypes
<1>5. Len(form.parts) \in Nat
  BY <1>1, FormType
<1> QED BY <1>1, <1>2, <1>3, <1>4, <1>5

\* What is left of the form begins with a delimiter that is still to come.
LEMMA NextDelimiter ==
  ASSUME MultipartTypes, PartsAreRight, NEW c \in Nat, IsAt(c), state \in {"preamble", "body"}
  PROVE  LET next == DelimiterAt(form, Len(parts) + 1) IN
         /\ next \in Nat /\ c <= next /\ Reads(Total(form), next, delimiter) /\ next + 5 <= Len(Total(form))
         /\ \A i \in Nat : c <= i /\ i < next => ~Reads(Total(form), i, delimiter)
<1> DEFINE next == DelimiterAt(form, Len(parts) + 1)
<1>1. form \in Forms /\ Len(parts) + 1 \in 1..(Len(form.parts) + 1)
  BY Basics
<1>2. next \in Nat /\ Reads(Total(form), next, delimiter)
  BY <1>1, Layout
<1>3. next + 5 <= Len(Total(form))
  BY <1>2, DelimiterFacts DEF Reads
<1>4. CASE state = "preamble"
  <2>1. Len(parts) = 0 /\ c <= DelimiterAt(form, 1)
    BY <1>4 DEF IsAt
  <2>2. next = DelimiterAt(form, 1)
    BY <2>1
  <2> QED BY <1>1, <1>2, <1>3, <2>1, <2>2, NoEarlierDelimiter
<1>5. CASE state = "body"
  <2>1. Len(parts) > 0 /\ BodyStart(form, Len(parts)) <= c /\ c <= next
    BY <1>5 DEF IsAt
  <2>2. Len(parts) \in 1..Len(form.parts) /\ BodyStart(form, Len(parts)) \in Nat
    <3>1. Len(parts) \in 1..Len(form.parts)
      BY <2>1, Basics
    <3> QED BY <1>1, <3>1, Layout
  <2>3. \A i \in Nat : c <= i => BodyStart(form, Len(parts)) <= i
    BY <2>1, <2>2
  <2>4. \A i \in Nat : BodyStart(form, Len(parts)) <= i /\ i < next => ~Reads(Total(form), i, delimiter)
    BY <1>1, <2>2, NoEarlierDelimiter
  <2> QED BY <1>2, <1>3, <2>1, <2>3, <2>4
<1> QED BY <1>4, <1>5

\* What is read between the start and the end of a body continues it,
LEMMA MoreOfABodyWithin ==
  ASSUME NEW S, NEW t \in Seq(S), NEW body \in Seq(S), NEW from \in Nat, Reads(t, from, body),
         NEW c \in Nat, NEW e \in Nat, NEW s \in Nat, s = from + Len(body), from <= c, c <= e, e <= s
  PROVE  /\ GrowsBy(body, t, from, c, e)
         /\ SubSeq(body, 1, e - from) \in Seq(S) /\ IsPrefix(SubSeq(body, 1, e - from), body)
         /\ e = s => SubSeq(body, 1, e - from) = body
<1>1. e <= from + Len(body)
  OBVIOUS
<1>2. GrowsBy(body, t, from, c, e)
  BY <1>1, BodyGrows
<1>3. e - from \in Nat /\ e - from <= Len(body) /\ (e = s => e - from = Len(body))
  OBVIOUS
<1>4. /\ SubSeq(body, 1, e - from) \in Seq(S) /\ IsPrefix(SubSeq(body, 1, e - from), body)
      /\ e = s => SubSeq(body, 1, e - from) = body
  BY <1>3, BeginningIsPrefix
<1> QED BY <1>2, <1>4

\* and so it does in the bytes of a form, between the start of a body and the next delimiter.
LEMMA MoreOfABody ==
  ASSUME NEW f \in Forms, NEW k \in 1..Len(f.parts), NEW c \in Nat, NEW e \in Nat,
         BodyStart(f, k) <= c, c <= e, e <= DelimiterAt(f, k + 1)
  PROVE  LET body == f.parts[k].body
             all == SubSeq(body, 1, e - BodyStart(f, k)) IN
         /\ all \in Seq(Symbols) /\ IsPrefix(all, body) /\ (e = DelimiterAt(f, k + 1) => all = body)
         /\ GrowsBy(body, Total(f), BodyStart(f, k), c, e)
<1>1. PICK body \in Seq(Symbols) : body = f.parts[k].body
  BY FormType
<1>2. PICK from \in Nat : from = BodyStart(f, k)
  BY Layout
<1>3. PICK l \in Nat, s \in Nat : l = Len(body) /\ s = DelimiterAt(f, k + 1) /\ s = from + l
  BY SMTT(30), <1>1, <1>2, Layout
<1>4. PICK t \in Seq(Symbols) : t = Total(f)
  BY PiecesAreRead
<1>5. Reads(t, from, body)
  BY <1>1, <1>2, <1>4, Layout
<1>6. from <= c /\ e <= s
  BY <1>2, <1>3
<1>7. /\ GrowsBy(body, t, from, c, e)
      /\ SubSeq(body, 1, e - from) \in Seq(Symbols) /\ IsPrefix(SubSeq(body, 1, e - from), body)
      /\ e = s => SubSeq(body, 1, e - from) = body
  BY <1>3, <1>5, <1>6, MoreOfABodyWithin
<1> QED BY <1>1, <1>2, <1>3, <1>4, <1>7

\* The part that is read is given more of its body.
LEMMA PartGrows ==
  ASSUME MultipartTypes, PartsAreRight, NEW c \in Nat, IsAt(c), state = "body",
         NEW e \in Nat, c <= e, e <= DelimiterAt(form, Len(parts) + 1), e <= Len(Total(form)), NEW x \in BOOLEAN,
         x => e = DelimiterAt(form, Len(parts) + 1), state' # "body" => x, form' = form,
         parts' = [parts EXCEPT ![Len(parts)] =
                    [ header |-> parts[Len(parts)].header, ended |-> x,
                      body |-> parts[Len(parts)].body \o SubSeq(Total(form), c + 1, e) ]]
  PROVE  /\ PartsAreRight' /\ Len(parts') = Len(parts) /\ Len(parts) \in 1..Len(form.parts)
         /\ parts'[Len(parts)].body = SubSeq(form.parts[Len(parts)].body, 1, e - BodyStart(form, Len(parts)))
         /\ parts'[Len(parts)].ended = x
<1>1. PICK k \in Nat : k = Len(parts) /\ k > 0 /\ k \in 1..Len(form.parts)
  <2>1. Len(parts) > 0
    BY DEF IsAt
  <2>2. Len(parts) \in Nat /\ Len(form.parts) \in Nat /\ Len(parts) <= Len(form.parts)
    BY Basics
  <2> QED BY <2>1, <2>2
<1>2. form \in Forms /\ BodyStart(form, k) <= c /\ parts[k].body = SubSeq(form.parts[k].body, 1, c - BodyStart(form, k))
  BY <1>1, Basics DEF IsAt
<1> DEFINE all == SubSeq(form.parts[k].body, 1, e - BodyStart(form, k))
<1>3. e <= DelimiterAt(form, k + 1) /\ (x => e = DelimiterAt(form, k + 1))
  BY <1>1
<1>4. all \in Seq(Symbols) /\ IsPrefix(all, form.parts[k].body) /\ (e = DelimiterAt(form, k + 1) => all = form.parts[k].body)
  BY <1>1, <1>2, <1>3, MoreOfABody
<1>6. all = parts[k].body \o SubSeq(Total(form), c + 1, e)
  <2>1. GrowsBy(form.parts[k].body, Total(form), BodyStart(form, k), c, e)
    BY <1>1, <1>2, <1>3, MoreOfABody
  <2> QED BY <1>2, <2>1 DEF GrowsBy
<1>7. all \in Seq(Symbols) /\ IsPrefix(all, form.parts[k].body) /\ (x => all = form.parts[k].body)
  BY <1>3, <1>4
<1> HIDE DEF all
<1> DEFINE p == [header |-> parts[k].header, ended |-> x, body |-> all]
<1>8. parts \in Seq(APart) /\ parts[k] \in APart /\ k \in 1..Len(parts)
  BY <1>1 DEF PartsAreRight
<1>9. p \in APart /\ p.header = parts[k].header /\ p.body = all /\ p.ended = x
  BY <1>7, <1>8 DEF APart
<1>10. parts' = [parts EXCEPT ![k] = p]
  BY <1>1, <1>6
<1> HIDE DEF p
<1>11. parts' \in Seq(APart) /\ Len(parts') = k /\ parts'[k] = p /\ \A i \in 1..k : i # k => parts'[i] = parts[i]
  <2> DEFINE q == [parts EXCEPT ![k] = p]
  <2>1. q \in Seq(APart) /\ Len(q) = Len(parts) /\ \A i \in 1..Len(parts) : q[i] = IF i = k THEN p ELSE parts[i]
    BY <1>8, <1>9, ExceptSeq
  <2> HIDE DEF q
  <2>2. parts' = q /\ Len(parts) = k
    BY <1>1, <1>10 DEF q
  <2>3. k \in 1..k
    BY <1>1
  <2> QED BY <2>1, <2>2, <2>3
<1>12. IsRight(p, form, k)
  <2>1. IsRight(parts[k], form, k)
    BY <1>8 DEF PartsAreRight
  <2> QED BY <1>7, <1>9, <2>1 DEF IsRight
<1>13. ASSUME NEW i \in 1..k
       PROVE  IsRight(parts'[i], form, i) /\ (i < k \/ state' # "body" => parts'[i].ended)
  <2>1. CASE i = k
    <3>1. ~(i < k)
      BY <1>1, <2>1
    <3> QED BY <1>9, <1>11, <1>12, <2>1, <3>1
  <2>2. CASE i # k
    <3>1. i < k /\ i \in 1..Len(parts)
      BY <1>1, <2>2
    <3>2. IsRight(parts[i], form, i) /\ parts[i].ended
      BY <1>1, <3>1 DEF PartsAreRight
    <3> QED BY <1>11, <2>2, <3>2
  <2> QED BY <2>1, <2>2
<1>14. PartsAreRight'
  <2>1. Len(parts') <= Len(form'.parts)
    BY <1>1, <1>11, Basics
  <2> QED BY <1>11, <1>13, <2>1 DEF PartsAreRight
<1> QED BY <1>1, <1>9, <1>11, <1>14 DEF all

\* Parts that stay as they are, all of them ended or none being read.
LEMMA PartsStay ==
  ASSUME PartsAreRight, form' = form, parts' = parts, state # "body" \/ state' = "body"
  PROVE  PartsAreRight'
BY DEF PartsAreRight

\* The bytes that arrive continue those that wait.
Continues(t, b, c, r, n) ==
  SubSeq(t, c + 1, r + n + 2) = SubSeq(t, c + 1, r + 2) \o SubSeq(b, r + 1, r + n)

\* A chunk continues what is kept of the bytes before it.
LEMMA ChunkFacts ==
  ASSUME NEW S, NEW t \in Seq(S), NEW b \in Seq(S), Len(t) = Len(b) + 2, Reads(t, 2, b),
         NEW c \in Nat, NEW r \in Nat, NEW n \in Nat, c <= r + 2, r + n <= Len(b)
  PROVE  Continues(t, b, c, r, n)
<1> DEFINE x == SubSeq(b, r + 1, r + n)
           y == SubSeq(t, r + 2 + 1, r + n + 2)
<1>1. x \in Seq(S) /\ Len(x) = r + n - r /\ \A i \in 1..(r + n - r) : x[i] = b[r + i]
  <2>1. PICK m \in Nat : m = r + n /\ r <= m /\ m <= Len(b)
    OBVIOUS
  <2>2. /\ SubSeq(b, r + 1, m) \in Seq(S) /\ Len(SubSeq(b, r + 1, m)) = m - r
        /\ \A i \in 1..(m - r) : SubSeq(b, r + 1, m)[i] = b[r + i]
    BY <2>1, SubSeqFacts
  <2>3. m - r = r + n - r
    BY <2>1
  <2> QED BY <2>1, <2>2, <2>3, Zenon
<1>2. /\ y \in Seq(S) /\ Len(y) = r + n + 2 - (r + 2)
      /\ \A i \in 1..(r + n + 2 - (r + 2)) : y[i] = t[r + 2 + i]
  <2>1. r + 2 \in Nat /\ r + n + 2 \in Nat /\ r + 2 <= r + n + 2 /\ r + n + 2 <= Len(t)
    OBVIOUS
  <2> QED BY <2>1, SubSeqFacts
<1> HIDE DEF x, y
<1>3. r + n - r = n /\ r + n + 2 - (r + 2) = n
  OBVIOUS
<1>4. Len(x) = n /\ Len(y) = n /\ \A i \in 1..n : x[i] = b[r + i] /\ y[i] = t[r + 2 + i]
  BY <1>1, <1>2, <1>3
<1>5. x = y
  <2>1. \A i \in 1..n : x[i] = y[i]
    <3>1. SUFFICES ASSUME NEW i \in 1..n PROVE x[i] = y[i]
      OBVIOUS
    <3>2. r + i \in 1..Len(b) /\ 2 + (r + i) = r + 2 + i
      OBVIOUS
    <3>3. t[2 + (r + i)] = b[r + i]
      BY <3>2 DEF Reads
    <3> QED BY <1>4, <3>2, <3>3
  <2> QED BY <1>1, <1>2, <1>4, <2>1, SeqEqual
<1>6. SubSeq(t, c + 1, r + n + 2) = SubSeq(t, c + 1, r + 2) \o SubSeq(t, r + 2 + 1, r + n + 2)
  <2>1. PICK k \in Nat, l \in Nat, m \in Nat : k = c + 1 /\ l = r + 2 /\ m = r + n + 2
    OBVIOUS
  <2>2. k \in 1..(Len(t) + 1) /\ l \in (k - 1)..Len(t) /\ m \in l..Len(t)
    BY <2>1
  <2>3. SubSeq(t, k, m) = SubSeq(t, k, l) \o SubSeq(t, l + 1, m)
    BY <2>2, ConcatAdjacentSubSeq
  <2> QED BY <2>1, <2>3
<1> QED BY <1>5, <1>6 DEF Continues, x, y

\* The parser stays where it is, while only more has come.
LEMMA StillThere ==
  ASSUME NEW c, IsAt(c), form' = form, parts' = parts, state' = state,
         IsSlice(buffer', Total(form), c, received' + 2)
  PROVE  IsAt(c)'
BY DEF IsAt, IsSlice

\* A chunk that arrives,
LEMMA ChunkStep ==
  ASSUME MultipartInv, NEW n \in Nat \ {0}, ChunkArrives(n)
  PROVE  MultipartInv'
<1>1. MultipartTypes /\ PartsAreRight /\ OutcomeIsRight /\ WaitsForMore
  BY DEF MultipartInv
<1>2. /\ form' = form /\ source' = source /\ state' = state /\ outcome' = outcome /\ parts' = parts
      /\ ~busy /\ source = "open" /\ outcome # "thrown"
      /\ n <= Len(Bytes(form)) - received /\ received' = received + n
  BY DEF ChunkArrives
<1>3. /\ Bytes(form) \in Seq(Symbols) /\ Total(form) \in Seq(Symbols) /\ Len(Total(form)) = Len(Bytes(form)) + 2
      /\ Reads(Total(form), 2, Bytes(form)) /\ received \in Nat /\ Len(Bytes(form)) \in Nat
  <2>1. form \in Forms /\ received \in Nat /\ Len(Bytes(form)) \in Nat
    BY <1>1, Basics
  <2> QED BY <2>1, PiecesAreRead
<1>4. received' \in 0..Len(Bytes(form)) /\ received' + 2 = received + n + 2
  BY <1>2, <1>3
<1>5. PartsAreRight' /\ OutcomeIsRight'
  BY <1>1, <1>2 DEF PartsAreRight, OutcomeIsRight
<1>6. CASE outcome = "done"
  <2>1. busy' = busy
    BY <1>6 DEF ChunkArrives
  <2>2. MultipartTypes'
    BY <1>1, <1>2, <1>4, <2>1 DEF MultipartTypes
  <2>3. WaitsForMore'
    BY <1>2, <1>6, <2>1 DEF WaitsForMore
  <2> QED BY <1>2, <1>5, <1>6, <2>2, <2>3 DEF MultipartInv
<1>7. CASE outcome # "done"
  <2>1. busy' = TRUE /\ buffer' = buffer \o SubSeq(Bytes(form), received + 1, received + n)
    BY <1>7 DEF ChunkArrives
  <2>2. outcome = "none"
    BY <1>1, <1>2, <1>7 DEF MultipartTypes
  <2>3. MultipartTypes'
    BY <1>1, <1>2, <1>4, <2>1 DEF MultipartTypes
  <2>4. WaitsForMore'
    BY <1>2, <2>1, <2>2 DEF WaitsForMore
  <2>5. PICK c \in 0..(received + 2) : IsAt(c)
    BY <2>2 DEF MultipartInv
  <2>6. c \in Nat /\ c <= received + 2 /\ received + n <= Len(Bytes(form)) /\ c \in 0..(received' + 2)
    BY <1>2, <1>3, <1>4
  <2>7. Continues(Total(form), Bytes(form), c, received, n)
    BY <1>3, <2>6, ChunkFacts
  <2>8. IsSlice(buffer', Total(form), c, received' + 2)
    <3>1. buffer = SubSeq(Total(form), c + 1, received + 2)
      BY <2>5 DEF IsAt, IsSlice
    <3>2. buffer' = SubSeq(Total(form), c + 1, received + n + 2)
      BY <2>1, <2>7, <3>1 DEF Continues
    <3> QED BY <1>4, <3>2 DEF IsSlice
  <2>9. IsAt(c)'
    BY <1>2, <2>5, <2>8, StillThere
  <2> QED BY <1>5, <2>3, <2>4, <2>6, <2>9 DEF MultipartInv
<1> QED BY <1>6, <1>7

\* and the end of the stream, keep the invariant.
LEMMA SourceEndsStep ==
  ASSUME MultipartInv, SourceEnds
  PROVE  MultipartInv'
<1>1. MultipartTypes /\ PartsAreRight /\ OutcomeIsRight /\ WaitsForMore
  BY DEF MultipartInv
<1>2. /\ form' = form /\ source' = "ended" /\ state' = state /\ parts' = parts
      /\ ~busy /\ busy' = busy /\ outcome # "thrown" /\ received' = received
      /\ outcome' = IF outcome = "done" THEN "done" ELSE "thrown"
  BY DEF SourceEnds
<1>3. outcome = "done" \/ outcome = "none"
  BY <1>1, <1>2 DEF MultipartTypes
<1>4. MultipartTypes'
  BY <1>1, <1>2 DEF MultipartTypes
<1>5. PartsAreRight' /\ OutcomeIsRight'
  BY <1>1, <1>2, <1>3 DEF PartsAreRight, OutcomeIsRight
<1>6. WaitsForMore'
  BY <1>1, <1>2, <1>3 DEF WaitsForMore
<1>7. outcome' # "none"
  BY <1>2
<1> QED BY <1>4, <1>5, <1>6, <1>7 DEF MultipartInv

\* While there is work, the stream is open and nothing is decided.
LEMMA AtWork ==
  ASSUME MultipartInv, busy
  PROVE  /\ MultipartTypes /\ PartsAreRight /\ source = "open" /\ outcome = "none"
         /\ \E c \in 0..(received + 2) : IsAt(c)
BY DEF MultipartInv, WaitsForMore

\* After a step that goes on or waits, and leaves the parser where it can go on.
LEMMA GoesOn ==
  ASSUME MultipartInv, busy, form' = form, received' = received, source' = source, outcome' = outcome,
         state' \in {"preamble", "delimiter-end", "headers", "body"}, busy' \in BOOLEAN,
         ~busy' => received < Len(Bytes(form)),
         PartsAreRight', NEW c \in 0..(received + 2), IsAt(c)'
  PROVE  MultipartInv'
<1>1. MultipartTypes /\ source = "open" /\ outcome = "none"
  BY AtWork
<1>2. MultipartTypes'
  BY <1>1 DEF MultipartTypes
<1>3. OutcomeIsRight' /\ WaitsForMore'
  BY <1>1 DEF OutcomeIsRight, WaitsForMore
<1> QED BY <1>2, <1>3 DEF MultipartInv

\* A step that refuses the form, with a reason.
LEMMA Refuses ==
  ASSUME MultipartInv, busy, Throw, form' = form, received' = received, source' = source,
         \E i \in 1..Len(form.parts) : ~IsGood(form, i) \/ form.parts[i].header = "long"
  PROVE  MultipartInv'
<1>1. MultipartTypes /\ PartsAreRight /\ source = "open" /\ outcome = "none"
  BY AtWork
<1>2. outcome' = "thrown" /\ busy' = FALSE /\ state' = state /\ parts' = parts
  BY DEF Throw
<1>3. MultipartTypes'
  BY <1>1, <1>2 DEF MultipartTypes
<1>4. PartsAreRight'
  BY <1>1, <1>2 DEF PartsAreRight
<1>5. OutcomeIsRight'
  BY <1>2 DEF OutcomeIsRight
<1>6. WaitsForMore'
  BY <1>1, <1>2 DEF WaitsForMore
<1> QED BY <1>2, <1>3, <1>4, <1>5, <1>6 DEF MultipartInv

\* A step that waits, when not all has come.
LEMMA WaitStep ==
  ASSUME MultipartInv, busy, Wait, form' = form, received' = received, source' = source,
         received < Len(Bytes(form))
  PROVE  MultipartInv'
<1>1. MultipartTypes /\ PartsAreRight /\ \E c \in 0..(received + 2) : IsAt(c)
  BY AtWork
<1>2. busy' = FALSE /\ buffer' = buffer /\ state' = state /\ outcome' = outcome /\ parts' = parts
  BY DEF Wait
<1>3. PICK c \in 0..(received + 2) : IsAt(c)
  BY <1>1
<1>4. PartsAreRight' /\ state' \in {"preamble", "delimiter-end", "headers", "body"}
  BY <1>1, <1>2 DEF PartsAreRight, MultipartTypes
<1>5. IsSlice(buffer', Total(form), c, received' + 2)
  BY <1>2, <1>3 DEF IsAt
<1>6. IsAt(c)'
  BY <1>2, <1>3, <1>5, StillThere
<1> QED BY <1>2, <1>4, <1>6, GoesOn

\* The part that is written to,
LEMMA WrittenIs ==
  ASSUME parts \in Seq(APart), Len(parts) \in 1..Len(parts), NEW bytes
  PROVE  Written(bytes) = [parts EXCEPT ![Len(parts)] =
           [ header |-> parts[Len(parts)].header, ended |-> parts[Len(parts)].ended,
             body |-> parts[Len(parts)].body \o bytes ]]
<1>1. PICK p \in APart : p = parts[Len(parts)]
  OBVIOUS
<1>2. PICK more : more = p.body \o bytes
  OBVIOUS
<1>3. [p EXCEPT !.body = more] = [header |-> p.header, ended |-> p.ended, body |-> more]
  BY SMTT(30) DEF APart
<1>4. Written(bytes) = [parts EXCEPT ![Len(parts)] = [p EXCEPT !.body = more]]
  BY <1>1, <1>2 DEF Written
<1> QED BY <1>1, <1>2, <1>3, <1>4

\* and ended, has one field changed after another.
LEMMA EndedIs ==
  ASSUME parts \in Seq(APart), Len(parts) \in 1..Len(parts), NEW bytes
  PROVE  [Written(bytes) EXCEPT ![Len(parts)].ended = TRUE] = [parts EXCEPT ![Len(parts)] =
           [ header |-> parts[Len(parts)].header, ended |-> TRUE,
             body |-> parts[Len(parts)].body \o bytes ]]
<1>1. PICK k : k = Len(parts) /\ k \in 1..Len(parts)
  OBVIOUS
<1>2. PICK header, ended, more : header = parts[k].header /\ ended = parts[k].ended /\ more = parts[k].body \o bytes
  OBVIOUS
<1>7. PICK yes \in BOOLEAN : yes = TRUE
  OBVIOUS
<1> DEFINE p == [header |-> header, ended |-> ended, body |-> more]
           q == [header |-> header, ended |-> yes, body |-> more]
<1>3. Written(bytes) = [parts EXCEPT ![k] = p]
  BY <1>1, <1>2, WrittenIs
<1>4. [p EXCEPT !.ended = yes] = q
  OBVIOUS
<1> HIDE DEF p, q
<1>5. [parts EXCEPT ![k] = p][k] = p
  BY <1>1
<1>6. [[parts EXCEPT ![k] = p] EXCEPT ![k].ended = yes] = [parts EXCEPT ![k] = q]
  BY <1>1, <1>4, <1>5
<1> QED BY <1>1, <1>2, <1>3, <1>6, <1>7 DEF q

\* In a body, there is a last part that has not ended.
LEMMA AtBody ==
  ASSUME MultipartTypes, PartsAreRight, NEW c, IsAt(c), state = "body"
  PROVE  parts \in Seq(APart) /\ Len(parts) \in 1..Len(parts) /\ parts[Len(parts)].ended = FALSE
<1>1. parts \in Seq(APart) /\ Len(parts) > 0 /\ ~parts[Len(parts)].ended
  BY DEF PartsAreRight, IsAt
<1>2. Len(parts) \in 1..Len(parts)
  BY <1>1
<1>3. parts[Len(parts)] \in APart
  BY <1>1, <1>2
<1>4. parts[Len(parts)].ended \in BOOLEAN
  BY <1>3 DEF APart
<1> QED BY <1>1, <1>2, <1>4

\* The delimiter that is looked for, in the form and in what has come of it.
LEMMA Search ==
  ASSUME MultipartInv, busy, state \in {"preamble", "body"}
  PROVE  \E c \in Nat, next \in Nat :
           /\ IsAt(c) /\ c <= received + 2 /\ next = DelimiterAt(form, Len(parts) + 1) /\ c <= next
           /\ next + 3 <= Len(Bytes(form)) /\ next + 5 <= Len(Total(form))
           /\ \/ IndexOf(delimiter, buffer) = -1 /\ next + 3 > received
              \/ IndexOf(delimiter, buffer) = next - c /\ next + 3 <= received
           /\ IsSlice(buffer, Total(form), c, received + 2)
<1>1. MultipartTypes /\ PartsAreRight /\ \E c \in 0..(received + 2) : IsAt(c)
  BY AtWork
<1>3. /\ Total(form) \in Seq(Symbols) /\ Len(Total(form)) = Len(Bytes(form)) + 2
      /\ Len(Bytes(form)) \in Nat /\ received \in Nat /\ received <= Len(Bytes(form))
  BY <1>1, Basics
<1>2. PICK c \in Nat : IsAt(c) /\ c <= received + 2
  BY <1>1, <1>3
<1>4. c \in Nat /\ received + 2 \in Nat /\ c <= received + 2 /\ received + 2 <= Len(Total(form))
  BY <1>2, <1>3
<1>5. PICK next \in Nat :
        /\ next = DelimiterAt(form, Len(parts) + 1) /\ c <= next /\ next + 5 <= Len(Total(form))
        /\ Reads(Total(form), next, delimiter)
        /\ \A i \in Nat : c <= i /\ i < next => ~Reads(Total(form), i, delimiter)
  BY <1>1, <1>2, <1>4, NextDelimiter
<1>6. IsSlice(buffer, Total(form), c, received + 2)
  BY <1>2 DEF IsAt
<1>7. \/ IndexOf(delimiter, buffer) = -1 /\ next + 5 > received + 2
      \/ IndexOf(delimiter, buffer) = next - c /\ next + 5 <= received + 2
  <2>1. PICK r \in Nat, t \in Seq(Symbols) : r = received + 2 /\ t = Total(form)
    BY <1>3, <1>4
  <2>2. /\ c <= r /\ r <= Len(t) /\ c <= next /\ Reads(t, next, delimiter)
        /\ \A i \in Nat : c <= i /\ i < next => ~Reads(t, i, delimiter)
    BY <1>4, <1>5, <2>1
  <2>3. IsSlice(buffer, t, c, r)
    BY <1>6, <2>1
  <2>5. PICK d \in Seq(Symbols), w \in Nat : d = delimiter /\ w = 5 /\ w = Len(d)
    BY DelimiterFacts
  <2>6. Reads(t, next, d) /\ \A i \in Nat : c <= i /\ i < next => ~Reads(t, i, d)
    BY <2>2, <2>5
  <2>7. w = Len(d)
    BY <2>5
  <2>8. c \in Nat /\ c <= r /\ r <= Len(t) /\ c <= next
    BY <1>4, <2>2
  <2>4. \/ IndexOf(d, buffer) = -1 /\ next + w > r
        \/ IndexOf(d, buffer) = next - c /\ next + w <= r
    BY <2>3, <2>6, <2>7, <2>8, SearchFor
  <2> QED BY <2>1, <2>4, <2>5
<1>8. next + 3 <= Len(Bytes(form))
  BY <1>3, <1>5
<1>9. \/ IndexOf(delimiter, buffer) = -1 /\ next + 3 > received
      \/ IndexOf(delimiter, buffer) = next - c /\ next + 3 <= received
  BY <1>3, <1>5, <1>7
<1> QED BY <1>2, <1>4, <1>5, <1>6, <1>8, <1>9

\* What is dropped of the bytes that wait.
LEMMA Dropped ==
  ASSUME MultipartTypes, PartsAreRight, NEW c \in Nat, NEW s \in Nat, c + s <= received + 2,
         IsSlice(buffer, Total(form), c, received + 2)
  PROVE  /\ IsSlice(Drop(buffer, s), Total(form), c + s, received + 2)
         /\ IsSlice(SubSeq(buffer, 1, s), Total(form), c, c + s)
         /\ buffer \in Seq(Symbols) /\ Len(buffer) = received + 2 - c
         /\ \A i \in 1..(received + 2 - c) : buffer[i] = Total(form)[c + i]
<1>1. /\ Total(form) \in Seq(Symbols) /\ Len(Total(form)) = Len(Bytes(form)) + 2
      /\ Len(Bytes(form)) \in Nat /\ received \in Nat /\ received <= Len(Bytes(form))
  BY Basics
<1>2. Total(form) \in Seq(Symbols) /\ received + 2 \in Nat /\ received + 2 <= Len(Total(form))
  BY <1>1
<1>3. IsSlice(Drop(buffer, s), Total(form), c + s, received + 2)
  BY <1>2, DropFacts
<1>4. IsSlice(SubSeq(buffer, 1, s), Total(form), c, c + s)
  BY <1>2, DropFacts
<1>5. c <= received + 2
  BY <1>1
<1>6. /\ buffer \in Seq(Symbols) /\ Len(buffer) = received + 2 - c
      /\ \A i \in 1..(received + 2 - c) : buffer[i] = Total(form)[c + i]
  <2>1. PICK r \in Nat : r = received + 2 /\ c <= r /\ r <= Len(Total(form))
    BY <1>2, <1>5
  <2>2. IsSlice(buffer, Total(form), c, r)
    BY <2>1
  <2>3. /\ buffer \in Seq(Symbols) /\ Len(buffer) = r - c
        /\ \A i \in 1..(r - c) : buffer[i] = Total(form)[c + i]
    BY <1>2, <2>1, <2>2, SliceFacts
  <2>4. r - c = received + 2 - c
    BY <1>1, <2>1
  <2> QED BY <2>3, <2>4, Zenon
<1> QED BY <1>3, <1>4, <1>6

\* KeepUnsettled keeps the invariant: what it settles is of the body, as no delimiter
\* starts so early.
LEMMA KeepUnsettledStep ==
  ASSUME MultipartInv, KeepUnsettled
  PROVE  MultipartInv'
<1>1. busy /\ state \in {"preamble", "body"} /\ MultipartTypes /\ PartsAreRight
  BY AtWork DEF KeepUnsettled
<1>2. PICK c \in Nat, next \in Nat :
        /\ IsAt(c) /\ c <= received + 2 /\ next = DelimiterAt(form, Len(parts) + 1) /\ c <= next
        /\ next + 3 <= Len(Bytes(form)) /\ next + 5 <= Len(Total(form))
        /\ \/ IndexOf(delimiter, buffer) = -1 /\ next + 3 > received
           \/ IndexOf(delimiter, buffer) = next - c /\ next + 3 <= received
        /\ IsSlice(buffer, Total(form), c, received + 2)
  BY <1>1, Search
<1>3. /\ form' = form /\ received' = received /\ source' = source /\ state' = state /\ outcome' = outcome
      /\ busy' = FALSE /\ IndexOf(delimiter, buffer) = -1
  BY DEF KeepUnsettled
<1>4. received \in Nat /\ Len(Bytes(form)) \in Nat
  BY <1>1, Basics
<1>5. next + 3 > received /\ received < Len(Bytes(form))
  BY <1>2, <1>3, <1>4
<1>6. Settled(buffer) = received + 2 - c - 4
  <2>1. Len(buffer) = received + 2 - c
    <3>1. 0 \in Nat /\ c + 0 <= received + 2
      BY <1>2
    <3> QED BY <1>1, <1>2, <3>1, Dropped
  <2>2. PICK d \in Nat : Len(delimiter) = d /\ d = 5
    BY DelimiterFacts
  <2> QED BY <1>4, <2>1, <2>2 DEF Settled
<1>7. CASE ~(Settled(buffer) > 0)
  <2>1. parts' = parts /\ buffer' = buffer
    BY <1>7 DEF KeepUnsettled
  <2>2. PartsAreRight'
    BY <1>1, <1>3, <2>1 DEF PartsAreRight
  <2>3. IsAt(c)'
    BY <1>2, <1>3, <2>1, StillThere
  <2>4. c \in 0..(received + 2)
    BY <1>2, <1>4
  <2> QED BY <1>1, <1>3, <1>5, <2>2, <2>3, <2>4, GoesOn
<1>8. CASE Settled(buffer) > 0
  <2>1. PICK s \in Nat, e \in Nat : s = Settled(buffer) /\ e = c + s /\ e <= received + 2 /\ c <= e /\ e <= next
    <3>1. PICK x \in Nat, r \in Nat : x = Settled(buffer) /\ r = received + 2 /\ x = r - c - 4 /\ c <= next /\ r < next + 5
      <4>1. received + 2 \in Nat /\ received + 2 < next + 5
        BY <1>4, <1>5
      <4>2. Settled(buffer) \in Nat
        BY <1>4, <1>6, <1>8
      <4>3. c <= next
        BY <1>2
      <4> QED BY <1>4, <1>6, <4>1, <4>2, <4>3
    <3>2. c + x \in Nat /\ c + x <= r /\ c <= c + x /\ c + x <= next
      BY <3>1
    <3> QED BY <3>1, <3>2
  <2>2. buffer' = Drop(buffer, s) /\ parts' = IF state = "body" THEN Written(SubSeq(buffer, 1, s)) ELSE parts
    BY <1>8, <2>1 DEF KeepUnsettled
  <2>3. IsSlice(Drop(buffer, s), Total(form), e, received + 2) /\ IsSlice(SubSeq(buffer, 1, s), Total(form), c, e)
    BY <1>1, <1>2, <2>1, Dropped
  <2>4. IsSlice(buffer', Total(form), e, received' + 2)
    BY <1>3, <2>2, <2>3
  <2>5. e \in 0..(received + 2) /\ e <= Len(Total(form))
    BY <1>2, <1>4, <2>1
  <2>6. CASE state = "preamble"
    <3>1. parts' = parts
      BY <2>2, <2>6
    <3>2. PartsAreRight'
      BY <1>1, <1>3, <3>1 DEF PartsAreRight
    <3>3. Len(parts) = 0 /\ e <= DelimiterAt(form, 1)
      <4>1. Len(parts) = 0
        BY <1>2, <2>6 DEF IsAt
      <4>2. next = DelimiterAt(form, 1)
        BY <1>2, <4>1
      <4> QED BY <2>1, <4>1, <4>2
    <3>4. IsAt(e)'
      BY <1>3, <2>4, <2>6, <3>1, <3>3 DEF IsAt, IsSlice
    <3> QED BY <1>1, <1>3, <1>5, <2>5, <3>2, <3>4, GoesOn
  <2>7. CASE state = "body"
    <3>1. parts \in Seq(APart) /\ Len(parts) \in 1..Len(parts) /\ parts[Len(parts)].ended = FALSE
      BY <1>1, <1>2, <2>7, AtBody
    <3>2. parts' = [parts EXCEPT ![Len(parts)] =
                      [ header |-> parts[Len(parts)].header, ended |-> FALSE,
                        body |-> parts[Len(parts)].body \o SubSeq(Total(form), c + 1, e) ]]
      BY <2>2, <2>3, <2>7, <3>1, WrittenIs DEF IsSlice
    <3>3. /\ PartsAreRight' /\ Len(parts') = Len(parts) /\ Len(parts) \in 1..Len(form.parts)
          /\ parts'[Len(parts)].body = SubSeq(form.parts[Len(parts)].body, 1, e - BodyStart(form, Len(parts)))
          /\ parts'[Len(parts)].ended = FALSE
      <4>1. e <= DelimiterAt(form, Len(parts) + 1)
        BY <1>2, <2>1
      <4> QED BY <1>1, <1>2, <1>3, <2>1, <2>5, <2>7, <3>2, <4>1, PartGrows
    <3>4. BodyStart(form, Len(parts)) <= e /\ e <= DelimiterAt(form, Len(parts) + 1)
      <4>1. BodyStart(form, Len(parts)) <= c
        BY <1>2, <2>7 DEF IsAt
      <4>2. form \in Forms
        BY <1>1, Basics
      <4>3. BodyStart(form, Len(parts)) \in Nat
        BY <3>3, <4>2, Layout
      <4> QED BY SMTT(30), <1>2, <2>1, <4>1, <4>3
    <3>5. Len(parts) > 0
      BY <3>1
    <3>6. IsAt(e)'
      BY <1>3, <2>4, <2>7, <3>3, <3>4, <3>5 DEF IsAt, IsSlice
    <3> QED BY <1>1, <1>3, <1>5, <2>5, <3>3, <3>6, GoesOn
  <2> QED BY <1>1, <2>6, <2>7
<1> QED BY <1>7, <1>8

\* Delimit keeps the invariant: the delimiter that it finds is the one after the body.
LEMMA DelimitStep ==
  ASSUME MultipartInv, Delimit
  PROVE  MultipartInv'
<1>1. busy /\ state \in {"preamble", "body"} /\ MultipartTypes /\ PartsAreRight
  BY AtWork DEF Delimit
<1>2. PICK c \in Nat, next \in Nat :
        /\ IsAt(c) /\ c <= received + 2 /\ next = DelimiterAt(form, Len(parts) + 1) /\ c <= next
        /\ next + 3 <= Len(Bytes(form)) /\ next + 5 <= Len(Total(form))
        /\ \/ IndexOf(delimiter, buffer) = -1 /\ next + 3 > received
           \/ IndexOf(delimiter, buffer) = next - c /\ next + 3 <= received
        /\ IsSlice(buffer, Total(form), c, received + 2)
  BY <1>1, Search
<1>3. /\ form' = form /\ received' = received /\ source' = source /\ state' = "delimiter-end" /\ outcome' = outcome
      /\ busy' = busy /\ IndexOf(delimiter, buffer) # -1
  BY DEF Delimit
<1>4. received \in Nat /\ Len(Bytes(form)) \in Nat
  BY <1>1, Basics
<1>5. PICK index \in Nat : index = IndexOf(delimiter, buffer) /\ index = next - c /\ next + 3 <= received
  <2>1. next - c \in Nat
    BY <1>2
  <2> QED BY <1>2, <1>3, <2>1
<1>6. /\ buffer' = Drop(buffer, index + Len(delimiter))
      /\ parts' = IF state = "body" THEN [Written(SubSeq(buffer, 1, index)) EXCEPT ![Len(parts)].ended = TRUE]
                  ELSE parts
  BY <1>5 DEF Delimit
<1>7. PICK s \in Nat : s = index + 5 /\ s = index + Len(delimiter)
  BY <1>5, DelimiterFacts
<1>8. c + s = next + 5 /\ c + s <= received + 2 /\ c + index = next /\ c + index <= received + 2
  <2>1. c + index = next /\ c + s = next + 5
    BY <1>5, <1>7
  <2> QED BY <1>4, <1>5, <2>1
<1>9. IsSlice(buffer', Total(form), next + 5, received' + 2)
  <2>1. IsSlice(Drop(buffer, s), Total(form), c + s, received + 2)
    BY <1>1, <1>2, <1>8, Dropped
  <2> QED BY <1>3, <1>6, <1>7, <1>8, <2>1
<1>10. SubSeq(buffer, 1, index) = SubSeq(Total(form), c + 1, next)
  <2>1. IsSlice(SubSeq(buffer, 1, index), Total(form), c, c + index)
    BY <1>1, <1>2, <1>8, Dropped
  <2> QED BY <1>8, <2>1 DEF IsSlice
<1>11. PartsAreRight' /\ Len(parts') = Len(parts)
  <2>1. CASE state = "preamble"
    <3>1. parts' = parts
      BY <1>6, <2>1
    <3> QED BY <1>1, <1>3, <2>1, <3>1 DEF PartsAreRight
  <2>2. CASE state = "body"
    <3>1. parts \in Seq(APart) /\ Len(parts) \in 1..Len(parts)
      BY <1>1, <1>2, <2>2, AtBody
    <3>2. parts' = [parts EXCEPT ![Len(parts)] =
                      [ header |-> parts[Len(parts)].header, ended |-> TRUE,
                        body |-> parts[Len(parts)].body \o SubSeq(Total(form), c + 1, next) ]]
      BY <1>6, <1>10, <2>2, <3>1, EndedIs
    <3>3. next <= DelimiterAt(form, Len(parts) + 1) /\ next <= Len(Total(form)) /\ next = DelimiterAt(form, Len(parts) + 1)
      <4>1. Len(Total(form)) \in Nat
        BY <1>1, Basics
      <4>2. next + 5 <= Len(Total(form)) /\ next = DelimiterAt(form, Len(parts) + 1)
        BY <1>2
      <4> QED BY <4>1, <4>2
    <3> QED BY <1>1, <1>2, <1>3, <2>2, <3>2, <3>3, PartGrows
  <2> QED BY <1>1, <2>1, <2>2
<1>12. IsAt(next + 5)'
  <2>1. next + 5 = DelimiterAt(form, Len(parts') + 1) + 5
    BY <1>2, <1>11
  <2> QED BY <1>3, <1>9, <2>1 DEF IsAt, IsSlice
<1>13. next + 5 \in 0..(received + 2)
  BY <1>4, <1>5
<1> QED BY <1>1, <1>3, <1>11, <1>12, <1>13, GoesOn

\* A beginning is what is read at the start.
LEMMA PrefixIsRead ==
  ASSUME NEW S, NEW b \in Seq(S), NEW s \in Seq(S)
  PROVE  IsPrefix(s, b) <=> Reads(b, 0, s)
<1>1. PICK n \in Nat : n = Len(s)
  OBVIOUS
<1>2. SubSeq(s, 1, n) = s
  BY <1>1, SubSeqFull
<1>3. IsPrefix(s, b) <=> n <= Len(b) /\ SubSeq(b, 1, n) = s
  BY <1>1, <1>2 DEF IsPrefix
<1>4. CASE n <= Len(b)
  <2>1. 0 + Len(s) <= Len(b) /\ 0 + 1 = 1 /\ 0 + Len(s) = n /\ 0 \in Nat
    BY <1>1, <1>4
  <2>2. Reads(b, 0, s) <=> SubSeq(b, 0 + 1, 0 + Len(s)) = s
    BY <2>1, ReadsSubSeq
  <2> QED BY <1>3, <1>4, <2>1, <2>2
<1>5. CASE ~(n <= Len(b))
  BY <1>1, <1>3, <1>5 DEF Reads
<1> QED BY <1>4, <1>5

\* Two bytes that are read.
LEMMA PairIsRead ==
  ASSUME NEW b \in Seq(Symbols), NEW x \in Symbols, NEW y \in Symbols, NEW n \in Nat
  PROVE  Reads(b, n, <<x, y>>) <=> n + 2 <= Len(b) /\ b[n + 1] = x /\ b[n + 2] = y
<1>1. Len(<<x, y>>) = 2 /\ <<x, y>>[1] = x /\ <<x, y>>[2] = y
  OBVIOUS
<1>2. (\A i \in 1..2 : b[n + i] = <<x, y>>[i]) <=> b[n + 1] = x /\ b[n + 2] = y
  <2>1. \A i \in 1..2 : i = 1 \/ i = 2
    OBVIOUS
  <2>2. 1 \in 1..2 /\ 2 \in 1..2
    OBVIOUS
  <2> QED BY <1>1, <2>1, <2>2
<1> QED BY <1>1, <1>2 DEF Reads

\* The bytes of each line after a boundary.
LEMMA LineFacts ==
  ASSUME NEW line \in Lines, NEW bytes, bytes = LineBytes(line)
  PROVE  /\ line = "bare" => Len(bytes) = 2 /\ bytes[1] = "cr" /\ bytes[2] = "lf"
         /\ line = "padded" => Len(bytes) = 3 /\ bytes[1] = "sp" /\ bytes[2] = "cr" /\ bytes[3] = "lf"
         /\ line = "broken" => Len(bytes) = 4 /\ bytes[1] = "sp" /\ bytes[2] = "x"
         /\ line \in {"bare", "padded", "broken"}
<1>1. CASE line = "bare"
  BY <1>1 DEF LineBytes, Crlf
<1>2. CASE line = "padded"
  <2>1. bytes = <<"sp", "cr", "lf">>
    <3>1. <<"sp", "cr", "lf">> = <<"sp">> \o <<"cr", "lf">>
      OBVIOUS
    <3> QED BY <1>2, <3>1 DEF LineBytes, Crlf
  <2> QED BY <1>2, <2>1
<1>3. CASE line = "broken"
  <2>1. bytes = <<"sp", "x", "cr", "lf">>
    <3>1. <<"sp", "x", "cr", "lf">> = <<"sp", "x">> \o <<"cr", "lf">>
      OBVIOUS
    <3> QED BY <1>3, <3>1 DEF LineBytes, Crlf
  <2> QED BY <1>3, <2>1
<1> QED BY <1>1, <1>2, <1>3 DEF Lines, GoodLines

\* The padding of a line is as long as the spaces it begins with.
LEMMA PaddingIs ==
  ASSUME NEW b \in Seq(Symbols), NEW m \in {0, 1}, m < Len(b), m = 1 => b[1] = "sp", b[m + 1] # "sp"
  PROVE  LET padding == {i \in 0..Len(b) : \A j \in 1..i : b[j] = "sp"} IN
         (CHOOSE i \in padding : \A j \in padding : j <= i) = m
<1> DEFINE padding == {i \in 0..Len(b) : \A j \in 1..i : b[j] = "sp"}
<1>1. m \in padding
  <2>1. \A j \in 1..m : j = 1 /\ m = 1
    OBVIOUS
  <2> QED BY <2>1
<1>2. \A i \in padding : i <= m
  <2>1. SUFFICES ASSUME NEW i \in padding, i > m PROVE FALSE
    OBVIOUS
  <2>2. m + 1 \in 1..i
    BY <2>1
  <2> QED BY <2>1, <2>2
<1>3. padding \subseteq Int /\ m \in Int
  OBVIOUS
<1> HIDE DEF padding
<1>4. \A i \in padding : (\A j \in padding : j <= i) => i = m
  <2>1. SUFFICES ASSUME NEW i \in padding, \A j \in padding : j <= i PROVE i = m
    OBVIOUS
  <2>2. i \in Int /\ i <= m /\ m <= i
    BY <1>1, <1>2, <1>3, <2>1
  <2> QED BY <1>3, <2>2
<1>5. (CHOOSE i \in padding : \A j \in padding : j <= i) = m
  BY <1>1, <1>2, <1>4
<1> QED BY <1>5 DEF padding

\* What waits, and what is still to come.
LEMMA Waiting ==
  ASSUME MultipartInv, busy
  PROVE  \E c \in Nat :
           /\ IsAt(c) /\ c <= received + 2 /\ received + 2 \in Nat /\ received + 2 <= Len(Total(form))
           /\ IsSlice(buffer, Total(form), c, received + 2) /\ c \in 0..(received + 2)
           /\ buffer \in Seq(Symbols) /\ Len(buffer) = received + 2 - c
           /\ \A i \in 1..(received + 2 - c) : buffer[i] = Total(form)[c + i]
<1>1. MultipartTypes /\ PartsAreRight /\ \E c \in 0..(received + 2) : IsAt(c)
  BY AtWork
<1>2. PICK c \in 0..(received + 2) : IsAt(c)
  BY <1>1
<1>3. /\ Len(Total(form)) = Len(Bytes(form)) + 2 /\ Len(Bytes(form)) \in Nat
      /\ received \in Nat /\ received <= Len(Bytes(form))
  BY <1>1, Basics
<1>4. c \in Nat /\ c <= received + 2 /\ received + 2 \in Nat /\ received + 2 <= Len(Total(form)) /\ c + 0 <= received + 2
  BY <1>3
<1>5. IsSlice(buffer, Total(form), c, received + 2)
  BY <1>2 DEF IsAt
<1>6. /\ buffer \in Seq(Symbols) /\ Len(buffer) = received + 2 - c
      /\ \A i \in 1..(received + 2 - c) : buffer[i] = Total(form)[c + i]
  BY <1>1, <1>4, <1>5, Dropped
<1> QED BY <1>2, <1>4, <1>5, <1>6

\* What the form has after a delimiter.
IsCloseOrLine(t, c, k) ==
  \/ k = Len(form.parts) /\ c + 2 <= Len(t) /\ t[c + 1] = "-" /\ t[c + 2] = "-"
  \/ /\ k < Len(form.parts) /\ k + 1 \in 1..Len(form.parts)
     /\ \/ /\ form.parts[k + 1].line = "bare" /\ HeadStart(form, k + 1) = c + 2
           /\ c + 2 <= Len(t) /\ t[c + 1] = "cr" /\ t[c + 2] = "lf"
        \/ /\ form.parts[k + 1].line = "padded" /\ HeadStart(form, k + 1) = c + 3
           /\ c + 3 <= Len(t) /\ t[c + 1] = "sp" /\ t[c + 2] = "cr" /\ t[c + 3] = "lf"
        \/ /\ form.parts[k + 1].line = "broken"
           /\ c + 4 <= Len(t) /\ t[c + 1] = "sp" /\ t[c + 2] = "x"

\* After the last delimiter come two dashes, after another one its line.
LEMMA AfterDelimiter ==
  ASSUME MultipartTypes, PartsAreRight, NEW c \in Nat, IsAt(c), state = "delimiter-end",
         NEW t, t = Total(form), NEW k \in Nat, k = Len(parts)
  PROVE  IsCloseOrLine(t, c, k)
<1>1. c = DelimiterAt(form, k + 1) + 5
  BY DEF IsAt
<1>2. /\ form \in Forms /\ t \in Seq(Symbols) /\ Len(form.parts) \in Nat /\ k <= Len(form.parts)
  BY Basics
<1>3. CASE k = Len(form.parts)
  <2>1. Reads(t, c, <<"-", "-">>)
    BY <1>1, <1>2, <1>3, Layout
  <2>2. c + 2 <= Len(t) /\ t[c + 1] = "-" /\ t[c + 2] = "-"
    BY <1>2, <2>1, PairIsRead, LiteralBytes
  <2> QED BY <1>3, <2>2 DEF IsCloseOrLine
<1>4. CASE k # Len(form.parts)
  <2>1. k < Len(form.parts) /\ k + 1 \in 1..Len(form.parts)
    BY <1>2, <1>4
  <2>2. PICK line \in Lines : line = form.parts[k + 1].line
    BY <1>2, <2>1, FormType
  <2>3. PICK bytes \in Seq(Symbols) : bytes = LineBytes(line)
    BY LineType
  <2>4. Reads(t, c, bytes) /\ HeadStart(form, k + 1) = c + Len(bytes)
    <3>1. Reads(t, DelimiterAt(form, k + 1) + 5, bytes)
      BY <1>2, <2>1, <2>2, <2>3, Layout
    <3>2. HeadStart(form, k + 1) = c + Len(bytes)
      BY <1>1, <2>2, <2>3 DEF HeadStart
    <3> QED BY <1>1, <3>1, <3>2
  <2>5. c + Len(bytes) <= Len(t) /\ \A i \in 1..Len(bytes) : t[c + i] = bytes[i]
    BY <2>4 DEF Reads
  <2>6. /\ line = "bare" => Len(bytes) = 2 /\ bytes[1] = "cr" /\ bytes[2] = "lf"
        /\ line = "padded" => Len(bytes) = 3 /\ bytes[1] = "sp" /\ bytes[2] = "cr" /\ bytes[3] = "lf"
        /\ line = "broken" => Len(bytes) = 4 /\ bytes[1] = "sp" /\ bytes[2] = "x"
        /\ line \in {"bare", "padded", "broken"}
    BY <2>3, LineFacts
  <2>7. CASE line = "bare"
    <3>1. 1 \in 1..2 /\ 2 \in 1..2
      OBVIOUS
    <3>2. HeadStart(form, k + 1) = c + 2 /\ c + 2 <= Len(t) /\ t[c + 1] = "cr" /\ t[c + 2] = "lf"
      BY <2>4, <2>5, <2>6, <2>7, <3>1
    <3> QED BY <2>1, <2>2, <2>7, <3>2 DEF IsCloseOrLine
  <2>8. CASE line = "padded"
    <3>1. 1 \in 1..3 /\ 2 \in 1..3 /\ 3 \in 1..3
      OBVIOUS
    <3>2. /\ HeadStart(form, k + 1) = c + 3
          /\ c + 3 <= Len(t) /\ t[c + 1] = "sp" /\ t[c + 2] = "cr" /\ t[c + 3] = "lf"
      BY <2>4, <2>5, <2>6, <2>8, <3>1
    <3> QED BY <2>1, <2>2, <2>8, <3>2 DEF IsCloseOrLine
  <2>9. CASE line = "broken"
    <3>1. 1 \in 1..4 /\ 2 \in 1..4
      OBVIOUS
    <3>2. c + 4 <= Len(t) /\ t[c + 1] = "sp" /\ t[c + 2] = "x"
      BY <2>5, <2>6, <2>9, <3>1
    <3> QED BY <2>1, <2>2, <2>9, <3>2 DEF IsCloseOrLine
  <2> QED BY <2>6, <2>7, <2>8, <2>9
<1> QED BY <1>3, <1>4

\* What process does after a delimiter, by the padding that has come.
LEMMA EndDelimiterCases ==
  ASSUME EndDelimiter, buffer \in Seq(Symbols)
  PROVE  /\ busy /\ state = "delimiter-end" /\ form' = form /\ received' = received /\ source' = source
         /\ Len(buffer) < 2 => Wait
         /\ Len(buffer) >= 2 /\ buffer[1] = "-" /\ buffer[2] = "-" =>
              outcome' = "done" /\ busy' = FALSE /\ state' = state /\ parts' = parts
         /\ \A m \in {0, 1} :
              /\ Len(buffer) >= 2 /\ buffer[1] # "-" /\ (m = 1 => buffer[1] = "sp") /\ buffer[m + 1] # "sp"
              => /\ m + 1 >= Len(buffer) => Wait
                 /\ m + 1 < Len(buffer) /\ ~(buffer[m + 1] = "cr" /\ buffer[m + 2] = "lf") => Throw
                 /\ m + 1 < Len(buffer) /\ buffer[m + 1] = "cr" /\ buffer[m + 2] = "lf" =>
                      /\ buffer' = Drop(buffer, m + 2) /\ state' = "headers"
                      /\ busy' = busy /\ outcome' = outcome /\ parts' = parts
<1> DEFINE padding == {i \in 0..Len(buffer) : \A j \in 1..i : buffer[j] = "sp"}
           index == CHOOSE i \in padding : \A j \in padding : j <= i
           close == IsPrefix(<<"-", "-">>, buffer)
<1>1. busy /\ state = "delimiter-end" /\ form' = form /\ received' = received /\ source' = source
  BY DEF EndDelimiter
<1>2. /\ Len(buffer) < 2 => Wait
      /\ ~(Len(buffer) < 2) /\ close =>
           outcome' = "done" /\ busy' = FALSE /\ state' = state /\ parts' = parts
      /\ ~(Len(buffer) < 2) /\ ~close =>
           IF index + 1 >= Len(buffer) THEN Wait
           ELSE IF SubSeq(buffer, index + 1, index + 2) # Crlf THEN Throw
           ELSE /\ buffer' = Drop(buffer, index + 2) /\ state' = "headers"
                /\ UNCHANGED <<busy, outcome, parts>>
  <2>1. close => ~(Len(buffer) < 2)
    BY DEF IsPrefix
  <2> HIDE DEF index, padding
  <2> QED BY <2>1 DEF EndDelimiter, index, padding
<1>3. close <=> Len(buffer) >= 2 /\ buffer[1] = "-" /\ buffer[2] = "-"
  <2>1. <<"-", "-">> \in Seq(Symbols) /\ "-" \in Symbols /\ 0 \in Nat /\ 0 + 1 = 1 /\ 0 + 2 = 2
    BY LiteralBytes
  <2>2. close <=> Reads(buffer, 0, <<"-", "-">>)
    BY <2>1, PrefixIsRead
  <2>3. Reads(buffer, 0, <<"-", "-">>) <=> 0 + 2 <= Len(buffer) /\ buffer[0 + 1] = "-" /\ buffer[0 + 2] = "-"
    BY <2>1, PairIsRead
  <2> QED BY <2>1, <2>2, <2>3
<1> HIDE DEF close, index
<1>4. ASSUME NEW m \in {0, 1}
      PROVE  Len(buffer) >= 2 /\ buffer[1] # "-" /\ (m = 1 => buffer[1] = "sp") /\ buffer[m + 1] # "sp"
             => /\ m + 1 >= Len(buffer) => Wait
                /\ m + 1 < Len(buffer) /\ ~(buffer[m + 1] = "cr" /\ buffer[m + 2] = "lf") => Throw
                /\ m + 1 < Len(buffer) /\ buffer[m + 1] = "cr" /\ buffer[m + 2] = "lf" =>
                     /\ buffer' = Drop(buffer, m + 2) /\ state' = "headers"
                     /\ busy' = busy /\ outcome' = outcome /\ parts' = parts
  <2>5. SUFFICES ASSUME Len(buffer) >= 2, buffer[1] # "-", m = 1 => buffer[1] = "sp", buffer[m + 1] # "sp"
                 PROVE  /\ m + 1 >= Len(buffer) => Wait
                        /\ m + 1 < Len(buffer) /\ ~(buffer[m + 1] = "cr" /\ buffer[m + 2] = "lf") => Throw
                        /\ m + 1 < Len(buffer) /\ buffer[m + 1] = "cr" /\ buffer[m + 2] = "lf" =>
                             /\ buffer' = Drop(buffer, m + 2) /\ state' = "headers"
                             /\ busy' = busy /\ outcome' = outcome /\ parts' = parts
    OBVIOUS
  <2>1. index = m
    <3>1. m < Len(buffer)
      BY <2>5
    <3> QED BY <2>5, <3>1, PaddingIs DEF index
  <2>2. IF m + 1 >= Len(buffer) THEN Wait
        ELSE IF SubSeq(buffer, m + 1, m + 2) # Crlf THEN Throw
        ELSE /\ buffer' = Drop(buffer, m + 2) /\ state' = "headers"
             /\ UNCHANGED <<busy, outcome, parts>>
    BY <1>2, <1>3, <2>5, <2>1
  <2>3. m + 1 < Len(buffer) => (SubSeq(buffer, m + 1, m + 2) = Crlf <=> buffer[m + 1] = "cr" /\ buffer[m + 2] = "lf")
    <3>1. SUFFICES ASSUME m + 1 < Len(buffer)
                   PROVE  SubSeq(buffer, m + 1, m + 2) = Crlf <=> buffer[m + 1] = "cr" /\ buffer[m + 2] = "lf"
      OBVIOUS
    <3>2. PICK c \in Seq(Symbols) : c = Crlf /\ c = <<"cr", "lf">> /\ Len(c) = 2
      BY DelimiterFacts DEF Crlf
    <3>3. m \in Nat /\ m + Len(c) <= Len(buffer) /\ m + Len(c) = m + 2 /\ "cr" \in Symbols /\ "lf" \in Symbols
      BY <3>1, <3>2, LiteralBytes
    <3>4. Reads(buffer, m, c) <=> SubSeq(buffer, m + 1, m + Len(c)) = c
      BY <3>3, ReadsSubSeq
    <3>5. Reads(buffer, m, <<"cr", "lf">>) <=> m + 2 <= Len(buffer) /\ buffer[m + 1] = "cr" /\ buffer[m + 2] = "lf"
      BY <3>3, PairIsRead
    <3> QED BY <3>2, <3>3, <3>4, <3>5
  <2>4. ~(m + 1 >= Len(buffer)) <=> m + 1 < Len(buffer)
    OBVIOUS
  <2> QED BY <2>2, <2>3, <2>4
<1>5. Len(buffer) >= 2 => ~(Len(buffer) < 2)
  OBVIOUS
<1> QED BY <1>1, <1>2, <1>3, <1>4, <1>5, Zenon

\* The form is complete.
LEMMA Accepts ==
  ASSUME MultipartInv, busy, state = "delimiter-end", Len(parts) = Len(form.parts),
         form' = form, received' = received, source' = source, outcome' = "done", busy' = FALSE,
         state' = state, parts' = parts
  PROVE  MultipartInv'
<1>1. MultipartTypes /\ PartsAreRight /\ source = "open" /\ outcome = "none"
  BY AtWork
<1>2. MultipartTypes'
  BY <1>1 DEF MultipartTypes
<1>3. PartsAreRight'
  BY <1>1 DEF PartsAreRight
<1>4. OutcomeIsRight'
  BY DEF OutcomeIsRight
<1>5. WaitsForMore'
  BY <1>1 DEF WaitsForMore
<1> QED BY <1>2, <1>3, <1>4, <1>5 DEF MultipartInv

\* The line after a delimiter is complete, and the headers of the part are next.
LEMMA LineIsRead ==
  ASSUME MultipartInv, busy, NEW c \in Nat, NEW m \in Nat, c + m <= received + 2,
         IsSlice(buffer, Total(form), c, received + 2), state = "delimiter-end",
         Len(parts) < Len(form.parts), form.parts[Len(parts) + 1].line \in GoodLines,
         c + m = HeadStart(form, Len(parts) + 1),
         form' = form, received' = received, source' = source, outcome' = outcome, busy' = busy,
         parts' = parts, buffer' = Drop(buffer, m), state' = "headers"
  PROVE  MultipartInv'
<1>1. MultipartTypes /\ PartsAreRight
  BY AtWork
<1>2. IsSlice(buffer', Total(form), c + m, received + 2)
  BY <1>1, Dropped
<1>3. PartsAreRight'
  BY <1>1 DEF PartsAreRight
<1>4. IsAt(c + m)'
  BY <1>2 DEF IsAt, IsSlice
<1>5. c + m \in 0..(received + 2)
  <2>1. received \in Nat
    BY <1>1, Basics
  <2> QED BY <2>1
<1> QED BY <1>1, <1>3, <1>4, <1>5, GoesOn

\* EndDelimiter keeps the invariant: it waits only for what is still to come, and throws
\* only at a line that is broken.
LEMMA EndDelimiterStep ==
  ASSUME MultipartInv, EndDelimiter
  PROVE  MultipartInv'
<1>1. busy /\ state = "delimiter-end" /\ form' = form /\ received' = received /\ source' = source
  BY DEF EndDelimiter
<1>2. MultipartTypes /\ PartsAreRight
  BY <1>1, AtWork
<1>3. PICK c \in Nat :
        /\ IsAt(c) /\ c <= received + 2 /\ received + 2 \in Nat /\ received + 2 <= Len(Total(form))
        /\ IsSlice(buffer, Total(form), c, received + 2) /\ c \in 0..(received + 2)
        /\ buffer \in Seq(Symbols) /\ Len(buffer) = received + 2 - c
        /\ \A i \in 1..(received + 2 - c) : buffer[i] = Total(form)[c + i]
  BY <1>1, Waiting
<1>4. PICK t \in Seq(Symbols), k \in Nat : t = Total(form) /\ k = Len(parts)
  BY <1>2, Basics
<1>5. received \in Nat /\ Len(Bytes(form)) \in Nat /\ Len(t) = Len(Bytes(form)) + 2
  BY <1>2, <1>4, Basics
<1>6. PICK r \in Nat : /\ r = received + 2 /\ c <= r /\ r <= Len(t) /\ Len(buffer) = r - c
                       /\ \A i \in 1..(r - c) : buffer[i] = t[c + i]
  BY <1>3, <1>4, <1>5
<1>7. r < Len(t) => received < Len(Bytes(form))
  BY <1>5, <1>6
<1>8. Wait /\ r < Len(t) => MultipartInv'
  BY <1>1, <1>7, WaitStep
<1>9. /\ Len(buffer) < 2 => Wait
      /\ Len(buffer) >= 2 /\ buffer[1] = "-" /\ buffer[2] = "-" =>
           outcome' = "done" /\ busy' = FALSE /\ state' = state /\ parts' = parts
  BY <1>3, EndDelimiterCases
<1>10. ASSUME NEW m \in {0, 1}, Len(buffer) >= 2, buffer[1] # "-", m = 1 => buffer[1] = "sp", buffer[m + 1] # "sp"
       PROVE  /\ m + 1 >= Len(buffer) => Wait
              /\ m + 1 < Len(buffer) /\ ~(buffer[m + 1] = "cr" /\ buffer[m + 2] = "lf") => Throw
              /\ m + 1 < Len(buffer) /\ buffer[m + 1] = "cr" /\ buffer[m + 2] = "lf" =>
                   /\ buffer' = Drop(buffer, m + 2) /\ state' = "headers"
                   /\ busy' = busy /\ outcome' = outcome /\ parts' = parts
  BY <1>3, <1>10, EndDelimiterCases
<1>11. IsCloseOrLine(t, c, k)
  BY <1>1, <1>2, <1>3, <1>4, AfterDelimiter
<1>12. CASE Len(buffer) < 2
  <2>1. c + 2 <= Len(t)
    BY <1>5, <1>11 DEF IsCloseOrLine
  <2>2. r < Len(t)
    BY <1>5, <1>6, <1>12, <2>1
  <2> QED BY <1>8, <1>9, <1>12, <2>2
<1>13. CASE Len(buffer) >= 2
  <2>1. /\ r - c >= 2 /\ buffer[1] = t[c + 1] /\ buffer[2] = t[c + 2]
        /\ r - c >= 3 => buffer[3] = t[c + 3]
    <3>1. r - c >= 2 /\ 1 \in 1..(r - c) /\ 2 \in 1..(r - c) /\ (r - c >= 3 => 3 \in 1..(r - c))
      BY <1>6, <1>13
    <3> QED BY <1>6, <3>1
  <2>2. CASE k = Len(form.parts) /\ c + 2 <= Len(t) /\ t[c + 1] = "-" /\ t[c + 2] = "-"
    <3>1. outcome' = "done" /\ busy' = FALSE /\ state' = state /\ parts' = parts
      BY <1>9, <1>13, <2>1, <2>2
    <3> QED BY <1>1, <1>4, <2>2, <3>1, Accepts
  <2>3. CASE /\ k < Len(form.parts) /\ k + 1 \in 1..Len(form.parts)
             /\ form.parts[k + 1].line = "bare" /\ HeadStart(form, k + 1) = c + 2
             /\ c + 2 <= Len(t) /\ t[c + 1] = "cr" /\ t[c + 2] = "lf"
    <3>1. 0 \in {0, 1} /\ 0 # 1 /\ 0 + 1 = 1 /\ 0 + 2 = 2 /\ 0 + 1 < Len(buffer)
      BY <1>6, <1>13, <2>1
    <3>2. buffer[0 + 1] = "cr" /\ buffer[0 + 2] = "lf" /\ buffer[1] # "-" /\ buffer[0 + 1] # "sp"
      BY <2>1, <2>3, <3>1
    <3>3. /\ buffer' = Drop(buffer, 0 + 2) /\ state' = "headers"
          /\ busy' = busy /\ outcome' = outcome /\ parts' = parts
      BY <1>10, <1>13, <3>1, <3>2
    <3>4. c + 2 <= received + 2 /\ c + 2 = HeadStart(form, Len(parts) + 1) /\ buffer' = Drop(buffer, 2)
      BY <1>4, <1>6, <2>1, <2>3, <3>3
    <3>5. form.parts[Len(parts) + 1].line \in GoodLines /\ Len(parts) < Len(form.parts)
      BY <1>4, <2>3 DEF GoodLines
    <3> QED BY <1>1, <1>3, <3>3, <3>4, <3>5, LineIsRead
  <2>4. CASE /\ k < Len(form.parts) /\ k + 1 \in 1..Len(form.parts)
             /\ form.parts[k + 1].line = "padded" /\ HeadStart(form, k + 1) = c + 3
             /\ c + 3 <= Len(t) /\ t[c + 1] = "sp" /\ t[c + 2] = "cr" /\ t[c + 3] = "lf"
    <3>1. 1 \in {0, 1} /\ 1 + 1 = 2 /\ 1 + 2 = 3
      OBVIOUS
    <3>2. buffer[1] = "sp" /\ buffer[1] # "-" /\ buffer[1 + 1] = "cr" /\ buffer[1 + 1] # "sp"
      BY <2>1, <2>4, <3>1
    <3>3. CASE 1 + 1 >= Len(buffer)
      <4>1. Wait
        BY <1>10, <1>13, <3>1, <3>2, <3>3
      <4>2. r < Len(t)
        BY <1>5, <1>6, <2>4, <3>3
      <4> QED BY <1>8, <4>1, <4>2
    <3>4. CASE 1 + 1 < Len(buffer)
      <4>1. r - c >= 3 /\ buffer[1 + 2] = "lf"
        BY <1>6, <2>1, <2>4, <3>1, <3>4
      <4>2. /\ buffer' = Drop(buffer, 1 + 2) /\ state' = "headers"
            /\ busy' = busy /\ outcome' = outcome /\ parts' = parts
        BY <1>10, <1>13, <3>1, <3>2, <3>4, <4>1
      <4>3. c + 3 <= received + 2 /\ c + 3 = HeadStart(form, Len(parts) + 1) /\ buffer' = Drop(buffer, 3)
        BY <1>4, <1>6, <2>4, <4>1, <4>2
      <4>4. form.parts[Len(parts) + 1].line \in GoodLines /\ Len(parts) < Len(form.parts)
        BY <1>4, <2>4 DEF GoodLines
      <4> QED BY <1>1, <1>3, <4>2, <4>3, <4>4, LineIsRead
    <3> QED BY <1>6, <3>3, <3>4
  <2>5. CASE /\ k < Len(form.parts) /\ k + 1 \in 1..Len(form.parts)
             /\ form.parts[k + 1].line = "broken"
             /\ c + 4 <= Len(t) /\ t[c + 1] = "sp" /\ t[c + 2] = "x"
    <3>1. 1 \in {0, 1} /\ 1 + 1 = 2
      OBVIOUS
    <3>2. buffer[1] = "sp" /\ buffer[1] # "-" /\ buffer[1 + 1] = "x" /\ buffer[1 + 1] # "sp"
      BY <2>1, <2>5, <3>1
    <3>3. CASE 1 + 1 >= Len(buffer)
      <4>1. Wait
        BY <1>10, <1>13, <3>1, <3>2, <3>3
      <4>2. r < Len(t)
        BY <1>5, <1>6, <2>5, <3>3
      <4> QED BY <1>8, <4>1, <4>2
    <3>4. CASE 1 + 1 < Len(buffer)
      <4>1. Throw
        BY <1>10, <1>13, <3>1, <3>2, <3>4
      <4>2. ~IsGood(form, k + 1)
        BY <2>5 DEF IsGood, GoodLines
      <4> QED BY <1>1, <2>5, <4>1, <4>2, Refuses
    <3> QED BY <1>6, <3>3, <3>4
  <2> QED BY <1>11, <2>2, <2>3, <2>4, <2>5 DEF IsCloseOrLine
<1> QED BY <1>6, <1>12, <1>13

\* The end of a block of headers is found once all of the block has come.
LEMMA SearchHeaders ==
  ASSUME NEW t \in Seq(Symbols), NEW c \in Nat, NEW r \in Nat, c <= r, r <= Len(t),
         NEW h, NEW header, NEW k \in Nat \ {0}, IsBlock(h, header, k), Reads(t, c, h),
         NEW b, IsSlice(b, t, c, r)
  PROVE  /\ c + k + 4 <= Len(t) /\ t[c + 1] = header /\ header # "cr"
         /\ \/ IndexOf(HeadersEnd, b) = -1 /\ r < c + k + 4
            \/ IndexOf(HeadersEnd, b) = k /\ c + k + 4 <= r
<1>1. /\ h \in Seq(Symbols) /\ Len(h) = k + 4 /\ h[1] = header
      /\ Reads(h, k, HeadersEnd) /\ \A j \in 1..k : h[j] # "cr"
  BY DEF IsBlock
<1> DEFINE d == HeadersEnd
<1>2. PICK w \in Nat : w = 4 /\ w = Len(d) /\ d[1] = "cr"
  BY HeadersEndFacts
<1>9. d \in Seq(Symbols) /\ w = Len(d)
  BY <1>2, HeadersEndFacts
<1> HIDE DEF d
<1>3. c + (k + 4) <= Len(t) /\ \A i \in 1..(k + 4) : t[c + i] = h[i]
  BY <1>1 DEF Reads
<1>4. c + k + 4 <= Len(t) /\ t[c + 1] = header /\ header # "cr"
  <2>1. 1 \in 1..(k + 4) /\ 1 \in 1..k
    OBVIOUS
  <2> QED BY <1>1, <1>3, <2>1
<1>5. Reads(t, c + k, d)
  BY <1>1, <1>9, ReadsWithin DEF d
<1>6. \A i \in Nat : c <= i /\ i < c + k => ~Reads(t, i, d)
  <2>1. SUFFICES ASSUME NEW i \in Nat, c <= i, i < c + k, Reads(t, i, d) PROVE FALSE
    OBVIOUS
  <2>2. t[i + 1] = "cr"
    <3>1. 1 \in 1..w
      BY <1>2
    <3> QED BY <1>2, <2>1, <3>1 DEF Reads
  <2>3. PICK j \in 1..k : i + 1 = c + j
    <3>1. i + 1 - c \in 1..k /\ i + 1 = c + (i + 1 - c)
      BY <2>1
    <3> QED BY <3>1
  <2>4. j \in 1..(k + 4)
    OBVIOUS
  <2> QED BY <1>1, <1>3, <2>2, <2>3, <2>4
<1>7. c + k \in Nat /\ c <= c + k /\ c + k - c = k
  OBVIOUS
<1>8. \/ IndexOf(d, b) = -1 /\ c + k + w > r
      \/ IndexOf(d, b) = c + k - c /\ c + k + w <= r
  BY <1>5, <1>6, <1>7, <1>9, SearchFor
<1> QED BY <1>2, <1>4, <1>7, <1>8 DEF d

\* What process does at the headers of a part.
LEMMA ReadHeadersCases ==
  ASSUME ReadHeaders, buffer \in Seq(Symbols)
  PROVE  LET headerEnd == IndexOf(HeadersEnd, buffer)
             isMissing == Len(buffer) >= 2 /\ buffer[1] = "cr" /\ buffer[2] = "lf" IN
         /\ busy /\ state = "headers" /\ form' = form /\ received' = received /\ source' = source
         /\ isMissing => Throw
         /\ ~isMissing /\ headerEnd = -1 /\ Len(buffer) > MaxPartHeader => Throw
         /\ ~isMissing /\ headerEnd = -1 /\ ~(Len(buffer) > MaxPartHeader) => Wait
         /\ ~isMissing /\ headerEnd # -1 /\ buffer[1] \notin GoodHeaders => Throw
         /\ ~isMissing /\ headerEnd # -1 /\ buffer[1] \in GoodHeaders =>
              /\ parts' = Append(parts, [header |-> buffer[1], body |-> <<>>, ended |-> FALSE])
              /\ buffer' = Drop(buffer, headerEnd + 4) /\ state' = "body"
              /\ busy' = busy /\ outcome' = outcome
<1> DEFINE headerEnd == IndexOf(HeadersEnd, buffer)
           isMissing == Len(buffer) >= 2 /\ buffer[1] = "cr" /\ buffer[2] = "lf"
<1>1. IsPrefix(Crlf, buffer) <=> isMissing
  <2>1. <<"cr", "lf">> \in Seq(Symbols) /\ "cr" \in Symbols /\ "lf" \in Symbols /\ 0 \in Nat /\ 0 + 1 = 1 /\ 0 + 2 = 2
    BY LiteralBytes
  <2>2. IsPrefix(Crlf, buffer) <=> Reads(buffer, 0, <<"cr", "lf">>)
    BY <2>1, PrefixIsRead DEF Crlf
  <2>3. Reads(buffer, 0, <<"cr", "lf">>) <=> 0 + 2 <= Len(buffer) /\ buffer[0 + 1] = "cr" /\ buffer[0 + 2] = "lf"
    BY <2>1, PairIsRead
  <2> QED BY <2>1, <2>2, <2>3
<1> HIDE DEF isMissing
<1>2. headerEnd = IndexOf(Crlf \o Crlf, buffer)
  BY DEF HeadersEnd
<1> HIDE DEF headerEnd
<1>3. busy /\ state = "headers" /\ form' = form /\ received' = received /\ source' = source
  BY DEF ReadHeaders
<1>4. IF isMissing THEN Throw
      ELSE IF headerEnd = -1 THEN (IF Len(buffer) > MaxPartHeader THEN Throw ELSE Wait)
      ELSE IF buffer[1] \notin GoodHeaders THEN Throw
      ELSE /\ parts' = Append(parts, [header |-> buffer[1], body |-> <<>>, ended |-> FALSE])
           /\ buffer' = Drop(buffer, headerEnd + 4)
           /\ state' = "body"
           /\ UNCHANGED <<busy, outcome>>
  BY <1>1, <1>2 DEF ReadHeaders
<1>5. /\ isMissing => Throw
      /\ ~isMissing /\ headerEnd = -1 /\ Len(buffer) > MaxPartHeader => Throw
      /\ ~isMissing /\ headerEnd = -1 /\ ~(Len(buffer) > MaxPartHeader) => Wait
      /\ ~isMissing /\ headerEnd # -1 /\ buffer[1] \notin GoodHeaders => Throw
      /\ ~isMissing /\ headerEnd # -1 /\ buffer[1] \in GoodHeaders =>
           /\ parts' = Append(parts, [header |-> buffer[1], body |-> <<>>, ended |-> FALSE])
           /\ buffer' = Drop(buffer, headerEnd + 4) /\ state' = "body"
           /\ busy' = busy /\ outcome' = outcome
  BY <1>4
<1> QED BY <1>3, <1>5 DEF headerEnd, isMissing

\* The headers of the next part are read, and its body begins.
LEMMA HeadersAreRead ==
  ASSUME MultipartInv, busy, NEW c \in Nat, NEW m \in Nat, c + m <= received + 2,
         IsSlice(buffer, Total(form), c, received + 2), state = "headers",
         NEW k \in Nat, k = Len(parts), k + 1 \in 1..Len(form.parts), IsGood(form, k + 1),
         c + m = BodyStart(form, k + 1),
         form' = form, received' = received, source' = source, outcome' = outcome, busy' = busy,
         parts' = Append(parts, [header |-> form.parts[k + 1].header, body |-> <<>>, ended |-> FALSE]),
         buffer' = Drop(buffer, m), state' = "body"
  PROVE  MultipartInv'
<1>1. MultipartTypes /\ PartsAreRight /\ form \in Forms
  BY AtWork, Basics
<1>2. IsSlice(buffer', Total(form), c + m, received + 2)
  BY <1>1, Dropped
<1>3. PICK body \in Seq(Symbols) : body = form.parts[k + 1].body
  BY <1>1, FormType
<1>4. PICK no \in BOOLEAN, header \in GoodHeaders : no = FALSE /\ header = form.parts[k + 1].header
  BY DEF IsGood
<1> DEFINE p == [header |-> header, body |-> <<>>, ended |-> no]
<1>5. p \in APart /\ p.header = header /\ p.body = <<>> /\ p.ended = no
  BY <1>4 DEF APart
<1>6. parts' = Append(parts, p)
  BY <1>4
<1> HIDE DEF p
<1>7. parts \in Seq(APart) /\ Len(parts) = k
  BY <1>1 DEF PartsAreRight
<1>8. parts' \in Seq(APart) /\ Len(parts') = k + 1 /\ parts'[k + 1] = p /\ \A i \in 1..k : parts'[i] = parts[i]
  BY <1>5, <1>6, <1>7, AppendProperties
<1>9. SubSeq(body, 1, 0) = <<>> /\ IsPrefix(<<>>, body)
  <2>1. 0 \in Nat /\ 0 <= Len(body)
    OBVIOUS
  <2>2. IsPrefix(SubSeq(body, 1, 0), body)
    BY <2>1, BeginningIsPrefix
  <2>3. SubSeq(body, 1, 0) = <<>>
    BY SubSeqEmpty
  <2> QED BY <2>2, <2>3
<1>10. IsRight(p, form, k + 1) /\ p.ended = FALSE
  BY <1>3, <1>4, <1>5, <1>9 DEF IsRight
<1>11. ASSUME NEW i \in 1..(k + 1)
       PROVE  IsRight(parts'[i], form, i) /\ (i < k + 1 \/ state' # "body" => parts'[i].ended)
  <2>1. CASE i = k + 1
    <3>1. ~(i < k + 1)
      BY <2>1
    <3> QED BY <1>8, <1>10, <2>1, <3>1
  <2>2. CASE i # k + 1
    <3>1. i \in 1..k /\ i \in 1..Len(parts)
      BY <1>7, <2>2
    <3>2. IsRight(parts[i], form, i) /\ parts[i].ended
      BY <1>1, <3>1 DEF PartsAreRight
    <3> QED BY <1>8, <3>1, <3>2
  <2> QED BY <2>1, <2>2
<1>12. PartsAreRight'
  <2>1. Len(parts') <= Len(form'.parts)
    BY <1>8
  <2> QED BY <1>8, <1>11, <2>1 DEF PartsAreRight
<1>13. /\ BodyStart(form, k + 1) = c + m /\ c + m <= DelimiterAt(form, k + 1 + 1)
       /\ parts'[k + 1].body = SubSeq(form.parts[k + 1].body, 1, c + m - BodyStart(form, k + 1))
  <2>1. /\ DelimiterAt(form, k + 1 + 1) = BodyStart(form, k + 1) + Len(form.parts[k + 1].body)
        /\ BodyStart(form, k + 1) \in Nat
    BY <1>1, Layout
  <2>2. DelimiterAt(form, k + 1 + 1) = c + m + Len(body)
    BY <1>3, <2>1
  <2>3. c + m <= DelimiterAt(form, k + 1 + 1) /\ c + m - BodyStart(form, k + 1) = 0
    BY SMTT(30), <2>1, <2>2
  <2>4. parts'[k + 1].body = SubSeq(body, 1, 0)
    BY <1>5, <1>8, <1>9
  <2> QED BY <1>3, <2>3, <2>4
<1>14. IsAt(c + m)'
  <2>1. k + 1 > 0
    OBVIOUS
  <2> QED BY <1>2, <1>8, <1>10, <1>13, <2>1 DEF IsAt, IsSlice
<1>15. c + m \in 0..(received + 2)
  <2>1. received \in Nat
    BY <1>1, Basics
  <2> QED BY <2>1
<1> QED BY <1>1, <1>12, <1>14, <1>15, GoesOn

\* ReadHeaders keeps the invariant: the end that it finds is that of the block, and it throws
\* only at headers that are missing, malformed or too long.
LEMMA ReadHeadersStep ==
  ASSUME MultipartInv, ReadHeaders
  PROVE  MultipartInv'
<1>1. busy /\ state = "headers" /\ form' = form /\ received' = received /\ source' = source
  BY DEF ReadHeaders
<1>2. MultipartTypes /\ PartsAreRight
  BY <1>1, AtWork
<1>3. PICK c \in Nat :
        /\ IsAt(c) /\ c <= received + 2 /\ received + 2 \in Nat /\ received + 2 <= Len(Total(form))
        /\ IsSlice(buffer, Total(form), c, received + 2) /\ c \in 0..(received + 2)
        /\ buffer \in Seq(Symbols) /\ Len(buffer) = received + 2 - c
        /\ \A i \in 1..(received + 2 - c) : buffer[i] = Total(form)[c + i]
  BY <1>1, Waiting
<1>4. PICK t \in Seq(Symbols), k \in Nat : t = Total(form) /\ k = Len(parts)
  BY <1>2, Basics
<1>5. received \in Nat /\ Len(Bytes(form)) \in Nat /\ Len(t) = Len(Bytes(form)) + 2 /\ form \in Forms /\ Len(form.parts) \in Nat
  BY <1>2, <1>4, Basics
<1>6. PICK r \in Nat : /\ r = received + 2 /\ c <= r /\ r <= Len(t) /\ Len(buffer) = r - c
                       /\ \A i \in 1..(r - c) : buffer[i] = t[c + i]
  BY <1>3, <1>4, <1>5
<1>7. r < Len(t) => received < Len(Bytes(form))
  BY <1>5, <1>6
<1>8. Wait /\ r < Len(t) => MultipartInv'
  BY <1>1, <1>7, WaitStep
<1>9. k + 1 \in 1..Len(form.parts) /\ c = HeadStart(form, k + 1) /\ form.parts[k + 1].line \in GoodLines
  <2>1. k < Len(form.parts) /\ c = HeadStart(form, k + 1) /\ form.parts[k + 1].line \in GoodLines
    BY <1>1, <1>3, <1>4 DEF IsAt
  <2> QED BY <1>5, <2>1
<1>10. Throw /\ (~IsGood(form, k + 1) \/ form.parts[k + 1].header = "long") => MultipartInv'
  BY <1>1, <1>9, Refuses
<1>11. PICK header \in Headers : header = form.parts[k + 1].header
  BY <1>5, <1>9, FormType
<1>12. Reads(t, c, HeaderBytes(header)) /\ BodyStart(form, k + 1) = c + Len(HeaderBytes(header))
  BY <1>4, <1>5, <1>9, <1>11, Layout DEF BodyStart
<1> DEFINE isMissing == Len(buffer) >= 2 /\ buffer[1] = "cr" /\ buffer[2] = "lf"
           headerEnd == IndexOf(HeadersEnd, buffer)
<1>13. /\ isMissing => Throw
       /\ ~isMissing /\ headerEnd = -1 /\ Len(buffer) > MaxPartHeader => Throw
       /\ ~isMissing /\ headerEnd = -1 /\ ~(Len(buffer) > MaxPartHeader) => Wait
       /\ ~isMissing /\ headerEnd # -1 /\ buffer[1] \notin GoodHeaders => Throw
       /\ ~isMissing /\ headerEnd # -1 /\ buffer[1] \in GoodHeaders =>
            /\ parts' = Append(parts, [header |-> buffer[1], body |-> <<>>, ended |-> FALSE])
            /\ buffer' = Drop(buffer, headerEnd + 4) /\ state' = "body"
            /\ busy' = busy /\ outcome' = outcome
  BY <1>3, ReadHeadersCases
<1>14. MaxPartHeader \in Nat /\ MaxPartHeader >= 4
  BY FormAssumption
<1>15. CASE header = "missing"
  <2>1. c + 2 <= Len(t) /\ t[c + 1] = "cr" /\ t[c + 2] = "lf"
    <3>1. "cr" \in Symbols /\ "lf" \in Symbols
      BY LiteralBytes
    <3>2. Reads(t, c, <<"cr", "lf">>)
      BY <1>12, <1>15 DEF HeaderBytes, Crlf
    <3> QED BY <3>1, <3>2, PairIsRead
  <2>2. ~IsGood(form, k + 1)
    BY <1>11, <1>15 DEF IsGood, GoodHeaders
  <2>3. CASE isMissing
    BY <1>10, <1>13, <2>2, <2>3
  <2>4. CASE ~isMissing
    <3>1. Len(buffer) < 2
      <4>1. SUFFICES ASSUME Len(buffer) >= 2 PROVE FALSE
        BY <1>6
      <4>2. 1 \in 1..(r - c) /\ 2 \in 1..(r - c)
        BY <1>6, <4>1
      <4> QED BY <1>6, <2>1, <2>4, <4>1, <4>2
    <3>2. headerEnd = -1
      <4>1. \A i \in Nat : ~Reads(buffer, i, HeadersEnd)
        BY <1>3, <3>1, HeadersEndFacts DEF Reads
      <4> QED BY <1>3, <4>1, HeadersEndFacts, IndexOfFacts
    <3>3. Wait
      <4>1. ~(Len(buffer) > MaxPartHeader)
        BY <1>6, <1>14, <3>1
      <4> QED BY <1>13, <2>4, <3>2, <4>1
    <3>4. r < Len(t)
      BY <1>5, <1>6, <2>1, <3>1
    <3> QED BY <1>8, <3>3, <3>4
  <2> QED BY <2>3, <2>4
<1>16. CASE header # "missing"
  <2>1. PICK m \in Nat \ {0} : IsBlock(HeaderBytes(header), header, m) /\ (header # "long" => m = 1)
    BY <1>16, HeaderFacts
  <2>2. IsSlice(buffer, t, c, r)
    BY <1>3, <1>4, <1>6
  <2>3. /\ c + m + 4 <= Len(t) /\ t[c + 1] = header /\ header # "cr"
        /\ \/ headerEnd = -1 /\ r < c + m + 4
           \/ headerEnd = m /\ c + m + 4 <= r
    <3>1. c <= r /\ r <= Len(t)
      BY <1>6
    <3> QED BY <1>12, <2>1, <2>2, <3>1, SearchHeaders
  <2>4. BodyStart(form, k + 1) = c + m + 4
    <3>1. Len(HeaderBytes(header)) = m + 4
      BY <2>1 DEF IsBlock
    <3> QED BY <1>12, <3>1
  <2> HIDE DEF headerEnd
  <2>5. Len(buffer) >= 1 => buffer[1] = header
    <3>1. Len(buffer) >= 1 => 1 \in 1..(r - c)
      BY <1>6
    <3> QED BY <1>6, <2>3, <3>1
  <2>6. ~isMissing
    <3>1. Len(buffer) >= 2 => Len(buffer) >= 1
      BY <1>6
    <3> QED BY <2>3, <2>5, <3>1
  <2> HIDE DEF isMissing
  <2>7. CASE headerEnd = -1 /\ r < c + m + 4
    <3>1. r < Len(t)
      BY <1>5, <1>6, <2>3, <2>7
    <3>2. CASE Len(buffer) > MaxPartHeader
      <4>1. Throw
        BY <1>13, <2>6, <2>7, <3>2
      <4>2. m # 1
        BY <1>6, <1>14, <2>7, <3>2
      <4>3. header = "long"
        BY <2>1, <4>2
      <4> QED BY <1>10, <1>11, <4>1, <4>3
    <3>3. CASE ~(Len(buffer) > MaxPartHeader)
      <4>1. Wait
        BY <1>13, <2>6, <2>7, <3>3
      <4> QED BY <1>8, <3>1, <4>1
    <3> QED BY <3>2, <3>3
  <2>8. CASE headerEnd = m /\ c + m + 4 <= r
    <3>1. headerEnd # -1 /\ Len(buffer) >= 1
      BY <1>6, <2>8
    <3>2. buffer[1] = header
      BY <2>5, <3>1
    <3>3. CASE header \notin GoodHeaders
      <4>1. Throw
        BY <1>13, <2>6, <3>1, <3>2, <3>3
      <4>2. ~IsGood(form, k + 1)
        BY <1>11, <3>3 DEF IsGood
      <4> QED BY <1>10, <4>1, <4>2
    <3>4. CASE header \in GoodHeaders
      <4>1. /\ parts' = Append(parts, [header |-> header, body |-> <<>>, ended |-> FALSE])
            /\ buffer' = Drop(buffer, m + 4) /\ state' = "body"
            /\ busy' = busy /\ outcome' = outcome
        BY <1>13, <2>6, <2>8, <3>1, <3>2, <3>4
      <4>2. IsGood(form, k + 1)
        BY <1>9, <1>11, <3>4 DEF IsGood
      <4>3. PICK s \in Nat : s = m + 4 /\ c + s <= received + 2 /\ c + s = BodyStart(form, k + 1)
        <5>1. m + 4 \in Nat /\ c + (m + 4) = c + m + 4 /\ c + (m + 4) <= received + 2
          BY <1>6, <2>8
        <5> QED BY <2>4, <5>1
      <4>4. k = Len(parts) /\ buffer' = Drop(buffer, s)
        BY <1>4, <4>1, <4>3
      <4>5. parts' = Append(parts, [header |-> form.parts[k + 1].header, body |-> <<>>, ended |-> FALSE])
        BY <1>11, <4>1
      <4> QED BY <1>1, <1>3, <1>9, <4>1, <4>2, <4>3, <4>4, <4>5, HeadersAreRead
    <3> QED BY <3>3, <3>4
  <2> QED BY <2>3, <2>7, <2>8
<1> QED BY <1>15, <1>16

\* The invariant holds at first,
LEMMA MultipartStart == MultipartInit => MultipartInv
<1>1. SUFFICES ASSUME MultipartInit PROVE MultipartInv
  OBVIOUS
<1>2. /\ form \in Forms /\ received = 0 /\ source = "open" /\ buffer = Crlf /\ state = "preamble"
      /\ busy = FALSE /\ outcome = "none" /\ parts = <<>> /\ Len(parts) = 0
  BY <1>1 DEF MultipartInit
<1>3. /\ Total(form) \in Seq(Symbols) /\ Bytes(form) \in Seq(Symbols) /\ Len(Total(form)) = Len(Bytes(form)) + 2
      /\ Len(Bytes(form)) \in Nat /\ Len(form.parts) \in Nat
  <2>1. /\ Total(form) \in Seq(Symbols) /\ Bytes(form) \in Seq(Symbols) /\ Len(Total(form)) = Len(Bytes(form)) + 2
        /\ Len(form.parts) \in Nat
    BY <1>2, PiecesAreRead, FormType
  <2> QED BY <2>1
<1>4. MultipartTypes
  <2>1. received \in 0..Len(Bytes(form))
    BY <1>2, <1>3
  <2> QED BY <1>2, <2>1 DEF MultipartTypes
<1>5. PartsAreRight
  <2>1. parts \in Seq(APart) /\ \A i \in 1..Len(parts) : FALSE
    BY <1>2
  <2> QED BY <1>2, <1>3, <2>1 DEF PartsAreRight
<1>6. OutcomeIsRight
  BY <1>2 DEF OutcomeIsRight
<1>7. 1 \in 1..(Len(form.parts) + 1) /\ DelimiterAt(form, 1) \in Nat /\ DelimiterAt(form, 1) + 5 <= Len(Total(form))
  <2>1. 1 \in 1..(Len(form.parts) + 1)
    BY <1>3
  <2>2. DelimiterAt(form, 1) \in Nat /\ Reads(Total(form), DelimiterAt(form, 1), delimiter)
    BY <1>2, <2>1, Layout
  <2> QED BY <2>1, <2>2, DelimiterFacts DEF Reads
<1>8. WaitsForMore
  <2>1. 0 < Len(Bytes(form))
    BY <1>3, <1>7
  <2> QED BY <1>2, <2>1 DEF WaitsForMore
<1>9. IsSlice(buffer, Total(form), 0, 2)
  <2>1. PICK c \in Seq(Symbols), w \in Nat : c = Crlf /\ w = 2 /\ Len(c) = w
    BY DelimiterFacts
  <2>2. PICK b \in Seq(Symbols) : b = Bytes(form)
    BY <1>3
  <2>3. Total(form) = c \o b
    BY <2>1, <2>2 DEF Total
  <2>4. PICK t : t = c \o b
    OBVIOUS
  <2>5. t \in Seq(Symbols) /\ Len(t) = Len(c) + Len(b)
    BY <2>4, ConcatProperties
  <2>6. Reads(t, 0, c)
    <3>1. Reads(t, 0, c \o b)
      BY <2>4, <2>5, ReadsAll
    <3> QED BY <2>5, <3>1, ReadsConcat
  <2>7. SubSeq(t, 0 + 1, 0 + Len(c)) = c
    <3>1. 0 \in Nat /\ 0 + Len(c) <= Len(t)
      BY <2>5
    <3> QED BY <2>5, <2>6, <3>1, ReadsSubSeq
  <2>8. 0 + Len(c) = 2
    BY <2>1
  <2> QED BY <1>2, <2>1, <2>3, <2>4, <2>7, <2>8 DEF IsSlice
<1>10. IsAt(0)
  <2>1. received + 2 = 2 /\ 0 <= DelimiterAt(form, 1)
    BY <1>2, <1>7
  <2> QED BY <1>2, <1>9, <2>1 DEF IsAt
<1>11. 0 \in 0..(received + 2)
  BY <1>2
<1> QED BY <1>4, <1>5, <1>6, <1>8, <1>10, <1>11 DEF MultipartInv

\* and each step keeps it.
LEMMA MultipartStep ==
  ASSUME MultipartInv, [MultipartNext]_multipartVars
  PROVE  MultipartInv'
<1>1. ASSUME NEW n \in 1..MaxChunk \cup {Len(Bytes(form)) - received}, n > 0, ChunkArrives(n)
      PROVE  MultipartInv'
  <2>1. Len(Bytes(form)) \in Nat /\ received \in Nat /\ received <= Len(Bytes(form))
    BY Basics DEF MultipartInv
  <2>2. MaxChunk \in Nat
    BY FormAssumption
  <2>3. n \in Nat \ {0}
    BY <1>1, <2>1, <2>2
  <2> QED BY <1>1, <2>3, ChunkStep
<1>2. CASE UNCHANGED multipartVars
  BY <1>2 DEF multipartVars, MultipartInv, MultipartTypes, PartsAreRight, OutcomeIsRight, WaitsForMore, IsAt
<1> QED BY <1>1, <1>2, SourceEndsStep, KeepUnsettledStep, DelimitStep, EndDelimiterStep, ReadHeadersStep DEF MultipartNext

\* Wherever the stream is cut, while a form is read, the parser is at a byte that its state
\* fits, it keeps exactly the bytes that came after that one, the parts are those of the
\* form so far, and it does not stop at work that it could do (parseMultipart, process).
THEOREM MultipartInvariant == MultipartInit /\ [][MultipartNext]_multipartVars => []MultipartInv
<1>1. MultipartInv /\ [MultipartNext]_multipartVars => MultipartInv'
  BY MultipartStep
<1> QED BY <1>1, MultipartStart, PTL

IsBad(p) == p.line \notin GoodLines \/ p.header \notin GoodHeaders

\* The number of parts before the first that is not well formed.
LEMMA GoodFacts ==
  ASSUME NEW f \in Forms, NEW w, w = SelectInSeq(f.parts, LAMBDA p : p.line \notin GoodLines \/ p.header \notin GoodHeaders),
         NEW good, good = IF w = 0 THEN Len(f.parts) ELSE w - 1
  PROVE  /\ good \in 0..Len(f.parts) /\ \A i \in 1..good : IsGood(f, i)
         /\ good < Len(f.parts) => ~IsGood(f, good + 1)
<1> DEFINE n == Len(f.parts)
           I == {i \in 1..n : f.parts[i].line \notin GoodLines \/ f.parts[i].header \notin GoodHeaders}
<1>1. n \in Nat
  BY FormType
<1>2. w = IF I # {} THEN CHOOSE x \in I : \A y \in I : x <= y ELSE 0
  BY DEF SelectInSeq, Min
<1>3. \A i \in 1..n : i \in I <=> ~IsGood(f, i)
  BY DEF IsGood
<1>4. I \in SUBSET Nat /\ I \subseteq 1..n
  OBVIOUS
<1>5. good = IF w = 0 THEN n ELSE w - 1
  OBVIOUS
<1> HIDE DEF I, n
<1>6. CASE I = {}
  <2>1. good = n
    BY <1>2, <1>5, <1>6
  <2>2. good \in 0..n /\ ~(good < n)
    BY <1>1, <2>1
  <2>3. \A i \in 1..n : IsGood(f, i)
    BY <1>3, <1>6
  <2> QED BY <2>1, <2>2, <2>3 DEF n
<1>7. CASE I # {}
  <2>1. w \in I /\ \A y \in I : w <= y
    <3>1. \E x \in I : \A y \in I : x <= y
      BY <1>4, <1>7, LeastElement
    <3> QED BY <1>2, <1>7, <3>1
  <2>2. w \in 1..n /\ good = w - 1
    BY <1>4, <1>5, <2>1
  <2>3. good \in 0..n /\ good + 1 = w
    BY <1>1, <2>2
  <2>4. ~IsGood(f, good + 1)
    BY <1>3, <2>1, <2>2, <2>3
  <2>5. \A i \in 1..good : IsGood(f, i)
    <3>1. SUFFICES ASSUME NEW i \in 1..good PROVE IsGood(f, i)
      OBVIOUS
    <3>2. i \in 1..n /\ ~(w <= i)
      BY <1>1, <2>2
    <3> QED BY <1>3, <2>1, <3>2
  <2> QED BY <2>3, <2>4, <2>5 DEF n
<1> QED BY <1>6, <1>7

\* FormIsReadWhole is a consequence of the invariant.
LEMMA ReadWhole == MultipartInv => FormIsReadWhole
<1>1. SUFFICES ASSUME MultipartInv PROVE FormIsReadWhole
  OBVIOUS
<1>2. MultipartTypes /\ PartsAreRight /\ OutcomeIsRight /\ WaitsForMore
  BY <1>1 DEF MultipartInv
<1>3. /\ form \in Forms /\ Len(parts) \in Nat /\ Len(form.parts) \in Nat /\ Len(parts) <= Len(form.parts)
  BY <1>2, Basics
<1> DEFINE wellFormed == SelectInSeq(form.parts, LAMBDA p : p.line \notin GoodLines \/ p.header \notin GoodHeaders)
           good == IF wellFormed = 0 THEN Len(form.parts) ELSE wellFormed - 1
<1>4. /\ good \in 0..Len(form.parts) /\ \A i \in 1..good : IsGood(form, i)
      /\ good < Len(form.parts) => ~IsGood(form, good + 1)
  BY <1>3, GoodFacts
<1> HIDE DEF wellFormed, good
<1>5. \A i \in 1..Len(parts) : IsRight(parts[i], form, i) /\ (i < Len(parts) \/ state # "body" => parts[i].ended)
  BY <1>2 DEF PartsAreRight
<1>6. Len(parts) <= good
  <2>1. SUFFICES ASSUME good < Len(parts) PROVE FALSE
    BY <1>3, <1>4
  <2>2. good < Len(form.parts) /\ good + 1 \in 1..Len(parts)
    BY <1>3, <1>4, <2>1
  <2> QED BY <1>4, <1>5, <2>2 DEF IsRight
<1>7. \A i \in 1..Len(parts) :
        /\ parts[i].header = form.parts[i].header
        /\ IsPrefix(parts[i].body, form.parts[i].body)
        /\ parts[i].ended => parts[i].body = form.parts[i].body
        /\ i < Len(parts) => parts[i].ended
  BY <1>5 DEF IsRight
<1>8. outcome = "done" => good = Len(form.parts) /\ Len(parts) = good /\ \A i \in 1..good : parts[i].ended
  <2>1. SUFFICES ASSUME outcome = "done"
                 PROVE  good = Len(form.parts) /\ Len(parts) = good /\ \A i \in 1..good : parts[i].ended
    OBVIOUS
  <2>2. Len(parts) = Len(form.parts) /\ state # "body"
    BY <1>2, <2>1 DEF OutcomeIsRight
  <2>3. good = Len(parts)
    BY <1>3, <1>4, <1>6, <2>2
  <2> QED BY <1>5, <2>2, <2>3
<1>9. outcome = "thrown" =>
        source = "ended" \/ good < Len(form.parts) \/ \E i \in 1..good : form.parts[i].header = "long"
  <2>1. SUFFICES ASSUME outcome = "thrown", source # "ended", ~(good < Len(form.parts))
                 PROVE  \E i \in 1..good : form.parts[i].header = "long"
    OBVIOUS
  <2>2. good = Len(form.parts)
    BY <1>3, <1>4, <2>1
  <2>3. \E i \in 1..Len(form.parts) : ~IsGood(form, i) \/ form.parts[i].header = "long"
    BY <1>2, <2>1 DEF OutcomeIsRight
  <2> QED BY <1>4, <2>2, <2>3
<1>10. source = "ended" /\ outcome = "thrown" /\ ~busy => received < Len(Bytes(form)) \/ good < Len(form.parts)
  BY <1>2 DEF WaitsForMore
<1> QED BY <1>6, <1>7, <1>8, <1>9, <1>10 DEF FormIsReadWhole, good, wellFormed

\* FormIsReadWhole holds for every set of forms, of any number of parts and any bodies, every
\* limit of headers and every size of chunks: what the writers got is a beginning of the
\* parts, whole where one has ended, and a form is accepted if and only if all of it came
\* and each part is well formed (parseMultipart, process).
THEOREM FormsAreReadWhole == MultipartInit /\ [][MultipartNext]_multipartVars => []FormIsReadWhole
BY MultipartInvariant, ReadWhole, PTL

-----------------------------------------------------------------------------
(* The order of plugins, and how their interceptors nest.                  *)

\* What the sequences together hold is what FlattenSeq holds.
LEMMA FlattenRange ==
  ASSUME NEW S, NEW s \in Seq(Seq(S))
  PROVE  /\ FlattenSeq(s) \in Seq(S)
         /\ \A x : x \in Range(FlattenSeq(s)) <=> \E i \in 1..Len(s) : x \in Range(s[i])
<1>1. CASE s = <<>>
  <2>1. FlattenSeq(s) = <<>> /\ Len(s) = 0
    BY <1>1 DEF FlattenSeq
  <2>2. Range(<<>>) = {}
    BY DEF Range
  <2> QED BY <2>1, <2>2
<1>2. CASE s # <<>>
  <2>1. PICK g : FlattenSeq(s) = g[Len(s)] /\ ArePrefixes(g, s, Len(s))
    BY <1>2, FlattenSeqFacts
  <2>2. PICK n \in Nat : n = Len(s) /\ n # 0
    BY <1>2, EmptySeq
  <2>3. \A i \in 1..n : s[i] \in Seq(S)
    BY <2>2
  <2> DEFINE Holds(m) == \A x : x \in Range(g[m]) <=> \E i \in 1..m : x \in Range(s[i])
             T == {m \in 1..n : ~(g[m] \in Seq(S) /\ Holds(m))}
  <2>4. T = {}
    <3>1. SUFFICES ASSUME T # {} PROVE FALSE
      OBVIOUS
    <3>2. T \in SUBSET Nat
      OBVIOUS
    <3>3. PICK k \in T : \A j \in T : k <= j
      BY <3>1, <3>2, LeastElement
    <3>4. k \in 1..n /\ ~(g[k] \in Seq(S) /\ Holds(k))
      OBVIOUS
    <3>5. CASE k = 1
      <4>1. g[1] = s[1]
        BY <2>1, <2>2 DEF ArePrefixes
      <4>2. 1..1 = {1}
        OBVIOUS
      <4> QED BY <2>3, <3>4, <3>5, <4>1, <4>2
    <3>6. CASE k # 1
      <4>1. k - 1 \in 1..n /\ k \in 2..n /\ ~(k <= k - 1) /\ k \in 1..n /\ 1..k = (1..(k - 1)) \cup {k}
        BY <3>4, <3>6
      <4>2. g[k - 1] \in Seq(S) /\ Holds(k - 1)
        BY <3>3, <4>1
      <4>3. g[k] = g[k - 1] \o s[k] /\ s[k] \in Seq(S)
        BY <2>1, <2>2, <2>3, <4>1 DEF ArePrefixes
      <4>4. g[k] \in Seq(S) /\ Range(g[k]) = Range(g[k - 1]) \cup Range(s[k])
        BY <4>2, <4>3, ConcatProperties, RangeConcatenation
      <4>5. Holds(k)
        <5> SUFFICES ASSUME NEW x PROVE x \in Range(g[k]) <=> \E i \in 1..k : x \in Range(s[i])
          OBVIOUS
        <5>1. x \in Range(g[k]) <=> x \in Range(g[k - 1]) \/ x \in Range(s[k])
          BY <4>4
        <5>2. x \in Range(g[k - 1]) <=> \E i \in 1..(k - 1) : x \in Range(s[i])
          BY <4>2
        <5> QED BY <4>1, <5>1, <5>2
      <4> QED BY <3>4, <4>4, <4>5
    <3> QED BY <3>5, <3>6
  <2>5. n \in 1..n
    BY <2>2
  <2>6. g[n] \in Seq(S) /\ Holds(n)
    BY <2>4, <2>5
  <2> QED BY <2>1, <2>2, <2>6
<1> QED BY <1>1, <1>2

LEMMA SmallRanges ==
  /\ Range(<<>>) = {}
  /\ \A x : Range(<<x>>) = {x}
  /\ \A x, y : Range(<<x, y>>) = {x, y}
  /\ \A x, y, z : Range(<<x, y, z>>) = {x, y, z}
BY DEF Range

\* p comes after q; plugins are known by their names.
Needs(p, q) == p.name \in Range(q.before) \/ q.name \in Range(p.after)
Names ==
  {"batch", "batch-response-compression", "cors", "csrf", "dedupe", "hibernation",
   "method-override", "otel", "pino", "ratelimit", "request-compression",
   "request-limit", "response-compression", "response-headers", "response-validation",
   "retry", "smart-coercion", "static-file", "timeout", "tmp-file"}
APlugin == [name : Names, before : Seq(Names), after : Seq(Names), place : {"front", "back"}]

LEMMA SingletonSeq == ASSUME NEW S, NEW x \in S PROVE <<x>> \in Seq(S) /\ Range(<<x>>) = {x}
BY SmallRanges

\* The indices of a name are those of the plugins with that name.
LEMMA IndicesAre ==
  ASSUME NEW ps \in Seq(APlugin), NEW name
  PROVE  /\ Indices(ps, name) \in Seq(1..Len(ps))
         /\ \A i : i \in Range(Indices(ps, name)) <=> i \in 1..Len(ps) /\ ps[i].name = name
<1> DEFINE n == Len(ps)
           s == [i \in 1..n |-> IF ps[i].name = name THEN <<i>> ELSE <<>>]
<1>1. n \in Nat /\ n = Len(ps)
  OBVIOUS
<1> HIDE DEF n
<1>2. s \in Seq(Seq(1..n)) /\ Len(s) = n
  <2>1. \A i \in 1..n : s[i] \in Seq(1..n)
    BY SingletonSeq, EmptySeq
  <2>2. s = [i \in 1..n |-> s[i]]
    OBVIOUS
  <2> HIDE DEF s
  <2>3. s \in [1..n -> Seq(1..n)]
    BY <2>1, <2>2
  <2> QED BY <1>1, <2>3
<1>3. \A i \in 1..n : Range(s[i]) = IF ps[i].name = name THEN {i} ELSE {}
  BY <1>1, SmallRanges
<1>4. Indices(ps, name) = FlattenSeq(s)
  BY DEF Indices, n
<1> HIDE DEF s
<1>5. /\ FlattenSeq(s) \in Seq(1..n)
      /\ \A x : x \in Range(FlattenSeq(s)) <=> \E i \in 1..n : x \in Range(s[i])
  BY <1>2, FlattenRange
<1>6. \A i : (\E k \in 1..n : i \in Range(s[k])) <=> i \in 1..n /\ ps[i].name = name
  BY <1>3
<1> QED BY <1>1, <1>4, <1>5, <1>6, Zenon

\* The dependencies of a plugin are the others that it comes after.
LEMMA DependenciesAre ==
  ASSUME NEW ps \in Seq(APlugin), NEW j \in 1..Len(ps)
  PROVE  /\ Dependencies(ps, j) \in Seq(1..Len(ps))
         /\ \A i : i \in Range(Dependencies(ps, j)) <=> i \in 1..Len(ps) /\ Needs(ps[j], ps[i])
<1> DEFINE n == Len(ps)
           m == Len(ps[j].after)
           a == [k \in 1..m |-> Indices(ps, ps[j].after[k])]
           s == [i \in 1..n |-> ForBefore(ps, i, j) \o (IF i = j THEN ForAfter(ps, j) ELSE <<>>)]
<1>1. n \in Nat /\ m \in Nat /\ \A i \in 1..n : ps[i] \in APlugin
  <2>1. ps[j] \in APlugin
    OBVIOUS
  <2>2. ps[j].after \in Seq(Names)
    BY <2>1 DEF APlugin
  <2>3. m \in Nat
    BY <2>2, LenProperties
  <2> QED BY <2>3
<1>2. Range(ps[j].after) = {ps[j].after[k] : k \in 1..m}
  <2>1. ps[j] \in APlugin
    OBVIOUS
  <2>2. ps[j].after \in Seq(Names)
    BY <2>1 DEF APlugin
  <2> QED BY <2>2, RangeEquality
<1> HIDE DEF n, m
<1>3. a \in Seq(Seq(1..n)) /\ Len(a) = m
  BY <1>1, IndicesAre DEF n
<1>4. \A k \in 1..m : \A i : i \in Range(a[k]) <=> i \in 1..n /\ ps[i].name = ps[j].after[k]
  BY IndicesAre DEF n
<1>5. ForAfter(ps, j) = FlattenSeq(a)
  BY DEF ForAfter, m
<1> HIDE DEF a
<1>6. /\ ForAfter(ps, j) \in Seq(1..n)
      /\ \A i : i \in Range(ForAfter(ps, j)) <=> i \in 1..n /\ ps[i].name \in Range(ps[j].after)
  <2>1. /\ FlattenSeq(a) \in Seq(1..n)
        /\ \A x : x \in Range(FlattenSeq(a)) <=> \E k \in 1..m : x \in Range(a[k])
    BY <1>3, FlattenRange
  <2> QED BY <1>2, <1>4, <1>5, <2>1
<1>7. \A i \in 1..n : /\ ForBefore(ps, i, j) \in Seq(1..n)
                      /\ Range(ForBefore(ps, i, j)) = IF ps[j].name \in Range(ps[i].before) THEN {i} ELSE {}
  BY SingletonSeq, SmallRanges, EmptySeq DEF ForBefore
<1>8. <<>> \in Seq(1..n) /\ Range(<<>>) = {}
  BY SmallRanges
<1>9. \A i \in 1..n :
        /\ s[i] \in Seq(1..n)
        /\ Range(s[i]) = Range(ForBefore(ps, i, j)) \cup (IF i = j THEN Range(ForAfter(ps, j)) ELSE {})
  <2> SUFFICES ASSUME NEW i \in 1..n
               PROVE  /\ s[i] \in Seq(1..n)
                      /\ Range(s[i]) = Range(ForBefore(ps, i, j)) \cup (IF i = j THEN Range(ForAfter(ps, j)) ELSE {})
    OBVIOUS
  <2> DEFINE t == IF i = j THEN ForAfter(ps, j) ELSE <<>>
  <2>1. t \in Seq(1..n) /\ Range(t) = IF i = j THEN Range(ForAfter(ps, j)) ELSE {}
    BY <1>6, <1>8
  <2>2. s[i] = ForBefore(ps, i, j) \o t
    OBVIOUS
  <2> HIDE DEF s, t
  <2>3. /\ ForBefore(ps, i, j) \o t \in Seq(1..n)
        /\ Range(ForBefore(ps, i, j) \o t) = Range(ForBefore(ps, i, j)) \cup Range(t)
    BY <1>7, <2>1, ConcatProperties, RangeConcatenation
  <2> QED BY <2>1, <2>2, <2>3
<1>10. Dependencies(ps, j) = FlattenSeq(s)
  BY DEF Dependencies, n
<1>11. Len(s) = n /\ s \in Seq(Seq(1..n))
  <2>1. s = [i \in 1..n |-> s[i]]
    OBVIOUS
  <2> HIDE DEF s
  <2>2. s \in [1..n -> Seq(1..n)]
    BY <1>9, <2>1
  <2> QED BY <1>1, <2>2
<1> HIDE DEF s
<1>12. /\ FlattenSeq(s) \in Seq(1..n)
       /\ \A x : x \in Range(FlattenSeq(s)) <=> \E i \in 1..n : x \in Range(s[i])
  BY <1>11, FlattenRange
<1>13. ASSUME NEW x
       PROVE  (\E i \in 1..n : x \in Range(s[i])) <=> x \in 1..n /\ Needs(ps[j], ps[x])
  <2>1. j \in 1..n
    BY DEF n
  <2>2. ASSUME NEW i \in 1..n, x \in Range(s[i]) PROVE x \in 1..n /\ Needs(ps[j], ps[x])
    BY <1>6, <1>7, <1>9, <2>2 DEF Needs
  <2>3. ASSUME x \in 1..n, ps[j].name \in Range(ps[x].before) PROVE x \in Range(s[x])
    BY <1>7, <1>9, <2>3
  <2>4. ASSUME x \in 1..n, ps[x].name \in Range(ps[j].after) PROVE x \in Range(s[j])
    BY <1>6, <1>9, <2>1, <2>4
  <2> QED BY <2>1, <2>2, <2>3, <2>4 DEF Needs
<1> QED BY <1>10, <1>12, <1>13 DEF n

\* Which name comes after which, by the before of the second or the after of the first.
ByBeforeOfHandlers ==
  {<<"batch", "hibernation">>, <<"batch", "method-override">>, <<"batch", "pino">>,
   <<"batch", "response-headers">>, <<"hibernation", "pino">>, <<"otel", "pino">>,
   <<"request-compression", "request-limit">>, <<"request-compression", "tmp-file">>,
   <<"request-limit", "tmp-file">>}
ByAfterOfHandlers ==
  {<<"batch", "otel">>, <<"batch-response-compression", "batch">>, <<"cors", "batch">>,
   <<"cors", "otel">>, <<"csrf", "batch">>, <<"request-compression", "batch">>,
   <<"request-limit", "batch">>, <<"response-compression", "batch">>,
   <<"response-compression", "response-headers">>, <<"static-file", "otel">>,
   <<"tmp-file", "batch">>}
ByBeforeOfLinks == {<<"batch", "dedupe">>}
ByAfterOfLinks ==
  {<<"request-compression", "batch">>, <<"response-compression", "batch">>,
   <<"smart-coercion", "response-validation">>, <<"timeout", "retry">>}
BackOfHandlers == {"static-file", "ratelimit"}
BackOfLinks ==
  {"dedupe", "batch", "request-compression", "response-compression", "response-validation",
   "smart-coercion"}
Handlers == PluginsOfHandlers \cup {OtelHandler}

\* The lists of a plugin are those of its name.
IsAs(p, before, after, back) ==
  /\ p \in APlugin
  /\ p.place = IF p.name \in back THEN "back" ELSE "front"
  /\ \A x : x \in Range(p.before) <=> <<x, p.name>> \in before
  /\ \A x : x \in Range(p.after) <=> <<p.name, x>> \in after

LEMMA TupleSeqs ==
  ASSUME NEW S
  PROVE  /\ <<>> \in Seq(S) /\ \A x \in S : <<x>> \in Seq(S)
         /\ \A x, y \in S : <<x, y>> \in Seq(S)
         /\ \A x, y, z \in S : <<x, y, z>> \in Seq(S)
<1>1. \A x \in S : <<x>> \in Seq(S)
  OBVIOUS
<1>2. \A x, y \in S : <<x, y>> \in Seq(S)
  OBVIOUS
<1>3. \A x, y, z \in S : <<x, y, z>> \in Seq(S)
  OBVIOUS
<1> QED BY <1>1, <1>2, <1>3, EmptySeq

LEMMA IsAPlugin ==
  ASSUME NEW name \in Names, NEW b \in Seq(Names), NEW a \in Seq(Names), NEW place \in {"front", "back"}
  PROVE  Plugin(name, b, a, place) \in APlugin
BY DEF Plugin, APlugin

\* How a plugin is shown to be one of its name.
LEMMA IsOne ==
  ASSUME NEW name \in Names, NEW b \in Seq(Names), NEW a \in Seq(Names), NEW place \in {"front", "back"},
         NEW before, NEW after, NEW back,
         place = IF name \in back THEN "back" ELSE "front",
         \A x : <<x, name>> \in before <=> x \in Range(b),
         \A x : <<name, x>> \in after <=> x \in Range(a)
  PROVE  IsAs(Plugin(name, b, a, place), before, after, back)
BY IsAPlugin DEF IsAs, Plugin

LEMMA HandlersAre ==
  ASSUME NEW p \in Handlers
  PROVE  IsAs(p, ByBeforeOfHandlers, ByAfterOfHandlers, BackOfHandlers)
<1>1. IsAs(OtelHandler, ByBeforeOfHandlers, ByAfterOfHandlers, BackOfHandlers)
  <2>1. "otel" \in Names
    BY DEF Names
  <2>2. <<>> \in Seq(Names)
    BY <2>1, TupleSeqs, Zenon
  <2>3. /\ "front" = IF "otel" \in BackOfHandlers THEN "back" ELSE "front"
        /\ \A x : <<x, "otel">> \in ByBeforeOfHandlers <=> x \in Range(<<>>)
        /\ \A x : <<"otel", x>> \in ByAfterOfHandlers <=> x \in Range(<<>>)
    BY SmallRanges DEF BackOfHandlers, ByBeforeOfHandlers, ByAfterOfHandlers
  <2> QED BY <2>1, <2>2, <2>3, IsOne DEF OtelHandler
<1>2. IsAs(BatchHandler, ByBeforeOfHandlers, ByAfterOfHandlers, BackOfHandlers)
  <2>1. "batch" \in Names /\ "otel" \in Names
    BY DEF Names
  <2>2. <<>> \in Seq(Names) /\ <<"otel">> \in Seq(Names)
    BY <2>1, TupleSeqs, Zenon
  <2>3. /\ "front" = IF "batch" \in BackOfHandlers THEN "back" ELSE "front"
        /\ \A x : <<x, "batch">> \in ByBeforeOfHandlers <=> x \in Range(<<>>)
        /\ \A x : <<"batch", x>> \in ByAfterOfHandlers <=> x \in Range(<<"otel">>)
    BY SmallRanges DEF BackOfHandlers, ByBeforeOfHandlers, ByAfterOfHandlers
  <2> QED BY <2>1, <2>2, <2>3, IsOne DEF BatchHandler
<1>3. IsAs(CorsHandler, ByBeforeOfHandlers, ByAfterOfHandlers, BackOfHandlers)
  <2>1. "batch" \in Names /\ "cors" \in Names /\ "otel" \in Names
    BY DEF Names
  <2>2. <<>> \in Seq(Names) /\ <<"otel", "batch">> \in Seq(Names)
    BY <2>1, TupleSeqs, Zenon
  <2>3. /\ "front" = IF "cors" \in BackOfHandlers THEN "back" ELSE "front"
        /\ \A x : <<x, "cors">> \in ByBeforeOfHandlers <=> x \in Range(<<>>)
        /\ \A x : <<"cors", x>> \in ByAfterOfHandlers <=> x \in Range(<<"otel", "batch">>)
    BY SmallRanges DEF BackOfHandlers, ByBeforeOfHandlers, ByAfterOfHandlers
  <2> QED BY <2>1, <2>2, <2>3, IsOne DEF CorsHandler
<1>4. IsAs(CsrfHandler, ByBeforeOfHandlers, ByAfterOfHandlers, BackOfHandlers)
  <2>1. "batch" \in Names /\ "csrf" \in Names
    BY DEF Names
  <2>2. <<>> \in Seq(Names) /\ <<"batch">> \in Seq(Names)
    BY <2>1, TupleSeqs, Zenon
  <2>3. /\ "front" = IF "csrf" \in BackOfHandlers THEN "back" ELSE "front"
        /\ \A x : <<x, "csrf">> \in ByBeforeOfHandlers <=> x \in Range(<<>>)
        /\ \A x : <<"csrf", x>> \in ByAfterOfHandlers <=> x \in Range(<<"batch">>)
    BY SmallRanges DEF BackOfHandlers, ByBeforeOfHandlers, ByAfterOfHandlers
  <2> QED BY <2>1, <2>2, <2>3, IsOne DEF CsrfHandler
<1>5. IsAs(MethodOverrideHandler, ByBeforeOfHandlers, ByAfterOfHandlers, BackOfHandlers)
  <2>1. "batch" \in Names /\ "method-override" \in Names
    BY DEF Names
  <2>2. <<"batch">> \in Seq(Names) /\ <<>> \in Seq(Names)
    BY <2>1, TupleSeqs, Zenon
  <2>3. /\ "front" = IF "method-override" \in BackOfHandlers THEN "back" ELSE "front"
        /\ \A x : <<x, "method-override">> \in ByBeforeOfHandlers <=> x \in Range(<<"batch">>)
        /\ \A x : <<"method-override", x>> \in ByAfterOfHandlers <=> x \in Range(<<>>)
    BY SmallRanges DEF BackOfHandlers, ByBeforeOfHandlers, ByAfterOfHandlers
  <2> QED BY <2>1, <2>2, <2>3, IsOne DEF MethodOverrideHandler
<1>6. IsAs(ResponseHeadersHandler, ByBeforeOfHandlers, ByAfterOfHandlers, BackOfHandlers)
  <2>1. "batch" \in Names /\ "response-headers" \in Names
    BY DEF Names
  <2>2. <<"batch">> \in Seq(Names) /\ <<>> \in Seq(Names)
    BY <2>1, TupleSeqs, Zenon
  <2>3. /\ "front" = IF "response-headers" \in BackOfHandlers THEN "back" ELSE "front"
        /\ \A x : <<x, "response-headers">> \in ByBeforeOfHandlers <=> x \in Range(<<"batch">>)
        /\ \A x : <<"response-headers", x>> \in ByAfterOfHandlers <=> x \in Range(<<>>)
    BY SmallRanges DEF BackOfHandlers, ByBeforeOfHandlers, ByAfterOfHandlers
  <2> QED BY <2>1, <2>2, <2>3, IsOne DEF ResponseHeadersHandler
<1>7. IsAs(DecompressHandler, ByBeforeOfHandlers, ByAfterOfHandlers, BackOfHandlers)
  <2>1. "batch" \in Names /\ "request-compression" \in Names
    BY DEF Names
  <2>2. <<>> \in Seq(Names) /\ <<"batch">> \in Seq(Names)
    BY <2>1, TupleSeqs, Zenon
  <2>3. /\ "front" = IF "request-compression" \in BackOfHandlers THEN "back" ELSE "front"
        /\ \A x : <<x, "request-compression">> \in ByBeforeOfHandlers <=> x \in Range(<<>>)
        /\ \A x : <<"request-compression", x>> \in ByAfterOfHandlers <=> x \in Range(<<"batch">>)
    BY SmallRanges DEF BackOfHandlers, ByBeforeOfHandlers, ByAfterOfHandlers
  <2> QED BY <2>1, <2>2, <2>3, IsOne DEF DecompressHandler
<1>8. IsAs(RequestLimitHandler, ByBeforeOfHandlers, ByAfterOfHandlers, BackOfHandlers)
  <2>1. "batch" \in Names /\ "request-compression" \in Names /\ "request-limit" \in Names
    BY DEF Names
  <2>2. <<"request-compression">> \in Seq(Names) /\ <<"batch">> \in Seq(Names)
    BY <2>1, TupleSeqs, Zenon
  <2>3. /\ "front" = IF "request-limit" \in BackOfHandlers THEN "back" ELSE "front"
        /\ \A x : <<x, "request-limit">> \in ByBeforeOfHandlers <=> x \in Range(<<"request-compression">>)
        /\ \A x : <<"request-limit", x>> \in ByAfterOfHandlers <=> x \in Range(<<"batch">>)
    BY SmallRanges DEF BackOfHandlers, ByBeforeOfHandlers, ByAfterOfHandlers
  <2> QED BY <2>1, <2>2, <2>3, IsOne DEF RequestLimitHandler
<1>9. IsAs(CompressHandler, ByBeforeOfHandlers, ByAfterOfHandlers, BackOfHandlers)
  <2>1. "batch" \in Names /\ "response-compression" \in Names /\ "response-headers" \in Names
    BY DEF Names
  <2>2. <<>> \in Seq(Names) /\ <<"batch", "response-headers">> \in Seq(Names)
    BY <2>1, TupleSeqs, Zenon
  <2>3. /\ "front" = IF "response-compression" \in BackOfHandlers THEN "back" ELSE "front"
        /\ \A x : <<x, "response-compression">> \in ByBeforeOfHandlers <=> x \in Range(<<>>)
        /\ \A x : <<"response-compression", x>> \in ByAfterOfHandlers <=> x \in Range(<<"batch", "response-headers">>)
    BY SmallRanges DEF BackOfHandlers, ByBeforeOfHandlers, ByAfterOfHandlers
  <2> QED BY <2>1, <2>2, <2>3, IsOne DEF CompressHandler
<1>10. IsAs(CompressBatchHandler, ByBeforeOfHandlers, ByAfterOfHandlers, BackOfHandlers)
  <2>1. "batch" \in Names /\ "batch-response-compression" \in Names
    BY DEF Names
  <2>2. <<>> \in Seq(Names) /\ <<"batch">> \in Seq(Names)
    BY <2>1, TupleSeqs, Zenon
  <2>3. /\ "front" = IF "batch-response-compression" \in BackOfHandlers THEN "back" ELSE "front"
        /\ \A x : <<x, "batch-response-compression">> \in ByBeforeOfHandlers <=> x \in Range(<<>>)
        /\ \A x : <<"batch-response-compression", x>> \in ByAfterOfHandlers <=> x \in Range(<<"batch">>)
    BY SmallRanges DEF BackOfHandlers, ByBeforeOfHandlers, ByAfterOfHandlers
  <2> QED BY <2>1, <2>2, <2>3, IsOne DEF CompressBatchHandler
<1>11. IsAs(TmpFileHandler, ByBeforeOfHandlers, ByAfterOfHandlers, BackOfHandlers)
  <2>1. "batch" \in Names /\ "request-compression" \in Names /\ "request-limit" \in Names /\ "tmp-file" \in Names
    BY DEF Names
  <2>2. <<"request-limit", "request-compression">> \in Seq(Names) /\ <<"batch">> \in Seq(Names)
    BY <2>1, TupleSeqs, Zenon
  <2>3. /\ "front" = IF "tmp-file" \in BackOfHandlers THEN "back" ELSE "front"
        /\ \A x : <<x, "tmp-file">> \in ByBeforeOfHandlers <=> x \in Range(<<"request-limit", "request-compression">>)
        /\ \A x : <<"tmp-file", x>> \in ByAfterOfHandlers <=> x \in Range(<<"batch">>)
    BY SmallRanges DEF BackOfHandlers, ByBeforeOfHandlers, ByAfterOfHandlers
  <2> QED BY <2>1, <2>2, <2>3, IsOne DEF TmpFileHandler
<1>12. IsAs(StaticFileHandler, ByBeforeOfHandlers, ByAfterOfHandlers, BackOfHandlers)
  <2>1. "otel" \in Names /\ "static-file" \in Names
    BY DEF Names
  <2>2. <<>> \in Seq(Names) /\ <<"otel">> \in Seq(Names)
    BY <2>1, TupleSeqs, Zenon
  <2>3. /\ "back" = IF "static-file" \in BackOfHandlers THEN "back" ELSE "front"
        /\ \A x : <<x, "static-file">> \in ByBeforeOfHandlers <=> x \in Range(<<>>)
        /\ \A x : <<"static-file", x>> \in ByAfterOfHandlers <=> x \in Range(<<"otel">>)
    BY SmallRanges DEF BackOfHandlers, ByBeforeOfHandlers, ByAfterOfHandlers
  <2> QED BY <2>1, <2>2, <2>3, IsOne DEF StaticFileHandler
<1>13. IsAs(PinoHandler, ByBeforeOfHandlers, ByAfterOfHandlers, BackOfHandlers)
  <2>1. "batch" \in Names /\ "hibernation" \in Names /\ "otel" \in Names /\ "pino" \in Names
    BY DEF Names
  <2>2. <<"otel", "batch", "hibernation">> \in Seq(Names) /\ <<>> \in Seq(Names)
    BY <2>1, TupleSeqs, Zenon
  <2>3. /\ "front" = IF "pino" \in BackOfHandlers THEN "back" ELSE "front"
        /\ \A x : <<x, "pino">> \in ByBeforeOfHandlers <=> x \in Range(<<"otel", "batch", "hibernation">>)
        /\ \A x : <<"pino", x>> \in ByAfterOfHandlers <=> x \in Range(<<>>)
    BY SmallRanges DEF BackOfHandlers, ByBeforeOfHandlers, ByAfterOfHandlers
  <2> QED BY <2>1, <2>2, <2>3, IsOne DEF PinoHandler
<1>14. IsAs(HibernationHandler, ByBeforeOfHandlers, ByAfterOfHandlers, BackOfHandlers)
  <2>1. "batch" \in Names /\ "hibernation" \in Names
    BY DEF Names
  <2>2. <<"batch">> \in Seq(Names) /\ <<>> \in Seq(Names)
    BY <2>1, TupleSeqs, Zenon
  <2>3. /\ "front" = IF "hibernation" \in BackOfHandlers THEN "back" ELSE "front"
        /\ \A x : <<x, "hibernation">> \in ByBeforeOfHandlers <=> x \in Range(<<"batch">>)
        /\ \A x : <<"hibernation", x>> \in ByAfterOfHandlers <=> x \in Range(<<>>)
    BY SmallRanges DEF BackOfHandlers, ByBeforeOfHandlers, ByAfterOfHandlers
  <2> QED BY <2>1, <2>2, <2>3, IsOne DEF HibernationHandler
<1>15. IsAs(RateLimitHandler, ByBeforeOfHandlers, ByAfterOfHandlers, BackOfHandlers)
  <2>1. "ratelimit" \in Names
    BY DEF Names
  <2>2. <<>> \in Seq(Names)
    BY <2>1, TupleSeqs, Zenon
  <2>3. /\ "back" = IF "ratelimit" \in BackOfHandlers THEN "back" ELSE "front"
        /\ \A x : <<x, "ratelimit">> \in ByBeforeOfHandlers <=> x \in Range(<<>>)
        /\ \A x : <<"ratelimit", x>> \in ByAfterOfHandlers <=> x \in Range(<<>>)
    BY SmallRanges DEF BackOfHandlers, ByBeforeOfHandlers, ByAfterOfHandlers
  <2> QED BY <2>1, <2>2, <2>3, IsOne DEF RateLimitHandler
<1> QED BY <1>1, <1>2, <1>3, <1>4, <1>5, <1>6, <1>7, <1>8, <1>9, <1>10, <1>11, <1>12, <1>13, <1>14, <1>15 DEF Handlers, PluginsOfHandlers

LEMMA LinksAre ==
  ASSUME NEW p \in PluginsOfLinks
  PROVE  IsAs(p, ByBeforeOfLinks, ByAfterOfLinks, BackOfLinks)
<1>1. IsAs(RetryPlugin, ByBeforeOfLinks, ByAfterOfLinks, BackOfLinks)
  <2>1. "retry" \in Names
    BY DEF Names
  <2>2. <<>> \in Seq(Names)
    BY <2>1, TupleSeqs, Zenon
  <2>3. /\ "front" = IF "retry" \in BackOfLinks THEN "back" ELSE "front"
        /\ \A x : <<x, "retry">> \in ByBeforeOfLinks <=> x \in Range(<<>>)
        /\ \A x : <<"retry", x>> \in ByAfterOfLinks <=> x \in Range(<<>>)
    BY SmallRanges DEF BackOfLinks, ByBeforeOfLinks, ByAfterOfLinks
  <2> QED BY <2>1, <2>2, <2>3, IsOne DEF RetryPlugin
<1>2. IsAs(TimeoutPlugin, ByBeforeOfLinks, ByAfterOfLinks, BackOfLinks)
  <2>1. "retry" \in Names /\ "timeout" \in Names
    BY DEF Names
  <2>2. <<>> \in Seq(Names) /\ <<"retry">> \in Seq(Names)
    BY <2>1, TupleSeqs, Zenon
  <2>3. /\ "front" = IF "timeout" \in BackOfLinks THEN "back" ELSE "front"
        /\ \A x : <<x, "timeout">> \in ByBeforeOfLinks <=> x \in Range(<<>>)
        /\ \A x : <<"timeout", x>> \in ByAfterOfLinks <=> x \in Range(<<"retry">>)
    BY SmallRanges DEF BackOfLinks, ByBeforeOfLinks, ByAfterOfLinks
  <2> QED BY <2>1, <2>2, <2>3, IsOne DEF TimeoutPlugin
<1>3. IsAs(DedupePlugin, ByBeforeOfLinks, ByAfterOfLinks, BackOfLinks)
  <2>1. "batch" \in Names /\ "dedupe" \in Names
    BY DEF Names
  <2>2. <<"batch">> \in Seq(Names) /\ <<>> \in Seq(Names)
    BY <2>1, TupleSeqs, Zenon
  <2>3. /\ "back" = IF "dedupe" \in BackOfLinks THEN "back" ELSE "front"
        /\ \A x : <<x, "dedupe">> \in ByBeforeOfLinks <=> x \in Range(<<"batch">>)
        /\ \A x : <<"dedupe", x>> \in ByAfterOfLinks <=> x \in Range(<<>>)
    BY SmallRanges DEF BackOfLinks, ByBeforeOfLinks, ByAfterOfLinks
  <2> QED BY <2>1, <2>2, <2>3, IsOne DEF DedupePlugin
<1>4. IsAs(BatchPlugin, ByBeforeOfLinks, ByAfterOfLinks, BackOfLinks)
  <2>1. "batch" \in Names
    BY DEF Names
  <2>2. <<>> \in Seq(Names)
    BY <2>1, TupleSeqs, Zenon
  <2>3. /\ "back" = IF "batch" \in BackOfLinks THEN "back" ELSE "front"
        /\ \A x : <<x, "batch">> \in ByBeforeOfLinks <=> x \in Range(<<>>)
        /\ \A x : <<"batch", x>> \in ByAfterOfLinks <=> x \in Range(<<>>)
    BY SmallRanges DEF BackOfLinks, ByBeforeOfLinks, ByAfterOfLinks
  <2> QED BY <2>1, <2>2, <2>3, IsOne DEF BatchPlugin
<1>5. IsAs(CompressPlugin, ByBeforeOfLinks, ByAfterOfLinks, BackOfLinks)
  <2>1. "batch" \in Names /\ "request-compression" \in Names
    BY DEF Names
  <2>2. <<>> \in Seq(Names) /\ <<"batch">> \in Seq(Names)
    BY <2>1, TupleSeqs, Zenon
  <2>3. /\ "back" = IF "request-compression" \in BackOfLinks THEN "back" ELSE "front"
        /\ \A x : <<x, "request-compression">> \in ByBeforeOfLinks <=> x \in Range(<<>>)
        /\ \A x : <<"request-compression", x>> \in ByAfterOfLinks <=> x \in Range(<<"batch">>)
    BY SmallRanges DEF BackOfLinks, ByBeforeOfLinks, ByAfterOfLinks
  <2> QED BY <2>1, <2>2, <2>3, IsOne DEF CompressPlugin
<1>6. IsAs(DecompressPlugin, ByBeforeOfLinks, ByAfterOfLinks, BackOfLinks)
  <2>1. "batch" \in Names /\ "response-compression" \in Names
    BY DEF Names
  <2>2. <<>> \in Seq(Names) /\ <<"batch">> \in Seq(Names)
    BY <2>1, TupleSeqs, Zenon
  <2>3. /\ "back" = IF "response-compression" \in BackOfLinks THEN "back" ELSE "front"
        /\ \A x : <<x, "response-compression">> \in ByBeforeOfLinks <=> x \in Range(<<>>)
        /\ \A x : <<"response-compression", x>> \in ByAfterOfLinks <=> x \in Range(<<"batch">>)
    BY SmallRanges DEF BackOfLinks, ByBeforeOfLinks, ByAfterOfLinks
  <2> QED BY <2>1, <2>2, <2>3, IsOne DEF DecompressPlugin
<1>7. IsAs(ValidationPlugin, ByBeforeOfLinks, ByAfterOfLinks, BackOfLinks)
  <2>1. "response-validation" \in Names
    BY DEF Names
  <2>2. <<>> \in Seq(Names)
    BY <2>1, TupleSeqs, Zenon
  <2>3. /\ "back" = IF "response-validation" \in BackOfLinks THEN "back" ELSE "front"
        /\ \A x : <<x, "response-validation">> \in ByBeforeOfLinks <=> x \in Range(<<>>)
        /\ \A x : <<"response-validation", x>> \in ByAfterOfLinks <=> x \in Range(<<>>)
    BY SmallRanges DEF BackOfLinks, ByBeforeOfLinks, ByAfterOfLinks
  <2> QED BY <2>1, <2>2, <2>3, IsOne DEF ValidationPlugin
<1>8. IsAs(CoercionPlugin, ByBeforeOfLinks, ByAfterOfLinks, BackOfLinks)
  <2>1. "response-validation" \in Names /\ "smart-coercion" \in Names
    BY DEF Names
  <2>2. <<>> \in Seq(Names) /\ <<"response-validation">> \in Seq(Names)
    BY <2>1, TupleSeqs, Zenon
  <2>3. /\ "back" = IF "smart-coercion" \in BackOfLinks THEN "back" ELSE "front"
        /\ \A x : <<x, "smart-coercion">> \in ByBeforeOfLinks <=> x \in Range(<<>>)
        /\ \A x : <<"smart-coercion", x>> \in ByAfterOfLinks <=> x \in Range(<<"response-validation">>)
    BY SmallRanges DEF BackOfLinks, ByBeforeOfLinks, ByAfterOfLinks
  <2> QED BY <2>1, <2>2, <2>3, IsOne DEF CoercionPlugin
<1> QED BY <1>1, <1>2, <1>3, <1>4, <1>5, <1>6, <1>7, <1>8 DEF PluginsOfLinks

\* How late a plugin comes at the earliest.
Rank(name) ==
  IF name \in {"pino", "dedupe", "retry", "method-override", "response-headers"} THEN 1
  ELSE IF name \in {"otel", "hibernation", "timeout"} THEN 2
  ELSE IF name \in {"batch", "static-file"} THEN 3
  ELSE IF name = "request-limit" THEN 5
  ELSE IF name = "request-compression" THEN 6
  ELSE IF name = "response-validation" THEN 1 ELSE 4

LEMMA RankType == ASSUME NEW name PROVE Rank(name) \in Nat
BY DEF Rank

\* What is stated of the plugins of a list.
Stated(ps) == Around \cup IF ps # <<>> /\ ps[1] = OtelHandler THEN AroundInHandlers ELSE AroundInLinks

\* Where the first of two is stated to be around the second, they are in front and the first
\* comes after the second, or they are behind and it comes before it, or it is in front and
\* the second behind.
Nests(p, q) ==
  \/ p.place = "front" /\ q.place = "front" /\ Needs(p, q)
  \/ p.place = "back" /\ q.place = "back" /\ Needs(q, p)
  \/ p.place = "front" /\ q.place = "back"

\* Plugins whose lists are free of circles and as their nesting asks for.
AreOrderable(ps, stated) ==
  /\ ps \in Seq(APlugin)
  /\ \A i, j \in 1..Len(ps) : Needs(ps[i], ps[j]) => Rank(ps[j].name) < Rank(ps[i].name)
  /\ \A i, j \in 1..Len(ps) : <<ps[i].name, ps[j].name>> \in stated => Nests(ps[i], ps[j])
  /\ \A i \in 1..Len(ps) : <<ps[i].name, "user">> \in stated => ps[i].place = "front"
  /\ \A name : <<"user", name>> \notin stated

LEMMA NeedsIs ==
  ASSUME NEW before, NEW after, NEW back, NEW p, NEW q, IsAs(p, before, after, back), IsAs(q, before, after, back)
  PROVE  Needs(p, q) <=> <<p.name, q.name>> \in before \cup after
BY DEF Needs, IsAs

LEMMA RanksOfHandlers ==
  \A x, y : <<x, y>> \in ByBeforeOfHandlers \cup ByAfterOfHandlers => Rank(y) < Rank(x)
BY DEF ByBeforeOfHandlers, ByAfterOfHandlers, Rank

LEMMA RanksOfLinks ==
  \A x, y : <<x, y>> \in ByBeforeOfLinks \cup ByAfterOfLinks => Rank(y) < Rank(x)
BY DEF ByBeforeOfLinks, ByAfterOfLinks, Rank

\* The same of names.
NestsByName(x, y, after, back) ==
  \/ x \notin back /\ y \notin back /\ <<x, y>> \in after
  \/ x \in back /\ y \in back /\ <<y, x>> \in after
  \/ x \notin back /\ y \in back

NamesOfHandlers ==
  {"otel", "batch", "cors", "csrf", "method-override", "response-headers", "request-compression",
   "request-limit", "response-compression", "batch-response-compression", "tmp-file", "static-file",
   "pino", "hibernation", "ratelimit"}
NamesOfLinks ==
  {"retry", "timeout", "dedupe", "batch", "request-compression", "response-compression",
   "response-validation", "smart-coercion"}

LEMMA HandlerNames == \A p \in Handlers : p.name \in NamesOfHandlers
BY DEF Handlers, PluginsOfHandlers, Plugin, NamesOfHandlers, OtelHandler, BatchHandler, CorsHandler, CsrfHandler,
   MethodOverrideHandler, ResponseHeadersHandler, DecompressHandler, RequestLimitHandler, CompressHandler,
   CompressBatchHandler, TmpFileHandler, StaticFileHandler, PinoHandler, HibernationHandler, RateLimitHandler
LEMMA LinkNames == \A p \in PluginsOfLinks : p.name \in NamesOfLinks
BY DEF PluginsOfLinks, Plugin, NamesOfLinks, RetryPlugin, TimeoutPlugin, DedupePlugin, BatchPlugin, CompressPlugin,
   DecompressPlugin, ValidationPlugin, CoercionPlugin

LEMMA HandlersAreStated ==
  \A x, y \in NamesOfHandlers :
    <<x, y>> \in Around \cup AroundInHandlers =>
      NestsByName(x, y, ByBeforeOfHandlers \cup ByAfterOfHandlers, BackOfHandlers)
BY DEF Around, AroundInHandlers, NestsByName, ByBeforeOfHandlers, ByAfterOfHandlers, BackOfHandlers, NamesOfHandlers

LEMMA LinksAreStated ==
  \A x, y \in NamesOfLinks :
    <<x, y>> \in Around \cup AroundInLinks =>
      NestsByName(x, y, ByBeforeOfLinks \cup ByAfterOfLinks, BackOfLinks)
BY DEF Around, AroundInLinks, NestsByName, ByBeforeOfLinks, ByAfterOfLinks, BackOfLinks, NamesOfLinks

LEMMA UserIsStated ==
  /\ \A name : <<"user", name>> \notin Around \cup AroundInHandlers \cup AroundInLinks
  /\ \A name : <<name, "user">> \in Around \cup AroundInHandlers \cup AroundInLinks => name = "otel"
BY DEF Around, AroundInHandlers, AroundInLinks

LEMMA NestsIs ==
  ASSUME NEW before, NEW after, NEW back, NEW p, NEW q, IsAs(p, before, after, back), IsAs(q, before, after, back)
  PROVE  NestsByName(p.name, q.name, before \cup after, back) => Nests(p, q)
BY NeedsIs DEF NestsByName, Nests, IsAs

LEMMA HandlersAreOrderable ==
  ASSUME NEW ps \in Seq(Handlers), ps # <<>>, ps[1] = OtelHandler
  PROVE  AreOrderable(ps, Stated(ps))
<1>1. Stated(ps) = Around \cup AroundInHandlers
  BY DEF Stated
<1>2. \A i \in 1..Len(ps) : ps[i] \in Handlers
  OBVIOUS
<1>3. ps \in Seq(APlugin)
  <2>1. Handlers \subseteq APlugin
    BY HandlersAre DEF IsAs
  <2> QED BY <2>1, SeqMonotonic
<1>4. \A i \in 1..Len(ps) : /\ IsAs(ps[i], ByBeforeOfHandlers, ByAfterOfHandlers, BackOfHandlers)
                            /\ ps[i].name \in NamesOfHandlers
  BY <1>2, HandlersAre, HandlerNames
<1>5. ASSUME NEW i \in 1..Len(ps), NEW j \in 1..Len(ps), Needs(ps[i], ps[j])
      PROVE  Rank(ps[j].name) < Rank(ps[i].name)
  BY <1>4, <1>5, NeedsIs, RanksOfHandlers
<1>6. ASSUME NEW i \in 1..Len(ps), NEW j \in 1..Len(ps), <<ps[i].name, ps[j].name>> \in Stated(ps)
      PROVE  Nests(ps[i], ps[j])
  <2>1. NestsByName(ps[i].name, ps[j].name, ByBeforeOfHandlers \cup ByAfterOfHandlers, BackOfHandlers)
    BY <1>1, <1>4, <1>6, HandlersAreStated
  <2> QED BY <1>4, <2>1, NestsIs
<1>7. \A i \in 1..Len(ps) : <<ps[i].name, "user">> \in Stated(ps) => ps[i].place = "front"
  BY <1>1, <1>4, UserIsStated DEF IsAs, BackOfHandlers
<1>8. \A name : <<"user", name>> \notin Stated(ps)
  BY <1>1, UserIsStated
<1> QED BY <1>3, <1>5, <1>6, <1>7, <1>8 DEF AreOrderable

LEMMA LinksAreOrderable ==
  ASSUME NEW ps \in Seq(PluginsOfLinks)
  PROVE  AreOrderable(ps, Stated(ps))
<1>1. \A i \in 1..Len(ps) : ps[i] \in PluginsOfLinks
  OBVIOUS
<1>2. Stated(ps) = Around \cup AroundInLinks
  <2>1. OtelHandler.name = "otel" /\ "otel" \notin NamesOfLinks
    BY DEF OtelHandler, Plugin, NamesOfLinks
  <2>2. ps # <<>> => 1 \in 1..Len(ps)
    OBVIOUS
  <2>3. ~(ps # <<>> /\ ps[1] = OtelHandler)
    BY <1>1, <2>1, <2>2, LinkNames
  <2> QED BY <2>3 DEF Stated
<1>3. ps \in Seq(APlugin)
  <2>1. PluginsOfLinks \subseteq APlugin
    BY LinksAre DEF IsAs
  <2> QED BY <2>1, SeqMonotonic
<1>4. \A i \in 1..Len(ps) : /\ IsAs(ps[i], ByBeforeOfLinks, ByAfterOfLinks, BackOfLinks)
                            /\ ps[i].name \in NamesOfLinks
  BY <1>1, LinksAre, LinkNames
<1>5. ASSUME NEW i \in 1..Len(ps), NEW j \in 1..Len(ps), Needs(ps[i], ps[j])
      PROVE  Rank(ps[j].name) < Rank(ps[i].name)
  BY <1>4, <1>5, NeedsIs, RanksOfLinks
<1>6. ASSUME NEW i \in 1..Len(ps), NEW j \in 1..Len(ps), <<ps[i].name, ps[j].name>> \in Stated(ps)
      PROVE  Nests(ps[i], ps[j])
  <2>1. NestsByName(ps[i].name, ps[j].name, ByBeforeOfLinks \cup ByAfterOfLinks, BackOfLinks)
    BY <1>2, <1>4, <1>6, LinksAreStated
  <2> QED BY <1>4, <2>1, NestsIs
<1>7. \A i \in 1..Len(ps) : <<ps[i].name, "user">> \in Stated(ps) => ps[i].place = "front"
  BY <1>2, <1>4, UserIsStated DEF NamesOfLinks
<1>8. \A name : <<"user", name>> \notin Stated(ps)
  BY <1>2, UserIsStated
<1> QED BY <1>3, <1>5, <1>6, <1>7, <1>8 DEF AreOrderable

LEMMA GivenAreOrderable ==
  ASSUME NEW ps \in {<<OtelHandler>> \o l : l \in Lists(PluginsOfHandlers)} \cup Lists(PluginsOfLinks)
  PROVE  AreOrderable(ps, Stated(ps))
<1>1. CASE ps \in {<<OtelHandler>> \o l : l \in Lists(PluginsOfHandlers)}
  <2>1. PICK l \in Lists(PluginsOfHandlers) : ps = <<OtelHandler>> \o l
    BY <1>1
  <2>2. PICK n \in 0..MaxPlugins : l \in [1..n -> PluginsOfHandlers]
    BY DEF Lists
  <2>3. n \in Nat
    BY OrderAssumption
  <2>4. l \in Seq(Handlers)
    BY <2>2, <2>3 DEF Handlers
  <2>5. <<OtelHandler>> \in Seq(Handlers) /\ Len(<<OtelHandler>>) = 1 /\ <<OtelHandler>>[1] = OtelHandler
    <3>1. OtelHandler \in Handlers
      BY DEF Handlers
    <3> QED BY <3>1, SingletonSeq
  <2>6. PICK o \in Seq(Handlers) : o = <<OtelHandler>> /\ Len(o) = 1 /\ o[1] = OtelHandler
    BY <2>5
  <2>7. o \o l \in Seq(Handlers) /\ (o \o l)[1] = OtelHandler /\ Len(o \o l) = 1 + Len(l) /\ Len(l) \in Nat
    BY <2>4, <2>6, ConcatProperties
  <2>8. ps \in Seq(Handlers) /\ ps[1] = OtelHandler /\ ps # <<>>
    BY <2>1, <2>6, <2>7
  <2> QED BY <2>8, HandlersAreOrderable
<1>2. CASE ps \in Lists(PluginsOfLinks)
  <2>1. PICK n \in 0..MaxPlugins : ps \in [1..n -> PluginsOfLinks]
    BY <1>2 DEF Lists
  <2>2. n \in Nat
    BY OrderAssumption
  <2>3. ps \in Seq(PluginsOfLinks)
    BY <2>1, <2>2
  <2> QED BY <2>3, LinksAreOrderable
<1> QED BY <1>1, <1>2

\* Whether i, or the loop (0), awaits d; and how late i comes, after all of them.
Wants(ps, i, d) == i = 0 \/ Needs(ps[i], ps[d])
RankAt(ps, i) == IF i = 0 THEN 7 ELSE Rank(ps[i].name)
VisitsOf(n) == [plugin : 0..n, left : Seq(1..n)]
AreDistinct(w) == \A k, l \in 1..Len(w) : k < l => w[k] # w[l]

\* What has been visited: once each, and none that a later one comes before.
AreSorted(ps, w) ==
  /\ w \in Seq(1..Len(ps))
  /\ AreDistinct(w)
  /\ \A k, l \in 1..Len(w) : k <= l => ~Needs(ps[w[k]], ps[w[l]])

\* The visits at work: each within one of a plugin that comes after its own, and what a
\* plugin comes after is sorted, or left to visit, or visited right now.
AreVisits(ps, v, w) ==
  /\ v \in Seq(VisitsOf(Len(ps)))
  /\ v[1].plugin = 0
  /\ \A k \in 1..Len(v) : v[k].plugin \notin Range(w)
  /\ \A k, l \in 1..Len(v) : k < l => RankAt(ps, v[l].plugin) < RankAt(ps, v[k].plugin)
  /\ \A k \in 1..Len(v), d \in 1..Len(ps) : d \in Range(v[k].left) => Wants(ps, v[k].plugin, d)
  /\ \A k \in 1..Len(v), d \in 1..Len(ps) :
       Wants(ps, v[k].plugin, d) =>
         \/ d \in Range(v[k].left) \/ d \in Range(w)
         \/ k < Len(v) /\ d = v[k + 1].plugin
  /\ \A k \in 1..Len(w), d \in 1..Len(ps) : Needs(ps[w[k]], ps[d]) => d \in Range(w)

LEMMA RankAtType == ASSUME NEW ps, NEW i PROVE RankAt(ps, i) \in Nat /\ (i # 0 => RankAt(ps, i) < 7)
BY DEF RankAt, Rank

LEMMA FrontIs ==
  ASSUME NEW S, NEW s \in Seq(S), s # <<>>
  PROVE  /\ Front(s) \in Seq(S) /\ Len(Front(s)) = Len(s) - 1
         /\ \A k \in 1..(Len(s) - 1) : Front(s)[k] = s[k]
<1> DEFINE n == Len(s) - 1
<1>1. n \in Nat /\ n = Len(s) - 1 /\ Len(s) \in Nat /\ 1..n \subseteq 1..Len(s)
  OBVIOUS
<1> HIDE DEF n
<1>2. Front(s) = SubSeq(s, 1, n)
  BY <1>1 DEF Front
<1>3. \A i \in 1..n : s[i] \in S
  BY <1>1
<1>4. SubSeq(s, 1, n) = [i \in 1..n |-> s[i]]
  BY <1>1
<1> QED BY <1>1, <1>2, <1>3, <1>4

\* The last of a sequence replaced.
LEMMA ReplaceLast ==
  ASSUME NEW S, NEW s \in Seq(S), s # <<>>, NEW x \in S
  PROVE  /\ Append(Front(s), x) \in Seq(S) /\ Len(Append(Front(s), x)) = Len(s)
         /\ \A k \in 1..Len(s) : Append(Front(s), x)[k] = IF k = Len(s) THEN x ELSE s[k]
<1>1. Front(s) \in Seq(S) /\ Len(Front(s)) = Len(s) - 1 /\ \A k \in 1..(Len(s) - 1) : Front(s)[k] = s[k]
  BY FrontIs
<1>2. PICK n \in Nat : n = Len(s) /\ n # 0
  BY EmptySeq
<1>3. PICK f \in Seq(S) : f = Front(s)
  BY <1>1
<1>4. /\ Append(f, x) \in Seq(S) /\ Len(Append(f, x)) = n
      /\ \A k \in 1..n : Append(f, x)[k] = IF k = n THEN x ELSE f[k]
  BY <1>1, <1>2, <1>3, AppendProperties
<1>5. \A k \in 1..n : k # n => k \in 1..(n - 1)
  BY <1>2
<1> QED BY <1>1, <1>2, <1>3, <1>4, <1>5

\* The range of a sequence, by its head and its tail, and by what is appended.
LEMMA RangeOfHead ==
  ASSUME NEW S, NEW s \in Seq(S), s # <<>>
  PROVE  Head(s) \in S /\ Tail(s) \in Seq(S) /\ Range(s) = {Head(s)} \cup Range(Tail(s))
<1> DEFINE n == Len(s)
<1>1. n \in Nat /\ n = Len(s) /\ n # 0 /\ \A i \in 1..n : s[i] \in S
  OBVIOUS
<1> HIDE DEF n
<1>2. Head(s) \in S /\ Tail(s) \in Seq(S) /\ Len(Tail(s)) = n - 1 /\ Head(s) = s[1]
  BY <1>1
<1>3. \A i \in 1..(n - 1) : Tail(s)[i] = s[i + 1]
  BY <1>1
<1>4. Range(s) = {s[i] : i \in 1..n}
  BY <1>1, RangeEquality
<1>5. Range(Tail(s)) = {Tail(s)[i] : i \in 1..(n - 1)}
  BY <1>2, RangeEquality, Zenon
<1>6. ASSUME NEW x \in Range(s) PROVE x \in {Head(s)} \cup Range(Tail(s))
  <2>1. PICK i \in 1..n : x = s[i]
    BY <1>4
  <2>2. i # 1 => i - 1 \in 1..(n - 1) /\ s[i] = Tail(s)[i - 1]
    BY <1>1, <1>3
  <2> QED BY <1>2, <1>5, <2>1, <2>2
<1>7. ASSUME NEW x \in {Head(s)} \cup Range(Tail(s)) PROVE x \in Range(s)
  <2>1. CASE x = Head(s)
    BY <1>1, <1>2, <1>4, <2>1
  <2>2. CASE x \in Range(Tail(s))
    <3>1. PICK i \in 1..(n - 1) : x = Tail(s)[i]
      BY <1>5, <2>2
    <3>2. i + 1 \in 1..n
      BY <1>1
    <3> QED BY <1>3, <1>4, <3>1, <3>2
  <2> QED BY <2>1, <2>2
<1> QED BY <1>2, <1>6, <1>7

LEMMA AppendedRange ==
  ASSUME NEW S, NEW s \in Seq(S), NEW x \in S
  PROVE  Range(Append(s, x)) = Range(s) \cup {x}
<1>1. Append(s, x) = s \o <<x>> /\ <<x>> \in Seq(S)
  OBVIOUS
<1>2. Range(s \o <<x>>) = Range(s) \cup Range(<<x>>)
  BY <1>1, RangeConcatenation
<1>3. Range(<<x>>) = {x}
  BY SmallRanges
<1> QED BY <1>1, <1>2, <1>3

LEMMA RangeIs ==
  ASSUME NEW S, NEW w \in Seq(S)
  PROVE  Range(w) \subseteq S /\ \A d : d \in Range(w) <=> \E k \in 1..Len(w) : w[k] = d
<1>1. Range(w) = {w[k] : k \in 1..Len(w)}
  BY RangeEquality
<1>2. \A k \in 1..Len(w) : w[k] \in S
  OBVIOUS
<1> QED BY <1>1, <1>2

Coming(v) == Head(Last(v).left)
Rest(v) == Append(Front(v), AVisit(Last(v).plugin, Tail(Last(v).left)))

\* What is left to visit once the next is taken.
LEMMA RestIs ==
  ASSUME NEW n \in Nat, NEW v \in Seq(VisitsOf(n)), v # <<>>, Last(v).left # <<>>
  PROVE  /\ Coming(v) \in 1..n /\ Coming(v) \in Range(v[Len(v)].left)
         /\ Rest(v) \in Seq(VisitsOf(n)) /\ Len(Rest(v)) = Len(v)
         /\ \A k \in 1..Len(v) : Rest(v)[k].plugin = v[k].plugin
         /\ \A k \in 1..Len(v) : \A d : d \in Range(Rest(v)[k].left) => d \in Range(v[k].left)
         /\ \A k \in 1..Len(v) : \A d :
              d \in Range(v[k].left) => d \in Range(Rest(v)[k].left) \/ (k = Len(v) /\ d = Coming(v))
<1> DEFINE m == Len(v)
           l == Last(v)
           x == AVisit(l.plugin, Tail(l.left))
<1>1. m \in Nat /\ m \in 1..m /\ m = Len(v) /\ l = v[m]
  BY DEF Last
<1>2. l \in VisitsOf(n)
  BY <1>1
<1>3. l.plugin \in 0..n /\ l.left \in Seq(1..n) /\ l.left # <<>>
  BY <1>2 DEF VisitsOf
<1>4. Coming(v) = Head(l.left) /\ Rest(v) = Append(Front(v), x)
  BY DEF Coming, Rest
<1> HIDE DEF l, m
<1>5. /\ Head(l.left) \in 1..n /\ Tail(l.left) \in Seq(1..n)
      /\ Range(l.left) = {Head(l.left)} \cup Range(Tail(l.left))
  BY <1>3, RangeOfHead
<1>6. x \in VisitsOf(n) /\ x.plugin = l.plugin /\ x.left = Tail(l.left)
  BY <1>3, <1>5 DEF AVisit, VisitsOf
<1> HIDE DEF x
<1>7. /\ Append(Front(v), x) \in Seq(VisitsOf(n)) /\ Len(Append(Front(v), x)) = m
      /\ \A k \in 1..m : Append(Front(v), x)[k] = IF k = m THEN x ELSE v[k]
  BY <1>1, <1>6, ReplaceLast
<1>8. \A k \in 1..m : Rest(v)[k] = IF k = m THEN x ELSE v[k]
  BY <1>4, <1>7
<1>9. \A k \in 1..m : Rest(v)[k].plugin = v[k].plugin
  BY <1>1, <1>6, <1>8
<1>10. \A k \in 1..m : \A d : d \in Range(Rest(v)[k].left) => d \in Range(v[k].left)
  BY <1>1, <1>5, <1>6, <1>8
<1>11. \A k \in 1..m : \A d :
         d \in Range(v[k].left) => d \in Range(Rest(v)[k].left) \/ (k = m /\ d = Coming(v))
  BY <1>1, <1>4, <1>5, <1>6, <1>8
<1>12. Coming(v) \in 1..n /\ Coming(v) \in Range(v[m].left)
  BY <1>1, <1>4, <1>5
<1>13. Rest(v) \in Seq(VisitsOf(n)) /\ Len(Rest(v)) = m
  BY <1>4, <1>7
<1> QED BY <1>1, <1>9, <1>10, <1>11, <1>12, <1>13

\* Its lists have no circle.
HasNoCircle(ps) ==
  /\ ps \in Seq(APlugin)
  /\ \A i, j \in 1..Len(ps) : Needs(ps[i], ps[j]) => Rank(ps[j].name) < Rank(ps[i].name)

\* So the next to visit comes before all that are visited right now, and is none of them.
LEMMA ComingIsNew ==
  ASSUME NEW ps, HasNoCircle(ps), NEW v, NEW w, AreVisits(ps, v, w), v # <<>>, Last(v).left # <<>>
  PROVE  /\ Wants(ps, v[Len(v)].plugin, Coming(v))
         /\ \A k \in 1..Len(v) : RankAt(ps, Coming(v)) < RankAt(ps, v[k].plugin)
         /\ \A k \in 1..Len(v) : v[k].plugin # Coming(v)
<1> DEFINE n == Len(ps)
           m == Len(v)
           c == Coming(v)
<1>1. n \in Nat /\ n = Len(ps)
  BY DEF HasNoCircle
<1>2. v \in Seq(VisitsOf(n))
  BY DEF AreVisits
<1>3. m \in Nat /\ m \in 1..m /\ m = Len(v)
  BY <1>2
<1> HIDE DEF n, m
<1>4. c \in 1..n /\ c \in Range(v[m].left)
  BY <1>1, <1>2, <1>3, RestIs
<1> HIDE DEF c
<1>5. Wants(ps, v[m].plugin, c)
  BY <1>1, <1>3, <1>4 DEF AreVisits
<1>6. v[m].plugin \in 0..n
  <2>1. v[m] \in VisitsOf(n)
    BY <1>2, <1>3
  <2> QED BY <2>1 DEF VisitsOf
<1>7. RankAt(ps, c) < RankAt(ps, v[m].plugin)
  <2>1. c # 0 /\ c \in Int
    BY <1>1, <1>4
  <2>2. CASE v[m].plugin = 0
    <3>1. RankAt(ps, v[m].plugin) = 7
      BY <2>2 DEF RankAt
    <3> QED BY <2>1, <3>1, RankAtType
  <2>3. CASE v[m].plugin # 0
    <3>1. v[m].plugin \in 1..n /\ Needs(ps[v[m].plugin], ps[c])
      BY <1>1, <1>5, <1>6, <2>3 DEF Wants
    <3>2. Rank(ps[c].name) < Rank(ps[v[m].plugin].name)
      BY <1>1, <1>4, <3>1 DEF HasNoCircle
    <3> QED BY <2>1, <2>3, <3>2 DEF RankAt
  <2> QED BY <2>2, <2>3
<1>8. ASSUME NEW k \in 1..m PROVE RankAt(ps, c) < RankAt(ps, v[k].plugin) /\ v[k].plugin # c
  <2>1. k < m => RankAt(ps, v[m].plugin) < RankAt(ps, v[k].plugin)
    BY <1>3 DEF AreVisits
  <2>2. RankAt(ps, c) \in Nat /\ RankAt(ps, v[m].plugin) \in Nat /\ RankAt(ps, v[k].plugin) \in Nat
    BY RankAtType
  <2>3. RankAt(ps, c) < RankAt(ps, v[k].plugin)
    BY <1>3, <1>7, <2>1, <2>2
  <2> QED BY <2>2, <2>3
<1> QED BY <1>3, <1>5, <1>8 DEF c

\* One that was sorted already is passed over.
LEMMA PassingOver ==
  ASSUME NEW ps, HasNoCircle(ps), NEW v, NEW w, AreVisits(ps, v, w), v # <<>>, Last(v).left # <<>>,
         Coming(v) \in Range(w)
  PROVE  AreVisits(ps, Rest(v), w)
<1> DEFINE n == Len(ps)
           m == Len(v)
           r == Rest(v)
<1>1. n \in Nat /\ n = Len(ps) /\ v \in Seq(VisitsOf(n))
  BY DEF HasNoCircle, AreVisits
<1>2. m \in Nat /\ m \in 1..m /\ m = Len(v) /\ 1 \in 1..m
  BY <1>1
<1> HIDE DEF n, m
<1>3. /\ r \in Seq(VisitsOf(n)) /\ Len(r) = m
      /\ \A k \in 1..m : r[k].plugin = v[k].plugin
      /\ \A k \in 1..m : \A d : d \in Range(r[k].left) => d \in Range(v[k].left)
      /\ \A k \in 1..m : \A d :
           d \in Range(v[k].left) => d \in Range(r[k].left) \/ (k = m /\ d = Coming(v))
  <2>1. r \in Seq(VisitsOf(n)) /\ Len(r) = m
    BY <1>1, <1>2, RestIs
  <2>2. \A k \in 1..m : r[k].plugin = v[k].plugin
    BY <1>1, <1>2, RestIs
  <2>3. \A k \in 1..m : \A d : d \in Range(r[k].left) => d \in Range(v[k].left)
    BY <1>1, <1>2, RestIs
  <2>4. \A k \in 1..m : \A d :
          d \in Range(v[k].left) => d \in Range(r[k].left) \/ (k = m /\ d = Coming(v))
    <3>1. \A k \in 1..Len(v) : \A d :
            d \in Range(v[k].left) => d \in Range(r[k].left) \/ (k = Len(v) /\ d = Coming(v))
      BY <1>1, RestIs, Zenon
    <3> QED BY <1>2, <3>1, Zenon
  <2> QED BY <2>1, <2>2, <2>3, <2>4
<1> HIDE DEF r
<1>4. r[1].plugin = 0
  BY <1>2, <1>3 DEF AreVisits
<1>5. \A k \in 1..m : r[k].plugin \notin Range(w)
  BY <1>2, <1>3 DEF AreVisits
<1>6. \A k, l \in 1..m : k < l => RankAt(ps, r[l].plugin) < RankAt(ps, r[k].plugin)
  BY <1>2, <1>3 DEF AreVisits
<1>7. \A k \in 1..m, d \in 1..n : d \in Range(r[k].left) => Wants(ps, r[k].plugin, d)
  BY <1>1, <1>2, <1>3 DEF AreVisits
<1>8. ASSUME NEW k \in 1..m, NEW d \in 1..n, Wants(ps, r[k].plugin, d)
      PROVE  \/ d \in Range(r[k].left) \/ d \in Range(w)
             \/ k < m /\ d = r[k + 1].plugin
  <2>1. \/ d \in Range(v[k].left) \/ d \in Range(w)
        \/ k < m /\ d = v[k + 1].plugin
    BY <1>1, <1>2, <1>3, <1>8 DEF AreVisits
  <2>2. k < m => k + 1 \in 1..m
    BY <1>2
  <2> QED BY <1>3, <2>1, <2>2
<1>9. \A k \in 1..Len(w), d \in 1..n : Needs(ps[w[k]], ps[d]) => d \in Range(w)
  BY <1>1 DEF AreVisits
<1> QED BY <1>1, <1>3, <1>4, <1>5, <1>6, <1>7, <1>8, <1>9 DEF r, AreVisits

\* One that was not is visited, with the dependencies it has.
LEMMA VisitingNext ==
  ASSUME NEW ps, HasNoCircle(ps), NEW v, NEW w, AreVisits(ps, v, w), v # <<>>, Last(v).left # <<>>,
         Coming(v) \notin Range(w)
  PROVE  AreVisits(ps, Append(Rest(v), AVisit(Coming(v), Dependencies(ps, Coming(v)))), w)
<1> DEFINE n == Len(ps)
           m == Len(v)
           r == Rest(v)
           c == Coming(v)
           x == AVisit(c, Dependencies(ps, c))
           t == Append(r, x)
<1>1. n \in Nat /\ n = Len(ps) /\ v \in Seq(VisitsOf(n)) /\ ps \in Seq(APlugin)
  BY DEF HasNoCircle, AreVisits
<1>2. m \in Nat /\ m \in 1..m /\ m = Len(v) /\ 1 \in 1..m
  BY <1>1
<1> HIDE DEF n, m
<1>3. /\ r \in Seq(VisitsOf(n)) /\ Len(r) = m /\ c \in 1..n
      /\ \A k \in 1..m : r[k].plugin = v[k].plugin
      /\ \A k \in 1..m : \A d : d \in Range(r[k].left) => d \in Range(v[k].left)
      /\ \A k \in 1..m : \A d :
           d \in Range(v[k].left) => d \in Range(r[k].left) \/ (k = m /\ d = c)
  <2>1. r \in Seq(VisitsOf(n)) /\ Len(r) = m /\ c \in 1..n
    BY <1>1, <1>2, RestIs
  <2>2. \A k \in 1..m : r[k].plugin = v[k].plugin
    BY <1>1, <1>2, RestIs
  <2>3. \A k \in 1..m : \A d : d \in Range(r[k].left) => d \in Range(v[k].left)
    BY <1>1, <1>2, RestIs
  <2>4. \A k \in 1..m : \A d :
          d \in Range(v[k].left) => d \in Range(r[k].left) \/ (k = m /\ d = c)
    <3>1. \A k \in 1..Len(v) : \A d :
            d \in Range(v[k].left) => d \in Range(r[k].left) \/ (k = Len(v) /\ d = c)
      BY <1>1, RestIs, Zenon
    <3> QED BY <1>2, <3>1, Zenon
  <2> QED BY <2>1, <2>2, <2>3, <2>4
<1>4. /\ \A k \in 1..m : RankAt(ps, c) < RankAt(ps, v[k].plugin)
      /\ c \notin Range(w)
  BY <1>2, ComingIsNew
<1> HIDE DEF r, c
<1>5. /\ Dependencies(ps, c) \in Seq(1..n)
      /\ \A i : i \in Range(Dependencies(ps, c)) <=> i \in 1..n /\ Needs(ps[c], ps[i])
  BY <1>1, <1>3, DependenciesAre
<1>6. x \in VisitsOf(n) /\ x.plugin = c /\ x.left = Dependencies(ps, c)
  BY <1>1, <1>3, <1>5 DEF AVisit, VisitsOf
<1> HIDE DEF x
<1>7. /\ t \in Seq(VisitsOf(n)) /\ Len(t) = m + 1
      /\ \A k \in 1..m : t[k] = r[k]
      /\ t[m + 1] = x
  BY <1>3, <1>6, AppendProperties
<1> HIDE DEF t
<1>8. c # 0
  BY <1>1, <1>3
<1>9. \A k \in 1..(m + 1) : k \in 1..m \/ k = m + 1
  BY <1>2
<1>10. t[1].plugin = 0
  BY <1>2, <1>3, <1>7 DEF AreVisits
<1>11. \A k \in 1..(m + 1) : t[k].plugin \notin Range(w)
  <2>1. \A k \in 1..m : v[k].plugin \notin Range(w)
    BY <1>2 DEF AreVisits
  <2> QED BY <1>3, <1>4, <1>6, <1>7, <1>9, <2>1
<1>12. ASSUME NEW k \in 1..(m + 1), NEW l \in 1..(m + 1), k < l
       PROVE  RankAt(ps, t[l].plugin) < RankAt(ps, t[k].plugin)
  <2>1. k \in 1..m
    BY <1>2, <1>12
  <2>2. CASE l \in 1..m
    <3>1. RankAt(ps, v[l].plugin) < RankAt(ps, v[k].plugin)
      BY <1>2, <1>12, <2>1, <2>2 DEF AreVisits
    <3> QED BY <1>3, <1>7, <2>1, <2>2, <3>1
  <2>3. CASE l = m + 1
    BY <1>3, <1>4, <1>6, <1>7, <2>1, <2>3
  <2> QED BY <1>9, <2>2, <2>3
<1>13. ASSUME NEW k \in 1..(m + 1), NEW d \in 1..n, d \in Range(t[k].left)
       PROVE  Wants(ps, t[k].plugin, d)
  <2>1. CASE k \in 1..m
    <3>1. d \in Range(v[k].left) => Wants(ps, v[k].plugin, d)
      BY <1>1, <1>2, <2>1 DEF AreVisits
    <3> QED BY <1>3, <1>7, <1>13, <2>1, <3>1
  <2>2. CASE k = m + 1
    BY <1>5, <1>6, <1>7, <1>13, <2>2 DEF Wants
  <2> QED BY <1>9, <2>1, <2>2
<1>14. ASSUME NEW k \in 1..(m + 1), NEW d \in 1..n, Wants(ps, t[k].plugin, d)
       PROVE  \/ d \in Range(t[k].left) \/ d \in Range(w)
              \/ k < m + 1 /\ d = t[k + 1].plugin
  <2>1. CASE k \in 1..m
    <3>1. \/ d \in Range(v[k].left) \/ d \in Range(w)
          \/ k < m /\ d = v[k + 1].plugin
      <4>1. Wants(ps, v[k].plugin, d)
        BY <1>3, <1>7, <1>14, <2>1
      <4> QED BY <1>1, <1>2, <2>1, <4>1 DEF AreVisits
    <3>2. (k < m => k + 1 \in 1..m) /\ k < m + 1
      BY <1>2, <2>1
    <3>3. CASE d \in Range(v[k].left)
      BY <1>3, <1>6, <1>7, <2>1, <3>2, <3>3
    <3>4. CASE k < m /\ d = v[k + 1].plugin
      BY <1>3, <1>7, <3>2, <3>4
    <3> QED BY <3>1, <3>3, <3>4
  <2>2. CASE k = m + 1
    BY <1>5, <1>6, <1>7, <1>8, <1>14, <2>2 DEF Wants
  <2> QED BY <1>9, <2>1, <2>2
<1>15. \A k \in 1..Len(w), d \in 1..n : Needs(ps[w[k]], ps[d]) => d \in Range(w)
  BY <1>1 DEF AreVisits
<1> QED BY <1>1, <1>7, <1>10, <1>11, <1>12, <1>13, <1>14, <1>15 DEF r, c, x, t, AreVisits

\* A visit ends: all that the plugin comes after are sorted, so it comes behind them.
LEMMA VisitingEnds ==
  ASSUME NEW ps, HasNoCircle(ps), NEW v, NEW w, AreSorted(ps, w), AreVisits(ps, v, w), v # <<>>,
         Last(v).left = <<>>, Last(v).plugin # 0
  PROVE  /\ AreSorted(ps, Append(w, Last(v).plugin))
         /\ AreVisits(ps, Front(v), Append(w, Last(v).plugin))
         /\ Front(v) # <<>>
<1> DEFINE n == Len(ps)
           m == Len(v)
           f == Front(v)
           p == Last(v).plugin
           z == Len(w)
           a == Append(w, p)
<1>1. n \in Nat /\ n = Len(ps) /\ v \in Seq(VisitsOf(n)) /\ ps \in Seq(APlugin)
  BY DEF HasNoCircle, AreVisits
<1>2. m \in Nat /\ m \in 1..m /\ m = Len(v) /\ 1 \in 1..m
  BY <1>1
<1>3. w \in Seq(1..n) /\ z \in Nat /\ z = Len(w)
  BY DEF AreSorted
<1> HIDE DEF n, m, z
<1>4. v[m] \in VisitsOf(n) /\ p = v[m].plugin /\ v[m].left = <<>>
  BY <1>1, <1>2 DEF Last
<1>5. p \in 1..n
  <2>1. p \in 0..n
    BY <1>4 DEF VisitsOf
  <2> QED BY <1>1, <2>1
<1> HIDE DEF p
<1>6. m # 1 /\ m - 1 \in 1..m
  <2>1. v[1].plugin = 0
    BY DEF AreVisits
  <2> QED BY <1>2, <1>4, <1>5, <2>1, <1>1
<1>7. /\ f \in Seq(VisitsOf(n)) /\ Len(f) = m - 1
      /\ \A k \in 1..(m - 1) : f[k] = v[k]
  BY <1>1, <1>2, FrontIs
<1>8. a \in Seq(1..n) /\ Len(a) = z + 1 /\ (\A k \in 1..z : a[k] = w[k]) /\ a[z + 1] = p
  BY <1>3, <1>5, AppendProperties
<1>9. Range(a) = Range(w) \cup {p}
  <2> DEFINE S == 1..n
  <2>1. w \in Seq(S) /\ p \in S
    BY <1>3, <1>5
  <2> HIDE DEF S
  <2>2. Range(Append(w, p)) = Range(w) \cup {p}
    BY <2>1, AppendedRange
  <2> QED BY <2>2
<1> HIDE DEF f, a
<1>10. p \notin Range(w)
  BY <1>2, <1>4 DEF AreVisits
<1>11. \A d \in 1..n : Needs(ps[p], ps[d]) => d \in Range(w)
  <2>1. Range(<<>>) = {}
    BY SmallRanges
  <2>2. ~(m < m)
    BY <1>2
  <2> QED BY <1>1, <1>2, <1>4, <2>1, <2>2 DEF AreVisits, Wants
<1>12. \A k \in 1..z : w[k] \in Range(w) /\ w[k] \in 1..n
  BY <1>3, RangeIs
<1>13. \A k \in 1..(z + 1) : k \in 1..z \/ k = z + 1
  BY <1>3
<1>14. AreDistinct(a)
  <2> SUFFICES ASSUME NEW k \in 1..(z + 1), NEW l \in 1..(z + 1), k < l PROVE a[k] # a[l]
    BY <1>8 DEF AreDistinct
  <2>1. k \in 1..z
    BY <1>3
  <2>2. CASE l \in 1..z
    BY <1>3, <1>8, <2>1, <2>2 DEF AreSorted, AreDistinct
  <2>3. CASE l = z + 1
    BY <1>8, <1>10, <1>12, <2>1, <2>3
  <2> QED BY <1>13, <2>2, <2>3
<1>15. ASSUME NEW k \in 1..(z + 1), NEW l \in 1..(z + 1), k <= l PROVE ~Needs(ps[a[k]], ps[a[l]])
  <2>1. CASE l \in 1..z
    <3>1. k \in 1..z
      BY <1>3, <1>15, <2>1
    <3> QED BY <1>3, <1>8, <1>15, <2>1, <3>1 DEF AreSorted
  <2>2. CASE l = z + 1
    <3>1. CASE k \in 1..z
      <4>1. Needs(ps[w[k]], ps[p]) => p \in Range(w)
        BY <1>1, <1>3, <1>5, <3>1 DEF AreVisits
      <4> QED BY <1>8, <1>10, <2>2, <3>1, <4>1
    <3>2. CASE k = z + 1
      BY <1>5, <1>8, <1>10, <1>11, <2>2, <3>2
    <3> QED BY <1>13, <3>1, <3>2
  <2> QED BY <1>13, <2>1, <2>2
<1>16. AreSorted(ps, a)
  BY <1>1, <1>8, <1>14, <1>15 DEF AreSorted
<1>17. \A k \in 1..(m - 1) : k \in 1..m /\ k < m
  BY <1>2
<1>18. f[1].plugin = 0
  <2>1. 1 \in 1..(m - 1)
    BY <1>2, <1>6
  <2> QED BY <1>7, <2>1 DEF AreVisits
<1>19. \A k \in 1..(m - 1) : f[k].plugin \notin Range(a)
  <2>1. \A k \in 1..(m - 1) : v[k].plugin \notin Range(w)
    BY <1>2, <1>17 DEF AreVisits
  <2>2. \A k \in 1..(m - 1) : RankAt(ps, p) < RankAt(ps, v[k].plugin)
    BY <1>2, <1>4, <1>17 DEF AreVisits
  <2>3. RankAt(ps, p) \in Nat
    BY RankAtType
  <2>4. \A k \in 1..(m - 1) : v[k].plugin # p
    BY <2>2, <2>3
  <2> QED BY <1>7, <1>9, <2>1, <2>4
<1>20. \A k, l \in 1..(m - 1) : k < l => RankAt(ps, f[l].plugin) < RankAt(ps, f[k].plugin)
  BY <1>2, <1>7, <1>17 DEF AreVisits
<1>21. \A k \in 1..(m - 1), d \in 1..n : d \in Range(f[k].left) => Wants(ps, f[k].plugin, d)
  BY <1>1, <1>2, <1>7, <1>17 DEF AreVisits
<1>22. ASSUME NEW k \in 1..(m - 1), NEW d \in 1..n, Wants(ps, f[k].plugin, d)
       PROVE  \/ d \in Range(f[k].left) \/ d \in Range(a)
              \/ k < m - 1 /\ d = f[k + 1].plugin
  <2>1. \/ d \in Range(v[k].left) \/ d \in Range(w)
        \/ k < m /\ d = v[k + 1].plugin
    BY <1>1, <1>2, <1>7, <1>17, <1>22 DEF AreVisits
  <2>2. CASE k = m - 1
    <3>1. k + 1 = m
      BY <1>2, <2>2
    <3> QED BY <1>4, <1>7, <1>9, <2>1, <3>1
  <2>3. CASE k # m - 1
    <3>1. k < m - 1 /\ k + 1 \in 1..(m - 1)
      BY <1>2, <2>3
    <3> QED BY <1>7, <1>9, <2>1, <3>1
  <2> QED BY <2>2, <2>3
<1>23. \A k \in 1..(z + 1), d \in 1..n : Needs(ps[a[k]], ps[d]) => d \in Range(a)
  <2>1. \A k \in 1..z, d \in 1..n : Needs(ps[w[k]], ps[d]) => d \in Range(w)
    BY <1>1, <1>3 DEF AreVisits
  <2> QED BY <1>8, <1>9, <1>11, <1>13, <2>1
<1>24. f # <<>>
  BY <1>2, <1>6, <1>7
<1> QED BY <1>1, <1>7, <1>8, <1>16, <1>18, <1>19, <1>20, <1>21, <1>22, <1>23, <1>24 DEF f, a, p, AreVisits

LEMMA OrderableHasNoCircle == ASSUME NEW ps, AreOrderable(ps, Stated(ps)) PROVE HasNoCircle(ps)
BY DEF AreOrderable, HasNoCircle

\* The loop ends: all plugins are sorted, once each.
LEMMA AllAreSorted ==
  ASSUME NEW ps, HasNoCircle(ps), NEW v, NEW w, AreSorted(ps, w), AreVisits(ps, v, w), v # <<>>,
         Last(v).left = <<>>, Last(v).plugin = 0
  PROVE  Front(v) = <<>> /\ Len(w) = Len(ps)
<1> DEFINE n == Len(ps)
           m == Len(v)
           z == Len(w)
           S == 1..n
<1>1. n \in Nat /\ n = Len(ps) /\ v \in Seq(VisitsOf(n))
  BY DEF HasNoCircle, AreVisits
<1>2. m \in Nat /\ m \in 1..m /\ m = Len(v) /\ 1 \in 1..m
  BY <1>1
<1>3. w \in Seq(S) /\ z \in Nat /\ z = Len(w)
  BY DEF AreSorted
<1> HIDE DEF n, m, z
<1>4. v[m].plugin = 0 /\ v[m].left = <<>>
  BY <1>2 DEF Last
<1>5. m = 1
  <2>1. SUFFICES ASSUME m # 1 PROVE FALSE
    OBVIOUS
  <2>2. 1 < m /\ v[1].plugin = 0
    BY <1>2, <2>1 DEF AreVisits
  <2>3. RankAt(ps, v[m].plugin) < RankAt(ps, v[1].plugin)
    BY <1>2, <2>2 DEF AreVisits
  <2>4. RankAt(ps, 0) < RankAt(ps, 0) /\ RankAt(ps, 0) \in Nat
    BY <1>4, <2>2, <2>3, RankAtType
  <2> QED BY <2>4
<1>6. Front(v) = <<>>
  <2>1. Front(v) \in Seq(VisitsOf(n)) /\ Len(Front(v)) = Len(v) - 1
    BY <1>1, FrontIs, Zenon
  <2>2. Len(v) = 1
    BY <1>2, <1>5
  <2>3. Len(Front(v)) = 1 - 1
    BY <2>1, <2>2, Zenon
  <2>4. Len(Front(v)) = 0
    BY <2>3
  <2> QED BY <2>1, <2>4, EmptySeq
<1>7. \A d \in 1..n : d \in Range(w)
  <2>1. Range(<<>>) = {}
    BY SmallRanges
  <2>2. ~(m < m)
    BY <1>2
  <2> QED BY <1>1, <1>2, <1>4, <2>1, <2>2 DEF AreVisits, Wants
<1>8. IsFiniteSet(S) /\ Cardinality(S) = n /\ Cardinality(1..z) = z
  <2>1. \A a \in Nat : IsFiniteSet(1..a) /\ Cardinality(1..a) = a
    BY FS_Interval
  <2> QED BY <1>1, <1>3, <2>1, Zenon
<1> HIDE DEF S
<1>9. \A d \in S : \E k \in 1..z : w[k] = d
  <2>1. \A d \in S : d \in Range(w)
    BY <1>7 DEF S
  <2> QED BY <1>3, <2>1, RangeIs
<1>10. w \in [1..z -> S]
  BY <1>3
<1>11. \A k, l \in 1..z : k # l => w[k] # w[l]
  <2>1. \A k, l \in 1..z : k < l => w[k] # w[l]
    BY <1>3 DEF AreSorted, AreDistinct
  <2>2. \A k, l \in 1..z : k # l => k < l \/ l < k
    BY <1>3
  <2> QED BY <2>1, <2>2
<1>12. w \in Injection(1..z, S) /\ w \in Surjection(1..z, S)
  BY <1>9, <1>10, <1>11 DEF Injection, Surjection, IsInjective
<1>13. Cardinality(1..z) = Cardinality(S)
  BY <1>8, <1>12, FS_Injection
<1> QED BY <1>6, <1>8, <1>13 DEF n, z

\* The interceptors so far, and which plugins are still to come: none that one of them
\* comes after.
IsChain(ps, ch, w) ==
  /\ ch \in Seq(Names \cup {"user"})
  /\ Len(ch) + Len(w) = Len(ps) + 1
  /\ \A j \in 1..Len(ch) :
       \/ ch[j] = "user"
       \/ \E i \in 1..Len(ps) : ch[j] = ps[i].name /\ \A k \in 1..Len(w) : ~Needs(ps[i], ps[w[k]])
  /\ \A i, j \in 1..Len(ch) : i <= j => <<ch[j], ch[i]>> \notin Stated(ps)

LEMMA ChainStarts ==
  ASSUME NEW ps \in Seq(APlugin), AreOrderable(ps, Stated(ps)), NEW w, Len(w) = Len(ps)
  PROVE  IsChain(ps, <<"user">>, w)
<1> DEFINE u == <<"user">>
<1>1. "user" \in Names \cup {"user"}
  OBVIOUS
<1>2. u \in Seq(Names \cup {"user"}) /\ Len(u) = 1 /\ u[1] = "user"
  BY <1>1, SingletonSeq
<1>3. 1..1 = {1} /\ Len(ps) \in Nat
  OBVIOUS
<1>4. <<"user", "user">> \notin Stated(ps)
  BY DEF AreOrderable
<1> HIDE DEF u
<1>5. IsChain(ps, u, w)
  BY <1>2, <1>3, <1>4 DEF IsChain
<1> QED BY <1>5 DEF u

\* A plugin that no one in the chain comes after puts its interceptors in front or behind.
LEMMA InFront ==
  ASSUME NEW ps, AreOrderable(ps, Stated(ps)), NEW p \in Range(ps), NEW i \in 1..Len(ps),
         ~Needs(ps[i], p)
  PROVE  /\ p.place = "front" => <<ps[i].name, p.name>> \notin Stated(ps)
         /\ p.place = "back" => <<p.name, ps[i].name>> \notin Stated(ps)
<1>1. PICK j \in 1..Len(ps) : p = ps[j]
  BY RangeIs DEF AreOrderable
<1>2. <<ps[i].name, p.name>> \in Stated(ps) => Nests(ps[i], p)
  BY <1>1 DEF AreOrderable
<1>3. <<p.name, ps[i].name>> \in Stated(ps) => Nests(p, ps[i])
  BY <1>1 DEF AreOrderable
<1> QED BY <1>2, <1>3 DEF Nests

LEMMA InitializingOne ==
  ASSUME NEW ps, AreOrderable(ps, Stated(ps)), NEW w, AreSorted(ps, w), w # <<>>,
         NEW ch, IsChain(ps, ch, w)
  PROVE  LET p == ps[Head(w)]
         IN  /\ AreSorted(ps, Tail(w))
             /\ IsChain(ps, IF p.place = "front" THEN <<p.name>> \o ch ELSE Append(ch, p.name), Tail(w))
<1> DEFINE n == Len(ps)
           z == Len(w)
           c == Len(ch)
           t == Tail(w)
           h == Head(w)
           p == ps[h]
           N == Names \cup {"user"}
           St == Stated(ps)
<1>1. n \in Nat /\ n = Len(ps) /\ ps \in Seq(APlugin)
  BY DEF AreOrderable
<1>2. w \in Seq(1..n) /\ z \in Nat /\ z = Len(w) /\ z # 0 /\ 1 \in 1..z
  BY <1>1 DEF AreSorted
<1>3. ch \in Seq(N) /\ c \in Nat /\ c = Len(ch) /\ c + z = n + 1
  BY DEF IsChain
<1> HIDE DEF n, z, c, N
<1>4. /\ h \in 1..n /\ h = w[1] /\ t \in Seq(1..n) /\ Len(t) = z - 1
      /\ \A k \in 1..(z - 1) : t[k] = w[k + 1] /\ k + 1 \in 1..z /\ 1 < k + 1
  BY <1>1, <1>2
<1> HIDE DEF t, h
<1>5. p \in APlugin /\ p \in Range(ps) /\ p.name \in N
  <2>1. p \in APlugin
    BY <1>1, <1>4
  <2>2. p \in Range(ps)
    BY <1>1, <1>4, RangeIs, Zenon
  <2> QED BY <2>1, <2>2 DEF APlugin, N
<1>6. AreSorted(ps, t)
  <2>1. ASSUME NEW k \in 1..(z - 1), NEW l \in 1..(z - 1), k < l PROVE t[k] # t[l]
    <3>1. k + 1 < l + 1
      BY <2>1
    <3> QED BY <1>2, <1>4, <3>1 DEF AreSorted, AreDistinct
  <2>2. ASSUME NEW k \in 1..(z - 1), NEW l \in 1..(z - 1), k <= l PROVE ~Needs(ps[t[k]], ps[t[l]])
    <3>1. k + 1 <= l + 1
      BY <2>2
    <3> QED BY <1>2, <1>4, <3>1 DEF AreSorted
  <2> QED BY <1>1, <1>4, <2>1, <2>2 DEF AreSorted, AreDistinct
\* No one comes after p that is in the chain, and p comes after none to come.
<1>7. \A k \in 1..(z - 1) : ~Needs(p, ps[t[k]])
  <2>1. \A k \in 1..z : 1 <= k => ~Needs(ps[w[1]], ps[w[k]])
    BY <1>2 DEF AreSorted
  <2> QED BY <1>4, <2>1
<1>8. \A j \in 1..c : \/ ch[j] = "user"
                     \/ \E i \in 1..n : /\ ch[j] = ps[i].name /\ ~Needs(ps[i], p)
                                       /\ \A k \in 1..(z - 1) : ~Needs(ps[i], ps[t[k]])
  <2> SUFFICES ASSUME NEW j \in 1..c, ch[j] # "user"
               PROVE  \E i \in 1..n : /\ ch[j] = ps[i].name /\ ~Needs(ps[i], p)
                                      /\ \A k \in 1..(z - 1) : ~Needs(ps[i], ps[t[k]])
    OBVIOUS
  <2>1. PICK i \in 1..n : ch[j] = ps[i].name /\ \A k \in 1..z : ~Needs(ps[i], ps[w[k]])
    BY <1>1, <1>2, <1>3 DEF IsChain
  <2> QED BY <1>2, <1>4, <2>1
<1>9. ASSUME NEW j \in 1..c
      PROVE  /\ p.place = "front" => <<ch[j], p.name>> \notin St
             /\ p.place = "back" => <<p.name, ch[j]>> \notin St
  <2>1. CASE ch[j] = "user"
    <3>1. <<p.name, "user">> \in St => p.place = "front"
      BY <1>1, <1>4 DEF AreOrderable
    <3>2. <<"user", p.name>> \notin St
      BY DEF AreOrderable
    <3> QED BY <2>1, <3>1, <3>2
  <2>2. CASE ch[j] # "user"
    <3>1. PICK i \in 1..n : ch[j] = ps[i].name /\ ~Needs(ps[i], p)
      BY <1>8, <2>2
    <3> QED BY <1>1, <1>5, <3>1, InFront
  <2> QED BY <2>1, <2>2
<1>10. <<p.name, p.name>> \notin St
  <2>1. <<p.name, p.name>> \in St => Nests(p, p)
    BY <1>1, <1>4 DEF AreOrderable
  <2>2. Needs(p, p) => Rank(p.name) < Rank(p.name)
    BY <1>1, <1>4 DEF AreOrderable
  <2>3. Rank(p.name) \in Nat
    BY RankType
  <2>4. ~Needs(p, p)
    BY <2>2, <2>3
  <2> QED BY <2>1, <2>4 DEF Nests
<1>11. \A i, j \in 1..c : i <= j => <<ch[j], ch[i]>> \notin St
  BY <1>3 DEF IsChain
<1> HIDE DEF p, St
<1>12. CASE p.place = "front"
  <2> DEFINE new == <<p.name>> \o ch
  <2>0. <<p.name>> \in Seq(N) /\ Len(<<p.name>>) = 1 /\ <<p.name>>[1] = p.name
    BY <1>5
  <2>1. PICK o \in Seq(N) : o = <<p.name>> /\ Len(o) = 1 /\ o[1] = p.name
    BY <2>0
  <2>2. /\ o \o ch \in Seq(N) /\ Len(o \o ch) = 1 + c /\ (o \o ch)[1] = p.name
        /\ \A j \in 2..(1 + c) : (o \o ch)[j] = ch[j - 1]
    BY <1>3, <2>1, ConcatProperties
  <2>3. /\ new \in Seq(N) /\ Len(new) = 1 + c /\ new[1] = p.name
        /\ \A j \in 2..(1 + c) : new[j] = ch[j - 1]
    BY <2>1, <2>2
  <2> HIDE DEF new
  <2>4. \A j \in 1..(1 + c) : j = 1 \/ (j \in 2..(1 + c) /\ j - 1 \in 1..c)
    BY <1>3
  <2>5. ASSUME NEW j \in 1..(1 + c)
        PROVE  \/ new[j] = "user"
               \/ \E i \in 1..n : new[j] = ps[i].name /\ \A k \in 1..(z - 1) : ~Needs(ps[i], ps[t[k]])
    <3>1. CASE j = 1
      BY <1>4, <1>7, <2>3, <3>1 DEF p
    <3>2. CASE j # 1
      BY <1>8, <2>3, <2>4, <3>2
    <3> QED BY <3>1, <3>2
  <2>6. ASSUME NEW i \in 1..(1 + c), NEW j \in 1..(1 + c), i <= j
        PROVE  <<new[j], new[i]>> \notin St
    <3>1. CASE j = 1
      <4>1. i = 1
        BY <2>6, <3>1
      <4> QED BY <1>10, <2>3, <3>1, <4>1
    <3>2. CASE j # 1 /\ i = 1
      BY <1>9, <1>12, <2>3, <2>4, <3>2
    <3>3. CASE j # 1 /\ i # 1
      <4>1. i - 1 <= j - 1
        BY <2>6
      <4> QED BY <1>11, <2>3, <2>4, <3>3, <4>1
    <3> QED BY <3>1, <3>2, <3>3
  <2>7. Len(new) + Len(t) = n + 1
    BY <1>2, <1>3, <1>4, <2>3
  <2>8. IsChain(ps, new, t)
    BY <1>1, <1>4, <2>3, <2>5, <2>6, <2>7 DEF IsChain, N, St
  <2> QED BY <1>6, <1>12, <2>8 DEF new, p, t, h
<1>13. CASE p.place # "front"
  <2> DEFINE new == Append(ch, p.name)
  <2>1. p.place = "back"
    BY <1>5, <1>13 DEF APlugin
  <2>2. /\ new \in Seq(N) /\ Len(new) = c + 1 /\ new[c + 1] = p.name
        /\ \A j \in 1..c : new[j] = ch[j]
    BY <1>3, <1>5, AppendProperties
  <2> HIDE DEF new
  <2>3. \A j \in 1..(c + 1) : j = c + 1 \/ j \in 1..c
    BY <1>3
  <2>4. ASSUME NEW j \in 1..(c + 1)
        PROVE  \/ new[j] = "user"
               \/ \E i \in 1..n : new[j] = ps[i].name /\ \A k \in 1..(z - 1) : ~Needs(ps[i], ps[t[k]])
    <3>1. CASE j = c + 1
      BY <1>4, <1>7, <2>2, <3>1 DEF p
    <3>2. CASE j \in 1..c
      BY <1>8, <2>2, <3>2
    <3> QED BY <2>3, <3>1, <3>2
  <2>5. ASSUME NEW i \in 1..(c + 1), NEW j \in 1..(c + 1), i <= j
        PROVE  <<new[j], new[i]>> \notin St
    <3>1. CASE i = c + 1
      <4>1. j = c + 1
        BY <1>3, <2>5, <3>1
      <4> QED BY <1>10, <2>2, <3>1, <4>1
    <3>2. CASE i \in 1..c /\ j = c + 1
      BY <1>9, <2>1, <2>2, <3>2
    <3>3. CASE i \in 1..c /\ j \in 1..c
      BY <1>11, <2>2, <2>5, <3>3
    <3> QED BY <2>3, <3>1, <3>2, <3>3
  <2>6. Len(new) + Len(t) = n + 1
    BY <1>2, <1>3, <1>4, <2>2
  <2>7. IsChain(ps, new, t)
    BY <1>1, <1>4, <2>2, <2>4, <2>5, <2>6 DEF IsChain, N, St
  <2> QED BY <1>6, <1>13, <2>7 DEF new, p, t, h
<1> QED BY <1>12, <1>13

\* What has been sorted is in order and, until the loop ends, awaits no one; from then on
\* the plugins that are initialised nest as stated, and no one of them comes after one that
\* is still to come.
PluginOrderInv ==
  /\ AreOrderable(given, Stated(given))
  /\ AreSorted(given, waiting)
  /\ visits # <<>> => AreVisits(given, visits, waiting) /\ chain = <<"user">>
  /\ visits = <<>> => IsChain(given, chain, waiting)

LEMMA SortingStartsRight ==
  ASSUME NEW ps, AreOrderable(ps, Stated(ps)), SortingStarts(ps)
  PROVE  PluginOrderInv
<1> DEFINE n == Len(ps)
           l == [i \in 1..n |-> i]
           x == AVisit(0, l)
           v == <<x>>
<1>1. n \in Nat /\ n = Len(ps) /\ ps \in Seq(APlugin)
  BY DEF AreOrderable
<1> HIDE DEF n
<1>2. l \in Seq(1..n) /\ \A d \in 1..n : d \in Range(l)
  <2>1. l \in Seq(1..n) /\ Len(l) = n /\ \A d \in 1..n : l[d] = d
    BY <1>1
  <2> HIDE DEF l
  <2>2. \A d : d \in Range(l) <=> \E k \in 1..Len(l) : l[k] = d
    BY <2>1, RangeIs, Zenon
  <2> QED BY <2>1, <2>2
<1> HIDE DEF l
<1>3. x \in VisitsOf(n) /\ x.plugin = 0 /\ x.left = l
  BY <1>1, <1>2 DEF AVisit, VisitsOf
<1> HIDE DEF x
<1>4. v \in Seq(VisitsOf(n)) /\ Len(v) = 1 /\ v[1] = x /\ v # <<>>
  BY <1>3
<1> HIDE DEF v
<1>5. Range(<<>>) = {} /\ Len(<<>>) = 0 /\ <<>> \in Seq(1..n) /\ 1..0 = {} /\ 1..1 = {1}
  BY SmallRanges
<1>6. AreSorted(ps, <<>>)
  BY <1>1, <1>5 DEF AreSorted, AreDistinct
<1>7. AreVisits(ps, v, <<>>)
  <2>1. \A k, m \in 1..1 : ~(k < m)
    OBVIOUS
  <2>2. v[1].plugin = 0 /\ v[1].left = l
    BY <1>3, <1>4
  <2>3. \A d : Wants(ps, 0, d)
    BY DEF Wants
  <2> QED BY <1>1, <1>2, <1>4, <1>5, <2>1, <2>2, <2>3 DEF AreVisits
<1>8. given = ps /\ visits = v /\ waiting = <<>> /\ chain = <<"user">>
  BY DEF SortingStarts, v, x, l, n
<1> QED BY <1>4, <1>6, <1>7, <1>8 DEF PluginOrderInv

\* A circle is never met: the next to visit comes before all that are visited right now.
LEMMA VisitKeepsOrder ==
  ASSUME PluginOrderInv, Visit
  PROVE  PluginOrderInv'
<1> DEFINE c == Coming(visits)
           new == Append(Rest(visits), AVisit(c, Dependencies(given, c)))
<1>1. /\ AreSorted(given, waiting) /\ AreVisits(given, visits, waiting) /\ HasNoCircle(given)
      /\ visits # <<>> /\ Last(visits).left # <<>> /\ chain = <<"user">>
  BY OrderableHasNoCircle DEF PluginOrderInv, Visit
<1>2. ~\E k \in 1..Len(visits) : visits[k].plugin = c
  BY <1>1, ComingIsNew
<1>3. /\ c \in Range(waiting) => visits' = Rest(visits)
      /\ c \notin Range(waiting) => visits' = new
      /\ waiting' = waiting /\ given' = given /\ chain' = chain
  BY <1>2 DEF Visit, Coming, Rest
<1>4. visits' # <<>>
  <2>1. Len(given) \in Nat /\ visits \in Seq(VisitsOf(Len(given)))
    BY <1>1 DEF HasNoCircle, AreVisits
  <2>2. /\ Rest(visits) \in Seq(VisitsOf(Len(given))) /\ Len(Rest(visits)) = Len(visits)
        /\ Len(visits) # 0
    BY <1>1, <2>1, RestIs, EmptySeq
  <2>3. Rest(visits) # <<>>
    BY <2>2
  <2>4. c \in 1..Len(given)
    BY <1>1, <2>1, RestIs
  <2>5. AVisit(c, Dependencies(given, c)) \in VisitsOf(Len(given))
    <3>1. Dependencies(given, c) \in Seq(1..Len(given))
      BY <1>1, <2>4, DependenciesAre DEF HasNoCircle
    <3> QED BY <2>1, <2>4, <3>1 DEF AVisit, VisitsOf
  <2>6. new # <<>>
    BY <2>2, <2>5, AppendProperties
  <2> QED BY <1>3, <2>3, <2>6
<1>5. AreVisits(given, visits', waiting)
  <2>1. CASE c \in Range(waiting)
    BY <1>1, <1>3, <2>1, PassingOver
  <2>2. CASE c \notin Range(waiting)
    BY <1>1, <1>3, <2>2, VisitingNext
  <2> QED BY <2>1, <2>2
<1> QED BY <1>1, <1>3, <1>4, <1>5 DEF PluginOrderInv

LEMMA EndVisitKeepsOrder ==
  ASSUME PluginOrderInv, EndVisit
  PROVE  PluginOrderInv'
<1>1. /\ AreSorted(given, waiting) /\ AreVisits(given, visits, waiting) /\ HasNoCircle(given)
      /\ visits # <<>> /\ Last(visits).left = <<>> /\ chain = <<"user">>
      /\ AreOrderable(given, Stated(given))
  BY OrderableHasNoCircle DEF PluginOrderInv, EndVisit
<1>2. visits' = Front(visits) /\ given' = given /\ chain' = chain
  BY DEF EndVisit
<1>3. CASE Last(visits).plugin = 0
  <2>1. waiting' = waiting
    BY <1>3 DEF EndVisit
  <2>2. visits' = <<>> /\ Len(waiting) = Len(given)
    BY <1>1, <1>2, <1>3, AllAreSorted
  <2>3. given \in Seq(APlugin)
    BY <1>1 DEF HasNoCircle
  <2>4. IsChain(given, <<"user">>, waiting)
    BY <1>1, <2>2, <2>3, ChainStarts
  <2> QED BY <1>1, <1>2, <2>1, <2>2, <2>4 DEF PluginOrderInv
<1>4. CASE Last(visits).plugin # 0
  <2>1. waiting' = Append(waiting, Last(visits).plugin)
    BY <1>4 DEF EndVisit
  <2>2. AreSorted(given, waiting') /\ AreVisits(given, visits', waiting') /\ visits' # <<>>
    BY <1>1, <1>2, <1>4, <2>1, VisitingEnds
  <2> QED BY <1>1, <1>2, <2>2 DEF PluginOrderInv
<1> QED BY <1>3, <1>4

LEMMA InitPluginKeepsOrder ==
  ASSUME PluginOrderInv, InitPlugin
  PROVE  PluginOrderInv'
<1>1. /\ AreOrderable(given, Stated(given)) /\ AreSorted(given, waiting)
      /\ visits = <<>> /\ IsChain(given, chain, waiting) /\ waiting # <<>>
  BY DEF PluginOrderInv, InitPlugin
<1>2. waiting' = Tail(waiting) /\ visits' = visits /\ given' = given
  BY DEF InitPlugin
<1>3. AreSorted(given, waiting') /\ IsChain(given, chain', waiting')
  BY <1>1, <1>2, InitializingOne DEF InitPlugin
<1> QED BY <1>1, <1>2, <1>3 DEF PluginOrderInv

\* Of the plugins of a handler or of a link, however many and in whatever order they are
\* given, sortPlugins meets no circle, sorts each once, and none behind one that comes after it.
THEOREM PluginOrderInvariant == OrderSpec => []PluginOrderInv
<1>1. ASSUME OrderInit PROVE PluginOrderInv
  <2>1. PICK ps \in {<<OtelHandler>> \o l : l \in Lists(PluginsOfHandlers)} \cup Lists(PluginsOfLinks) :
          SortingStarts(ps)
    BY <1>1 DEF OrderInit
  <2>2. AreOrderable(ps, Stated(ps))
    BY GivenAreOrderable
  <2> QED BY <2>1, <2>2, SortingStartsRight
<1>2. ASSUME PluginOrderInv, [OrderNext]_pluginVars PROVE PluginOrderInv'
  <2>1. CASE UNCHANGED pluginVars
    BY <1>2, <2>1 DEF PluginOrderInv, pluginVars
  <2> QED BY <1>2, <2>1, VisitKeepsOrder, EndVisitKeepsOrder, InitPluginKeepsOrder DEF OrderNext
<1> QED BY <1>1, <1>2, PTL DEF OrderSpec

\* The plugins nest as their comments say, in whatever order the user gives them, however
\* many, also one more than once, and with whichever others between them; none is lost, and
\* none refused for a circle (sortPlugins, CompositeStandardHandlerPlugin, intercept).
THEOREM PluginsNest == OrderSpec => []PluginsNestAsStated
<1>1. PluginOrderInv => PluginsNestAsStated
  <2> SUFFICES ASSUME PluginOrderInv PROVE PluginsNestAsStated
    OBVIOUS
  <2>1. visits = <<>> => Len(chain) + Len(waiting) = Len(given) + 1
    BY DEF PluginOrderInv, IsChain
  <2>2. \A i, j \in 1..Len(chain) : <<chain[i], chain[j]>> \in Stated(given) => i < j
    <3>1. CASE visits = <<>>
      <4>1. \A i, j \in 1..Len(chain) : i <= j => <<chain[j], chain[i]>> \notin Stated(given)
        BY <3>1 DEF PluginOrderInv, IsChain
      <4>2. \A i, j \in 1..Len(chain) : i < j \/ j <= i
        <5>1. chain \in Seq(Names \cup {"user"})
          BY <3>1 DEF PluginOrderInv, IsChain
        <5> QED BY <5>1
      <4> QED BY <4>1, <4>2
    <3>2. CASE visits # <<>>
      <4>1. Len(chain) = 1 /\ chain[1] = "user"
        BY <3>2 DEF PluginOrderInv
      <4>2. <<"user", "user">> \notin Stated(given)
        BY DEF PluginOrderInv, AreOrderable
      <4> QED BY <4>1, <4>2
    <3> QED BY <3>1, <3>2
  <2>3. given # <<>> =>
          Stated(given) = Around \cup IF given[1] = OtelHandler THEN AroundInHandlers ELSE AroundInLinks
    BY DEF Stated
  <2> QED BY <2>1, <2>2, <2>3 DEF PluginsNestAsStated
<1> QED BY <1>1, PluginOrderInvariant, PTL
=============================================================================
