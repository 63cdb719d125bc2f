------------------------- MODULE AsyncIdQueueProofs -------------------------
(* The promises of AsyncIdQueue, proved for every set of ids, items and     *)
(* calls: QueueInv is inductive, and each promise follows from it.          *)
EXTENDS AsyncIdQueue, TLAPS

\* Taking the head of a sequence (queue.ts: shift) leaves a sequence whose
\* n-th element was the one after.
LEMMA TailFacts ==
  ASSUME NEW T
  PROVE  \A s \in Seq(T) : s # <<>> =>
           /\ Head(s) \in T /\ Head(s) = s[1]
           /\ Tail(s) \in Seq(T)
           /\ Len(Tail(s)) = Len(s) - 1 /\ Len(s) \in Nat /\ Len(s) >= 1
           /\ \A n \in 1..Len(s) - 1 : Tail(s)[n] = s[n + 1]
  OBVIOUS

\* Appending to a sequence (queue.ts: push) leaves the others where they were.
LEMMA AppendFacts ==
  ASSUME NEW T
  PROVE  \A s \in Seq(T), x \in T :
           /\ Append(s, x) \in Seq(T)
           /\ Len(Append(s, x)) = Len(s) + 1 /\ Len(s) \in Nat
           /\ \A n \in 1..Len(s) : Append(s, x)[n] = s[n]
           /\ Append(s, x)[Len(s) + 1] = x
  OBVIOUS

\* A push keeps an id's sequences in step (queue.ts: push).
LEMMA PushFits ==
  ASSUME NEW T, NEW C, NEW q \in Seq(T), NEW w \in Seq(C), NEW s \in Seq(T), NEW p \in Seq(C),
         NEW x \in T, Fits(q, w, s, p)
  PROVE  /\ w = <<>> => Fits(Append(q, x), w, Append(s, x), p) /\ Len(p) <= Len(s)
         /\ w # <<>> => /\ Fits(q, Tail(w), Append(s, x), p)
                        /\ Len(s) + 1 \in 1..Len(p) /\ Head(w) = p[Len(s) + 1]
<1>1. /\ Len(q) \in Nat /\ Len(w) \in Nat /\ Len(s) \in Nat /\ Len(p) \in Nat
      /\ q = <<>> => Len(q) = 0
      /\ w = <<>> => Len(w) = 0
  OBVIOUS
<1>2. CASE w = <<>>
  <2> DEFINE q1 == Append(q, x)
             s1 == Append(s, x)
  <2>1. /\ Len(q1) = Len(q) + 1 /\ q1[Len(q) + 1] = x
        /\ Len(s1) = Len(s) + 1 /\ s1[Len(s) + 1] = x
        /\ \A n \in 1..Len(q) : q1[n] = q[n]
        /\ \A n \in 1..Len(s) : s1[n] = s[n]
    BY AppendFacts
  <2> HIDE DEF q1, s1
  <2>2. Len(s) = Len(p) + Len(q)
    BY <1>1, <1>2 DEF Fits
  <2>3. ASSUME NEW n \in 1..Len(q1) PROVE q1[n] = s1[Len(p) + n]
    <3>1. CASE n = Len(q) + 1
      BY <1>1, <2>1, <2>2, <3>1
    <3>2. CASE n # Len(q) + 1
      <4>1. n \in 1..Len(q) /\ Len(p) + n \in 1..Len(s)
        BY <1>1, <2>1, <2>2, <3>2
      <4> QED  BY <2>1, <4>1 DEF Fits
    <3> QED  BY <3>1, <3>2
  <2>4. Fits(q1, w, s1, p) /\ Len(p) <= Len(s)
    BY <1>1, <1>2, <2>1, <2>2, <2>3 DEF Fits
  <2> QED  BY <1>2, <2>4 DEF q1, s1
<1>3. CASE w # <<>>
  <2> DEFINE w1 == Tail(w)
             s1 == Append(s, x)
  <2>1. /\ Len(w) >= 1 /\ Len(w1) = Len(w) - 1 /\ Head(w) = w[1]
        /\ \A n \in 1..Len(w) - 1 : w1[n] = w[n + 1]
    BY <1>3, TailFacts
  <2>2. Len(s1) = Len(s) + 1
    BY AppendFacts
  <2> HIDE DEF w1, s1
  <2>3. q = <<>> /\ Len(p) = Len(s) + Len(w)
    BY <1>1, <1>3 DEF Fits
  <2>4. ASSUME NEW n \in 1..Len(w1) PROVE w1[n] = p[Len(s1) + n]
    <3>1. w1[n] = w[n + 1] /\ n + 1 \in 1..Len(w) /\ Len(s) + (n + 1) = Len(s1) + n
      BY <1>1, <2>1, <2>2
    <3> QED  BY <3>1 DEF Fits
  <2>5. Fits(q, w1, s1, p)
    BY <1>1, <2>1, <2>2, <2>3, <2>4 DEF Fits
  <2>6. Len(s) + 1 \in 1..Len(p) /\ w[1] = p[Len(s) + 1]
    BY <1>1, <2>1, <2>3 DEF Fits
  <2> QED  BY <1>3, <2>1, <2>5, <2>6 DEF w1, s1
<1> QED  BY <1>2, <1>3

\* A pull keeps an id's sequences in step (queue.ts: pull).
LEMMA PullFits ==
  ASSUME NEW T, NEW C, NEW q \in Seq(T), NEW w \in Seq(C), NEW s \in Seq(T), NEW p \in Seq(C),
         NEW c \in C, Fits(q, w, s, p)
  PROVE  /\ q = <<>> => Fits(q, Append(w, c), s, Append(p, c)) /\ Len(p) + 1 > Len(s)
         /\ q # <<>> => /\ Fits(Tail(q), w, s, Append(p, c))
                        /\ Len(p) + 1 \in 1..Len(s) /\ Head(q) = s[Len(p) + 1]
<1>1. /\ Len(q) \in Nat /\ Len(w) \in Nat /\ Len(s) \in Nat /\ Len(p) \in Nat
      /\ q = <<>> => Len(q) = 0
      /\ w = <<>> => Len(w) = 0
  OBVIOUS
<1> DEFINE p1 == Append(p, c)
<1>2. /\ Len(p1) = Len(p) + 1 /\ p1[Len(p) + 1] = c
      /\ \A n \in 1..Len(p) : p1[n] = p[n]
  BY AppendFacts
<1> HIDE DEF p1
<1>3. CASE q = <<>>
  <2> DEFINE w1 == Append(w, c)
  <2>1. /\ Len(w1) = Len(w) + 1 /\ w1[Len(w) + 1] = c
        /\ \A n \in 1..Len(w) : w1[n] = w[n]
    BY AppendFacts
  <2> HIDE DEF w1
  <2>2. Len(p) = Len(s) + Len(w)
    BY <1>1, <1>3 DEF Fits
  <2>3. ASSUME NEW n \in 1..Len(w1) PROVE w1[n] = p1[Len(s) + n]
    <3>1. CASE n = Len(w) + 1
      BY <1>1, <1>2, <2>1, <2>2, <3>1
    <3>2. CASE n # Len(w) + 1
      <4>1. n \in 1..Len(w) /\ Len(s) + n \in 1..Len(p)
        BY <1>1, <2>1, <2>2, <3>2
      <4> QED  BY <1>2, <2>1, <4>1 DEF Fits
    <3> QED  BY <3>1, <3>2
  <2>4. Fits(q, w1, s, p1) /\ Len(p) + 1 > Len(s)
    BY <1>1, <1>2, <1>3, <2>1, <2>2, <2>3 DEF Fits
  <2> QED  BY <1>3, <2>4 DEF w1, p1
<1>4. CASE q # <<>>
  <2> DEFINE q1 == Tail(q)
  <2>1. /\ Len(q) >= 1 /\ Len(q1) = Len(q) - 1 /\ Head(q) = q[1]
        /\ \A n \in 1..Len(q) - 1 : q1[n] = q[n + 1]
    BY <1>4, TailFacts
  <2> HIDE DEF q1
  <2>2. w = <<>> /\ Len(s) = Len(p) + Len(q)
    BY <1>1, <1>4 DEF Fits
  <2>3. ASSUME NEW n \in 1..Len(q1) PROVE q1[n] = s[Len(p1) + n]
    <3>1. q1[n] = q[n + 1] /\ n + 1 \in 1..Len(q) /\ Len(p) + (n + 1) = Len(p1) + n
      BY <1>1, <1>2, <2>1
    <3> QED  BY <3>1 DEF Fits
  <2>4. Fits(q1, w, s, p1)
    BY <1>1, <1>2, <2>1, <2>2, <2>3 DEF Fits
  <2>5. Len(p) + 1 \in 1..Len(s) /\ q[1] = s[Len(p) + 1]
    BY <1>1, <2>1, <2>2 DEF Fits
  <2> QED  BY <1>4, <2>1, <2>4, <2>5 DEF q1, p1
<1> QED  BY <1>3, <1>4

\* A queue starts with nothing open (queue.ts: the field initialisers).
LEMMA InitInv == QueueInit => QueueInv
  BY DEF QueueInit, QueueInv, QueueTypeOK, Status, Fits, DistinctPulls,
         ClosedForgets, NthPullGetsNthItem, WaitingIsRegistered

\* Opening ids preserves the invariant (queue.ts: open).
LEMMA OpenInv ==
  ASSUME QueueInv, NEW S \in SUBSET Ids, Open(S)
  PROVE  QueueInv'
  BY DEF Open, QueueInv, QueueTypeOK, Status, Fits, DistinctPulls,
         ClosedForgets, NthPullGetsNthItem, WaitingIsRegistered

\* A push preserves the invariant (queue.ts: push).
LEMMA PushAllInv ==
  ASSUME QueueInv, NEW S \in SUBSET Ids, NEW x \in Items, PushAll(S, x)
  PROVE  QueueInv'
<1>0. /\ QueueTypeOK /\ DistinctPulls /\ ClosedForgets /\ NthPullGetsNthItem
      /\ WaitingIsRegistered
      /\ \A id \in Ids : Fits(queues[id], waiters[id], sent[id], pulls[id])
  BY DEF QueueInv
<1>1. QueueTypeOK'
  BY <1>0, TailFacts, AppendFacts DEF QueueTypeOK, Status, PushAll
<1>2. pulls' = pulls /\ openIds' = openIds /\ S \subseteq openIds
  BY DEF PushAll
<1>3. ASSUME NEW i \in S
      PROVE  /\ i \in Ids
             /\ queues[i] \in Seq(Items) /\ waiters[i] \in Seq(Calls)
             /\ sent[i] \in Seq(Items) /\ pulls[i] \in Seq(Calls)
             /\ queues'[i] = IF waiters[i] = <<>> THEN Append(queues[i], x) ELSE queues[i]
             /\ waiters'[i] = IF waiters[i] = <<>> THEN waiters[i] ELSE Tail(waiters[i])
             /\ sent'[i] = Append(sent[i], x)
             /\ Fits(queues[i], waiters[i], sent[i], pulls[i])
  BY <1>0 DEF QueueTypeOK, PushAll
<1>4. ASSUME NEW i \in Ids, i \notin S
      PROVE  queues'[i] = queues[i] /\ waiters'[i] = waiters[i] /\ sent'[i] = sent[i]
  BY <1>4 DEF PushAll
<1>5. ASSUME NEW i \in Ids PROVE Fits(queues[i], waiters[i], sent[i], pulls[i])'
  <2>1. CASE i \in S
    <3>1. CASE waiters[i] = <<>>
      <4>1. Fits(Append(queues[i], x), waiters[i], Append(sent[i], x), pulls[i])
        BY <1>3, <2>1, <3>1, PushFits
      <4> QED  BY <1>2, <1>3, <2>1, <3>1, <4>1
    <3>2. CASE waiters[i] # <<>>
      <4>1. Fits(queues[i], Tail(waiters[i]), Append(sent[i], x), pulls[i])
        BY <1>3, <2>1, <3>2, PushFits
      <4> QED  BY <1>2, <1>3, <2>1, <3>2, <4>1
    <3> QED  BY <3>1, <3>2
  <2>2. CASE i \notin S
    BY <1>0, <1>2, <1>4, <2>2
  <2> QED  BY <2>1, <2>2
<1>6. DistinctPulls' /\ ClosedForgets'
  BY <1>0, <1>2, <1>4 DEF DistinctPulls, ClosedForgets
<1>7. ASSUME NEW i \in S, waiters[i] # <<>>
      PROVE  /\ Len(sent[i]) + 1 \in 1..Len(pulls[i])
             /\ Head(waiters[i]) = pulls[i][Len(sent[i]) + 1]
  BY <1>3, <1>7, PushFits
<1>8. NthPullGetsNthItem'
  <2> SUFFICES ASSUME NEW i \in Ids, NEW n \in 1..Len(pulls[i])
               PROVE  LET c == pulls[i][n]
                      IN  IF n <= Len(sent'[i])
                          THEN status'[c] = "resolved" /\ got'[c] = sent'[i][n]
                          ELSE status'[c] = "waiting"
    BY <1>2 DEF NthPullGetsNthItem
  <2> DEFINE c == pulls[i][n]
  <2>1. c \in Calls /\ Len(sent[i]) \in Nat
    BY <1>0 DEF QueueTypeOK
  <2>2. c \in Served(S) <=> (i \in S /\ waiters[i] # <<>> /\ n = Len(sent[i]) + 1)
    <3>1. ASSUME NEW j \in S, waiters[j] # <<>>, c = Head(waiters[j])
          PROVE  i \in S /\ waiters[i] # <<>> /\ n = Len(sent[i]) + 1
      <4>1. c = pulls[j][Len(sent[j]) + 1] /\ Len(sent[j]) + 1 \in 1..Len(pulls[j])
        BY <1>7, <3>1
      <4>2. j = i /\ Len(sent[j]) + 1 = n
        BY <1>0, <4>1 DEF DistinctPulls
      <4> QED  BY <3>1, <4>2
    <3>2. ASSUME i \in S, waiters[i] # <<>>, n = Len(sent[i]) + 1
          PROVE  c \in Served(S)
      BY <1>7, <3>2 DEF Served
    <3> QED  BY <3>1, <3>2 DEF Served
  <2>3. /\ status'[c] = IF c \in Served(S) THEN "resolved" ELSE status[c]
        /\ got'[c] = IF c \in Served(S) THEN x ELSE got[c]
    BY <2>1 DEF PushAll
  <2>4. IF n <= Len(sent[i])
        THEN status[c] = "resolved" /\ got[c] = sent[i][n]
        ELSE status[c] = "waiting"
    BY <1>0 DEF NthPullGetsNthItem
  <2>5. CASE i \in S
    <3>1. /\ Len(sent'[i]) = Len(sent[i]) + 1 /\ sent'[i][Len(sent[i]) + 1] = x
          /\ \A k \in 1..Len(sent[i]) : sent'[i][k] = sent[i][k]
      BY <1>3, <2>5, AppendFacts
    <3>2. CASE n <= Len(sent[i])
      BY <2>1, <2>2, <2>3, <2>4, <3>1, <3>2
    <3>3. CASE n = Len(sent[i]) + 1
      <4>1. waiters[i] # <<>>
        <5>1. waiters[i] = <<>> => Len(pulls[i]) <= Len(sent[i])
          BY <1>3, <2>5, PushFits
        <5>2. n <= Len(pulls[i]) /\ Len(pulls[i]) \in Nat
          BY <1>3, <2>5
        <5> QED  BY <2>1, <3>3, <5>1, <5>2
      <4> QED  BY <2>1, <2>2, <2>3, <2>5, <3>1, <3>3, <4>1
    <3>4. CASE n > Len(sent[i]) + 1
      BY <2>1, <2>2, <2>3, <2>4, <3>1, <3>4
    <3> QED  BY <2>1, <3>2, <3>3, <3>4
  <2>6. CASE i \notin S
    BY <1>4, <2>2, <2>3, <2>4, <2>6
  <2> QED  BY <2>5, <2>6
<1>9. WaitingIsRegistered'
  <2> SUFFICES ASSUME NEW c \in Calls, status'[c] = "waiting"
               PROVE  \E i \in Ids : \E n \in 1..Len(waiters'[i]) : waiters'[i][n] = c
    BY DEF WaitingIsRegistered
  <2>1. status[c] = "waiting" /\ c \notin Served(S)
    BY DEF PushAll
  <2>2. PICK i \in Ids : \E n \in 1..Len(waiters[i]) : waiters[i][n] = c
    BY <1>0, <2>1 DEF WaitingIsRegistered
  <2>3. PICK n \in 1..Len(waiters[i]) : waiters[i][n] = c
    BY <2>2
  <2>4. CASE i \in S /\ waiters[i] # <<>>
    <3> DEFINE w == waiters[i]
    <3>1. w \in Seq(Calls) /\ w # <<>> /\ waiters'[i] = Tail(w) /\ Head(w) # c
      BY <1>3, <2>1, <2>4 DEF Served
    <3> HIDE DEF w
    <3>2. /\ Len(w) >= 1 /\ Len(Tail(w)) = Len(w) - 1 /\ Head(w) = w[1] /\ Len(w) \in Nat
          /\ \A k \in 1..Len(w) - 1 : Tail(w)[k] = w[k + 1]
      BY <3>1, TailFacts
    <3>3. w[n] = c /\ n \in 1..Len(w) /\ n # 1
      BY <2>3, <3>1, <3>2 DEF w
    <3>4. n - 1 \in 1..Len(Tail(w)) /\ Tail(w)[n - 1] = c
      BY <3>2, <3>3
    <3> QED  BY <3>1, <3>4
  <2>5. CASE ~(i \in S /\ waiters[i] # <<>>)
    BY <1>3, <1>4, <2>3, <2>5
  <2> QED  BY <2>4, <2>5
<1> QED  BY <1>1, <1>5, <1>6, <1>8, <1>9 DEF QueueInv

\* A pull preserves the invariant (queue.ts: pull).
LEMMA PullInv ==
  ASSUME QueueInv, NEW id \in Ids, NEW c \in Calls, Pull(id, c)
  PROVE  QueueInv'
<1>0. /\ QueueTypeOK /\ DistinctPulls /\ ClosedForgets /\ NthPullGetsNthItem
      /\ WaitingIsRegistered
      /\ \A i \in Ids : Fits(queues[i], waiters[i], sent[i], pulls[i])
  BY DEF QueueInv
<1>1. /\ queues[id] \in Seq(Items) /\ waiters[id] \in Seq(Calls)
      /\ sent[id] \in Seq(Items) /\ pulls[id] \in Seq(Calls)
      /\ Len(sent[id]) \in Nat /\ Len(pulls[id]) \in Nat
      /\ Fits(queues[id], waiters[id], sent[id], pulls[id])
  BY <1>0 DEF QueueTypeOK
<1>2. status[c] = "fresh"
  BY DEF Pull, PullBuffered, PullWait, PullClosed
<1>3. \A i \in Ids : \A n \in 1..Len(pulls[i]) : pulls[i][n] # c
  BY <1>0, <1>2 DEF NthPullGetsNthItem
<1>4. \A i \in Ids : \A n \in 1..Len(waiters[i]) : waiters[i][n] \in Calls
  BY <1>0 DEF QueueTypeOK
<1> DEFINE grows == /\ id \in openIds /\ openIds' = openIds /\ sent' = sent
                    /\ pulls' = [pulls EXCEPT ![id] = Append(@, c)]
<1>p. /\ queues[id] = <<>> => /\ Fits(queues[id], Append(waiters[id], c), sent[id], Append(pulls[id], c))
                             /\ Len(pulls[id]) + 1 > Len(sent[id])
      /\ queues[id] # <<>> => /\ Fits(Tail(queues[id]), waiters[id], sent[id], Append(pulls[id], c))
                             /\ Len(pulls[id]) + 1 \in 1..Len(sent[id])
                             /\ Head(queues[id]) = sent[id][Len(pulls[id]) + 1]
  <2> DEFINE q == queues[id]
             w == waiters[id]
             s == sent[id]
             p == pulls[id]
  <2>1. q \in Seq(Items) /\ w \in Seq(Calls) /\ s \in Seq(Items) /\ p \in Seq(Calls) /\ Fits(q, w, s, p)
    BY <1>1
  <2> HIDE DEF q, w, s, p
  <2>2. /\ q = <<>> => Fits(q, Append(w, c), s, Append(p, c)) /\ Len(p) + 1 > Len(s)
        /\ q # <<>> => /\ Fits(Tail(q), w, s, Append(p, c))
                       /\ Len(p) + 1 \in 1..Len(s) /\ Head(q) = s[Len(p) + 1]
    BY <2>1, PullFits
  <2> QED  BY <2>2 DEF q, w, s, p
<1>5. ASSUME grows PROVE DistinctPulls' /\ ClosedForgets'
  <2>1. ClosedForgets'
    BY <1>0, <1>5 DEF ClosedForgets, QueueTypeOK
  <2>2. /\ Len(pulls'[id]) = Len(pulls[id]) + 1 /\ pulls'[id][Len(pulls[id]) + 1] = c
        /\ \A n \in 1..Len(pulls[id]) : pulls'[id][n] = pulls[id][n]
        /\ \A i \in Ids : i # id => pulls'[i] = pulls[i]
    BY <1>0, <1>1, <1>5, AppendFacts DEF QueueTypeOK
  <2>3. ASSUME NEW i \in Ids, NEW m \in 1..Len(pulls'[i])
        PROVE  \/ m \in 1..Len(pulls[i]) /\ pulls'[i][m] = pulls[i][m]
               \/ i = id /\ m = Len(pulls[id]) + 1 /\ pulls'[i][m] = c
    BY <1>1, <2>2
  <2>4. DistinctPulls'
    BY <1>0, <1>3, <2>3 DEF DistinctPulls
  <2> QED  BY <2>1, <2>4
<1>6. CASE PullBuffered(id, c)
  <2>1. QueueTypeOK'
    BY <1>0, <1>1, <1>6, TailFacts, AppendFacts DEF QueueTypeOK, Status, PullBuffered, Taken
  <2>2. DistinctPulls' /\ ClosedForgets'
    BY <1>5, <1>6 DEF PullBuffered
  <2>3. \A i \in Ids : Fits(queues[i], waiters[i], sent[i], pulls[i])'
    <3>1. Fits(Tail(queues[id]), waiters[id], sent[id], Append(pulls[id], c))
      BY <1>6, <1>p DEF PullBuffered
    <3>2. SUFFICES ASSUME NEW i \in Ids PROVE Fits(queues'[i], waiters'[i], sent'[i], pulls'[i])
      OBVIOUS
    <3>3. CASE i = id
      BY <1>0, <1>6, <3>1, <3>3 DEF PullBuffered, QueueTypeOK
    <3>4. CASE i # id
      <4>1. /\ queues'[i] = queues[i] /\ waiters'[i] = waiters[i]
            /\ sent'[i] = sent[i] /\ pulls'[i] = pulls[i]
        BY <1>0, <1>6, <3>4 DEF PullBuffered, QueueTypeOK
      <4> QED  BY <1>0, <4>1
    <3> QED  BY <3>3, <3>4
  <2>4. NthPullGetsNthItem'
    <3>1. Len(pulls[id]) + 1 \in 1..Len(sent[id]) /\ Head(queues[id]) = sent[id][Len(pulls[id]) + 1]
      BY <1>6, <1>p DEF PullBuffered
    <3>2. /\ status'[c] = "resolved" /\ got'[c] = Head(queues[id])
          /\ \A d \in Calls : d # c => status'[d] = status[d] /\ got'[d] = got[d]
      BY <1>0, <1>6 DEF PullBuffered, Taken, QueueTypeOK
    <3>3. /\ Len(pulls'[id]) = Len(pulls[id]) + 1 /\ pulls'[id][Len(pulls[id]) + 1] = c
          /\ \A n \in 1..Len(pulls[id]) : pulls'[id][n] = pulls[id][n]
          /\ \A i \in Ids : i # id => pulls'[i] = pulls[i]
          /\ sent' = sent
      BY <1>0, <1>1, <1>6, AppendFacts DEF QueueTypeOK, PullBuffered
    <3>4. \A i \in Ids : \A n \in 1..Len(pulls[i]) : pulls[i][n] \in Calls
      BY <1>0 DEF QueueTypeOK
    <3>5. ASSUME NEW i \in Ids, NEW m \in 1..Len(pulls'[i])
          PROVE  \/ m \in 1..Len(pulls[i]) /\ pulls'[i][m] = pulls[i][m]
                 \/ i = id /\ m = Len(pulls[id]) + 1 /\ pulls'[i][m] = c
      BY <1>1, <3>3
    <3> SUFFICES ASSUME NEW i \in Ids, NEW m \in 1..Len(pulls'[i])
                 PROVE  LET d == pulls'[i][m]
                        IN  IF m <= Len(sent[i])
                            THEN status'[d] = "resolved" /\ got'[d] = sent[i][m]
                            ELSE status'[d] = "waiting"
      BY <3>3 DEF NthPullGetsNthItem
    <3>6. CASE m \in 1..Len(pulls[i]) /\ pulls'[i][m] = pulls[i][m]
      BY <1>0, <1>3, <3>2, <3>4, <3>6 DEF NthPullGetsNthItem
    <3>7. CASE i = id /\ m = Len(pulls[id]) + 1 /\ pulls'[i][m] = c
      BY <1>1, <3>1, <3>2, <3>7
    <3> QED  BY <3>5, <3>6, <3>7
  <2>5. WaitingIsRegistered'
    BY <1>0, <1>6 DEF PullBuffered, WaitingIsRegistered, QueueTypeOK
  <2> QED  BY <2>1, <2>2, <2>3, <2>4, <2>5 DEF QueueInv
<1>7. CASE PullWait(id, c)
  <2>1. QueueTypeOK'
    BY <1>0, <1>1, <1>7, AppendFacts DEF QueueTypeOK, Status, PullWait
  <2>2. DistinctPulls' /\ ClosedForgets'
    BY <1>5, <1>7 DEF PullWait
  <2>3. /\ Fits(queues[id], Append(waiters[id], c), sent[id], Append(pulls[id], c))
        /\ Len(pulls[id]) + 1 > Len(sent[id])
    BY <1>7, <1>p DEF PullWait
  <2>4. \A i \in Ids : Fits(queues[i], waiters[i], sent[i], pulls[i])'
    BY <1>0, <1>7, <2>3 DEF PullWait, QueueTypeOK
  <2>5. /\ status'[c] = "waiting" /\ got' = got
        /\ \A d \in Calls : d # c => status'[d] = status[d]
    BY <1>0, <1>7 DEF PullWait, QueueTypeOK
  <2>6. NthPullGetsNthItem'
    <3>1. /\ Len(pulls'[id]) = Len(pulls[id]) + 1 /\ pulls'[id][Len(pulls[id]) + 1] = c
          /\ \A n \in 1..Len(pulls[id]) : pulls'[id][n] = pulls[id][n]
          /\ \A i \in Ids : i # id => pulls'[i] = pulls[i]
          /\ sent' = sent
      BY <1>0, <1>1, <1>7, AppendFacts DEF QueueTypeOK, PullWait
    <3>2. \A i \in Ids : \A n \in 1..Len(pulls[i]) : pulls[i][n] \in Calls
      BY <1>0 DEF QueueTypeOK
    <3>3. ASSUME NEW i \in Ids, NEW m \in 1..Len(pulls'[i])
          PROVE  \/ m \in 1..Len(pulls[i]) /\ pulls'[i][m] = pulls[i][m]
                 \/ i = id /\ m = Len(pulls[id]) + 1 /\ pulls'[i][m] = c
      BY <1>1, <3>1
    <3>4. ~(Len(pulls[id]) + 1 <= Len(sent[id]))
      BY <1>1, <2>3
    <3> SUFFICES ASSUME NEW i \in Ids, NEW m \in 1..Len(pulls'[i])
                 PROVE  LET d == pulls'[i][m]
                        IN  IF m <= Len(sent[i])
                            THEN status'[d] = "resolved" /\ got'[d] = sent[i][m]
                            ELSE status'[d] = "waiting"
      BY <3>1 DEF NthPullGetsNthItem
    <3>5. CASE m \in 1..Len(pulls[i]) /\ pulls'[i][m] = pulls[i][m]
      BY <1>0, <1>3, <2>5, <3>2, <3>5 DEF NthPullGetsNthItem
    <3>6. CASE i = id /\ m = Len(pulls[id]) + 1 /\ pulls'[i][m] = c
      BY <2>5, <3>4, <3>6
    <3> QED  BY <3>3, <3>5, <3>6
  <2>7. WaitingIsRegistered'
    <3>1. /\ Len(waiters'[id]) = Len(waiters[id]) + 1 /\ waiters'[id][Len(waiters[id]) + 1] = c
          /\ \A n \in 1..Len(waiters[id]) : waiters'[id][n] = waiters[id][n]
          /\ \A i \in Ids : i # id => waiters'[i] = waiters[i]
          /\ Len(waiters[id]) \in Nat
      BY <1>0, <1>1, <1>7, AppendFacts DEF QueueTypeOK, PullWait
    <3> QED  BY <1>0, <2>5, <3>1 DEF WaitingIsRegistered
  <2> QED  BY <2>1, <2>2, <2>4, <2>6, <2>7 DEF QueueInv
<1>8. CASE PullClosed(id, c)
  <2>1. /\ status'[c] = "rejected" /\ UNCHANGED <<openIds, queues, waiters, got, sent, pulls>>
        /\ \A d \in Calls : d # c => status'[d] = status[d]
    BY <1>0, <1>8 DEF PullClosed, QueueTypeOK
  <2>2. QueueTypeOK'
    BY <1>0, <1>8 DEF QueueTypeOK, Status, PullClosed
  <2>3. NthPullGetsNthItem'
    BY <1>0, <1>3, <2>1 DEF NthPullGetsNthItem, QueueTypeOK
  <2> QED  BY <1>0, <2>1, <2>2, <2>3 DEF QueueInv, DistinctPulls, ClosedForgets, WaitingIsRegistered
<1> QED  BY <1>6, <1>7, <1>8 DEF Pull

\* Closing ids preserves the invariant: a call that pulled from another id is
\* not among the rejected ones (queue.ts: close).
LEMMA CloseInv ==
  ASSUME QueueInv, NEW S \in SUBSET Ids, Close(S)
  PROVE  QueueInv'
<1>0. /\ QueueTypeOK /\ DistinctPulls /\ ClosedForgets /\ NthPullGetsNthItem
      /\ WaitingIsRegistered
      /\ \A i \in Ids : Fits(queues[i], waiters[i], sent[i], pulls[i])
  BY DEF QueueInv
<1>1. QueueTypeOK'
  BY <1>0 DEF QueueTypeOK, Status, Close, QueuesWithout
<1>2. /\ \A i \in S : queues'[i] = <<>> /\ waiters'[i] = <<>> /\ sent'[i] = <<>> /\ pulls'[i] = <<>>
      /\ \A i \in Ids \ S : /\ queues'[i] = queues[i] /\ waiters'[i] = waiters[i]
                             /\ sent'[i] = sent[i] /\ pulls'[i] = pulls[i]
      /\ got' = got /\ openIds' = openIds \ S
      /\ \A c \in Calls : status'[c] = IF c \in Rejected(S) THEN "rejected" ELSE status[c]
  BY <1>0 DEF Close, QueuesWithout
<1>3. ASSUME NEW i \in Ids PROVE Fits(queues[i], waiters[i], sent[i], pulls[i])'
  <2>1. Fits(<<>>, <<>>, <<>>, <<>>)
    BY DEF Fits
  <2>2. CASE i \in S
    BY <1>2, <2>1, <2>2
  <2>3. CASE i \notin S
    BY <1>0, <1>2, <2>3
  <2> QED  BY <2>2, <2>3
<1>4. DistinctPulls' /\ ClosedForgets'
  BY <1>0, <1>2 DEF DistinctPulls, ClosedForgets
<1>5. ASSUME NEW c \in Rejected(S)
      PROVE  \E j \in S : \E m \in 1..Len(pulls[j]) : c = pulls[j][m]
  <2>1. PICK j \in S : c \in Range(waiters[j])
    BY DEF Rejected
  <2> DEFINE w == waiters[j]
             s == sent[j]
             p == pulls[j]
             q == queues[j]
  <2>2. /\ w \in Seq(Calls) /\ s \in Seq(Items) /\ p \in Seq(Calls) /\ q \in Seq(Items)
        /\ Fits(q, w, s, p) /\ c \in Range(w)
    BY <1>0, <2>1 DEF QueueTypeOK
  <2> HIDE DEF w, s, p, q
  <2>3. PICK n \in 1..Len(w) : w[n] = c
    BY <2>2 DEF Range
  <2>4. q = <<>> /\ Len(q) = 0 /\ Len(p) = Len(s) + Len(w) /\ Len(s) \in Nat /\ Len(w) \in Nat
    BY <2>2, <2>3 DEF Fits
  <2>5. w[n] = p[Len(s) + n] /\ Len(s) + n \in 1..Len(p)
    BY <2>2, <2>3, <2>4 DEF Fits
  <2> QED  BY <2>1, <2>3, <2>5 DEF p
<1>6. NthPullGetsNthItem'
  <2> SUFFICES ASSUME NEW i \in Ids \ S, NEW n \in 1..Len(pulls[i])
               PROVE  LET c == pulls[i][n]
                      IN  IF n <= Len(sent[i])
                          THEN status'[c] = "resolved" /\ got'[c] = sent[i][n]
                          ELSE status'[c] = "waiting"
    BY <1>2 DEF NthPullGetsNthItem
  <2>1. pulls[i][n] \in Calls
    BY <1>0 DEF QueueTypeOK
  <2>2. pulls[i][n] \notin Rejected(S)
    BY <1>0, <1>5 DEF DistinctPulls
  <2> QED  BY <1>0, <1>2, <2>1, <2>2 DEF NthPullGetsNthItem
<1>7. WaitingIsRegistered'
  <2> SUFFICES ASSUME NEW c \in Calls, status'[c] = "waiting"
               PROVE  \E i \in Ids : \E n \in 1..Len(waiters'[i]) : waiters'[i][n] = c
    BY DEF WaitingIsRegistered
  <2>1. status[c] = "waiting" /\ c \notin Rejected(S)
    BY <1>2
  <2>2. PICK i \in Ids : \E n \in 1..Len(waiters[i]) : waiters[i][n] = c
    BY <1>0, <2>1 DEF WaitingIsRegistered
  <2>3. waiters[i] \in Seq(Calls)
    BY <1>0 DEF QueueTypeOK
  <2>4. i \notin S
    BY <2>1, <2>2, <2>3 DEF Rejected, Range
  <2> QED  BY <1>2, <2>2, <2>4
<1> QED  BY <1>1, <1>3, <1>4, <1>6, <1>7 DEF QueueInv

\* Every method preserves the invariant (queue.ts: open, push, pull, close).
LEMMA NextInv == QueueInv /\ [QueueNext]_queueVars => QueueInv'
<1> SUFFICES ASSUME QueueInv, [QueueNext]_queueVars PROVE QueueInv'
  OBVIOUS
<1>1. CASE UNCHANGED queueVars
  BY <1>1 DEF queueVars, QueueInv, QueueTypeOK, DistinctPulls, ClosedForgets,
              NthPullGetsNthItem, WaitingIsRegistered
<1>2. ASSUME NEW S \in SUBSET Ids, Open(S) PROVE QueueInv'
  BY <1>2, OpenInv
<1>3. ASSUME NEW S \in SUBSET Ids, Close(S) PROVE QueueInv'
  BY <1>3, CloseInv
<1>4. ASSUME NEW S \in SUBSET Ids, NEW x \in Items, PushAll(S, x) PROVE QueueInv'
  BY <1>4, PushAllInv
<1>5. ASSUME NEW id \in Ids, NEW c \in Calls, Pull(id, c) PROVE QueueInv'
  BY <1>5, PullInv
<1> QED  BY <1>1, <1>2, <1>3, <1>4, <1>5 DEF QueueNext

\* The invariant holds for every set of ids, items and calls: whatever the
\* order of open, push, pull and close (queue.ts, the whole class).
THEOREM InvariantHolds == QueueSpec => []QueueInv
<1>1. QueueInit => QueueInv
  BY InitInv
<1>2. QueueInv /\ [QueueNext]_queueVars => QueueInv'
  BY NextInv
<1> QED  BY <1>1, <1>2, PTL DEF QueueSpec

\* The n-th pull of an id gets the n-th item pushed to it (queue.ts: push, pull).
THEOREM Fifo == QueueSpec => []NthPullGetsNthItem
<1>1. QueueInv => NthPullGetsNthItem
  BY DEF QueueInv
<1> QED  BY <1>1, InvariantHolds, PTL

\* A closed id keeps neither items nor waiters (queue.ts: close).
THEOREM ClosedIsEmpty == QueueSpec => []ClosedIdIsEmpty
<1>1. QueueInv => ClosedIdIsEmpty
  <2> SUFFICES ASSUME QueueInv, NEW id \in Ids \ openIds
               PROVE  queues[id] = <<>> /\ waiters[id] = <<>>
    BY DEF ClosedIdIsEmpty
  <2> DEFINE q == queues[id]
             w == waiters[id]
  <2>1. q \in Seq(Items) /\ w \in Seq(Calls) /\ Fits(q, w, <<>>, <<>>)
    BY DEF QueueInv, QueueTypeOK, ClosedForgets
  <2> HIDE DEF q, w
  <2>2. q = <<>> /\ w = <<>>
    BY <2>1 DEF Fits
  <2> QED  BY <2>2 DEF q, w
<1> QED  BY <1>1, InvariantHolds, PTL

\* No caller of pull is left pending on an id that is closed or that has
\* forgotten its waiter (queue.ts: pull, close).
THEOREM NoOrphans == QueueSpec => []NoOrphanedCall
<1>1. QueueInv /\ ClosedIdIsEmpty => NoOrphanedCall
  <2> SUFFICES ASSUME QueueInv, ClosedIdIsEmpty, NEW c \in Calls, status[c] = "waiting"
               PROVE  \E id \in openIds : c \in Range(waiters[id])
    BY DEF NoOrphanedCall
  <2>1. PICK i \in Ids : \E n \in 1..Len(waiters[i]) : waiters[i][n] = c
    BY DEF QueueInv, WaitingIsRegistered
  <2>2. waiters[i] \in Seq(Calls)
    BY DEF QueueInv, QueueTypeOK
  <2>3. c \in Range(waiters[i]) /\ waiters[i] # <<>>
    BY <2>1, <2>2 DEF Range
  <2> QED  BY <2>3 DEF ClosedIdIsEmpty
<1> QED  BY <1>1, InvariantHolds, ClosedIsEmpty, PTL

=============================================================================
