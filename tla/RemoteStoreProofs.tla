------------------------- MODULE RemoteStoreProofs -------------------------
(***************************************************************************)
(* The upload of RemoteStore, for every set of users, every length of the  *)
(* pipeline and every bound.  The invariant says where every write is: in  *)
(* its queue or decided on; which part of the queue is in the pipeline;    *)
(* how far the call has come with the pipeline; and that what is astray is *)
(* in the order of the writes, so that it may arrive at any time.          *)
(***************************************************************************)
EXTENDS RemoteStore, SequenceTheorems, WellFoundedInduction, TLAPS

Ordered(q) ==
    \A i, j \in 1 .. Len(q) : i < j => q[i].id < q[j].id /\ q[i].no < q[j].no

\* Every queue is in order and holds its user's writes, none acknowledged.
Queues ==
    \A u \in Users :
       /\ Ordered(queue[u])
       /\ \A i \in 1 .. Len(queue[u]) :
             /\ queue[u][i].no \in 1 .. Len(owner) /\ owner[queue[u][i].no] = u
             /\ lastAcknowledged[u] < queue[u][i].id /\ queue[u][i].id < nextBatchID

\* A write that the server has not decided on is in its queue.
Kept ==
    \A n \in 1 .. Len(owner) :
       \/ n \in Settled
       \/ \E i \in 1 .. Len(queue[owner[n]]) : queue[owner[n]][i].no = n

\* The pipeline is the front of the open queue, and lastBatchSeen is its last batch.
Front ==
    /\ Len(pendingWrites) = Least(kMaxPendingWrites, Len(queue[user]))
    /\ \A i \in 1 .. Len(pendingWrites) : pendingWrites[i] = queue[user][i]
    /\ pendingWrites # <<>> => lastBatchSeen = pendingWrites[Len(pendingWrites)].id
    /\ lastBatchSeen < nextBatchID /\ lastAcknowledged[user] < nextBatchID

\* Only an open stream has a call.
Stream ==
    /\ state # "Open" => requests = <<>> /\ answers = <<>> /\ closing = "no" /\ idle = FALSE
    /\ isStarted /\ handshakeComplete => state = "Open"
    /\ idle => handshakeComplete /\ pendingWrites = <<>>

\* Before the answer to the handshake nothing else is under way.
Shaking ==
    /\ closing = "no" => \/ answers = <<Handshake>> /\ requests = <<>>
                         \/ answers = <<>> /\ requests = <<Handshake>>
    /\ closing = "transient" => answers \in {<<>>, <<Handshake>>}
    /\ closing = "permanent" => answers = <<>>

\* After it the answers and the requests are for the pipeline, in its order.
Writing ==
    /\ Len(answers) + Len(requests) <= Len(pendingWrites)
    /\ state = "Open" /\ closing = "no" => Len(answers) + Len(requests) = Len(pendingWrites)
    /\ \A i \in 1 .. Len(answers) : answers[i] = pendingWrites[i].no /\ answers[i] \in committed
    /\ \A i \in 1 .. Len(requests) : requests[i] = pendingWrites[Len(answers) + i].no
    /\ closing = "permanent" => /\ Len(answers) < Len(pendingWrites)
                                /\ pendingWrites[Len(answers) + 1].no \in refused

Call ==
    /\ closing # "no" => requests = <<>>
    /\ state = "Open" /\ ~handshakeComplete => Shaking
    /\ handshakeComplete => Writing

\* Every write of s comes after all the elder writes of its owner.
InOrder(s, own, settled) ==
    \A i \in 1 .. Len(s) :
       s[i] # Handshake =>
          /\ s[i] \in 1 .. Len(own)
          /\ \A m \in 1 .. (s[i] - 1) :
                own[m] = own[s[i]] => m \in settled \/ \E j \in 1 .. (i - 1) : s[j] = m

Strays == \A s \in stray : s # <<>> /\ InOrder(s, owner, Settled)

IInv == TypeOK /\ Queues /\ Kept /\ Front /\ Stream /\ Call /\ Strays
-----------------------------------------------------------------------------
(* The operators on queues                                                 *)

\* The position that UpTo chooses is the one there is.
LEMMA UpToIs ==
    ASSUME NEW q \in Seq(Batch), NEW m \in Int, NEW n \in 0 .. Len(q),
           \A i \in 1 .. Len(q) : i <= n <=> q[i].id <= m
    PROVE  UpTo(q, m) = n
<1>1. Len(q) \in Nat OBVIOUS
<1> DEFINE P(k) == \A i \in 1 .. Len(q) : i <= k <=> q[i].id <= m
<1>2. P(n) OBVIOUS
<1>3. ASSUME NEW k \in 0 .. Len(q), P(k) PROVE k = n
  <2>1. \A i \in 1 .. Len(q) : i <= k <=> i <= n BY <1>2, <1>3
  <2>2. CASE k < n
    <3>1. n \in 1 .. Len(q) /\ ~(n <= k) /\ n <= n BY <1>1, <2>2
    <3> QED BY <2>1, <3>1
  <2>3. CASE n < k
    <3>1. k \in 1 .. Len(q) /\ ~(k <= n) /\ k <= k BY <1>1, <2>3
    <3> QED BY <2>1, <3>1
  <2> QED BY <1>1, <2>2, <2>3
<1>4. UpTo(q, m) = CHOOSE k \in 0 .. Len(q) : P(k) BY DEF UpTo
<1> HIDE DEF P
<1>5. (CHOOSE k \in 0 .. Len(q) : P(k)) \in 0 .. Len(q) /\ P(CHOOSE k \in 0 .. Len(q) : P(k))
  BY <1>2
<1> QED BY <1>3, <1>4, <1>5

\* p is the front of q, within the limit, and all of q that has an ID up to m.
Fits(q, p, m) ==
    /\ Len(p) <= kMaxPendingWrites /\ Len(p) <= Len(q)
    /\ \A i \in 1 .. Len(p) : p[i] = q[i]
    /\ \A i \in 1 .. Len(q) : i <= Len(p) <=> q[i].id <= m

\* With more, p is the front of q up to the limit.
Extends(q, p, more) ==
    /\ more \in Seq(Batch)
    /\ Len(more) \in Nat /\ Len(p) + Len(more) = Least(kMaxPendingWrites, Len(q))
    /\ \A i \in 1 .. Len(more) : more[i] = q[Len(p) + i]
    /\ p \o more \in Seq(Batch) /\ Len(p \o more) = Len(p) + Len(more)
    /\ \A i \in 1 .. Len(p \o more) : (p \o more)[i] = q[i]

\* What is added to the front p of q makes it the front of q up to the room there is.
LEMMA Filled ==
    ASSUME NEW q \in Seq(Batch), NEW p \in Seq(Batch), NEW ack \in Int, NEW seen \in Int,
           Fits(q, p, Highest(seen, ack))
    PROVE  Extends(q, p, Following(q, ack, p, seen))
<1> DEFINE more == Following(q, ack, p, seen)
<1>0. /\ Len(p) <= kMaxPendingWrites /\ Len(p) <= Len(q)
      /\ \A i \in 1 .. Len(p) : p[i] = q[i]
      /\ \A i \in 1 .. Len(q) : i <= Len(p) <=> q[i].id <= Highest(seen, ack)
  BY DEF Fits
<1>1. Len(q) \in Nat /\ Len(p) \in Nat /\ kMaxPendingWrites \in Nat \ {0}
  BY PipelineAssumption
<1>2. Highest(seen, ack) \in Int /\ Len(p) \in 0 .. Len(q) BY <1>0, <1>1 DEF Highest
<1>3. UpTo(q, Highest(seen, ack)) = Len(p) BY <1>0, <1>2, UpToIs
<1> DEFINE to == Least(Len(q), Len(p) + kMaxPendingWrites - Len(p))
<1>4. more = SubSeq(q, Len(p) + 1, to) BY <1>3 DEF Following
<1>5. to = Least(kMaxPendingWrites, Len(q)) /\ to \in Nat /\ to <= Len(q) /\ Len(p) <= to
  BY <1>0, <1>1 DEF Least
<1> HIDE DEF to, more
<1>6. \A i \in Len(p) + 1 .. to : q[i] \in Batch BY <1>1, <1>5
<1>7. /\ more \in Seq(Batch)
      /\ Len(more) = IF Len(p) + 1 <= to THEN to - (Len(p) + 1) + 1 ELSE 0
      /\ \A i \in 1 .. to - (Len(p) + 1) + 1 : more[i] = q[Len(p) + 1 + i - 1]
  BY <1>1, <1>4, <1>5, <1>6, SubSeqProperties
<1>8. Len(more) = to - Len(p) BY <1>1, <1>5, <1>7
<1>9. \A i \in 1 .. Len(more) : more[i] = q[Len(p) + i]
  <2> SUFFICES ASSUME NEW i \in 1 .. Len(more) PROVE more[i] = q[Len(p) + i] OBVIOUS
  <2>1. i \in 1 .. to - (Len(p) + 1) + 1 /\ Len(p) + 1 + i - 1 = Len(p) + i BY <1>1, <1>5, <1>8
  <2> QED BY <1>7, <2>1
<1>10. /\ p \o more \in Seq(Batch) /\ Len(p \o more) = Len(p) + Len(more)
       /\ \A i \in 1 .. Len(p) + Len(more) :
             (p \o more)[i] = IF i <= Len(p) THEN p[i] ELSE more[i - Len(p)]
  BY <1>7, ConcatProperties
<1>11. \A i \in 1 .. Len(p \o more) : (p \o more)[i] = q[i]
  <2> SUFFICES ASSUME NEW i \in 1 .. Len(p) + Len(more) PROVE (p \o more)[i] = q[i] BY <1>10
  <2>1. CASE i <= Len(p)
    <3>1. i \in 1 .. Len(p) BY <1>1, <2>1
    <3> QED BY <1>0, <1>10, <2>1, <3>1
  <2>2. CASE ~(i <= Len(p))
    <3>1. i - Len(p) \in 1 .. Len(more) /\ Len(p) + (i - Len(p)) = i BY <1>1, <1>5, <1>8, <2>2
    <3> QED BY <1>9, <1>10, <2>2, <3>1
  <2> QED BY <2>1, <2>2
<1>12. Len(more) \in Nat /\ Len(p) + Len(more) = Least(kMaxPendingWrites, Len(q))
  BY <1>1, <1>5, <1>8
<1>13. more \in Seq(Batch) BY <1>7
<1>14. p \o more \in Seq(Batch) /\ Len(p \o more) = Len(p) + Len(more) BY <1>10
<1>15. Extends(q, p, more) BY <1>9, <1>11, <1>12, <1>13, <1>14 DEF Extends
<1> QED BY <1>15 DEF more

\* A sequence that is not empty, and its tail.
LEMMA TailFacts ==
    ASSUME NEW S, NEW q \in Seq(S), q # <<>>
    PROVE  /\ Len(q) \in Nat \ {0} /\ q[1] \in S /\ Head(q) = q[1]
           /\ Tail(q) \in Seq(S) /\ Len(Tail(q)) = Len(q) - 1
           /\ \A i \in 1 .. Len(Tail(q)) : Tail(q)[i] = q[i + 1]
OBVIOUS

\* Removing the head of a queue by its ID leaves the tail.
LEMMA WithoutHead ==
    ASSUME NEW q \in Seq(Batch), q # <<>>, Ordered(q)
    PROVE  Without(q, q[1].id) = Tail(q)
<1>1. Len(q) \in Nat \ {0} /\ DOMAIN q = 1 .. Len(q) /\ 1 \in 1 .. Len(q) BY TailFacts
<1>2. \A i \in 1 .. Len(q) : q[i] \in Batch OBVIOUS
<1>3. ASSUME NEW i \in 1 .. Len(q), q[i].id = q[1].id PROVE i = 1
  <2>1. CASE i # 1
    <3>1. 1 < i BY <1>1, <2>1
    <3>2. q[1].id < q[i].id BY <1>1, <3>1 DEF Ordered
    <3>3. q[1].id \in Nat /\ q[i].id \in Nat BY <1>1, <1>2 DEF Batch
    <3> QED BY <1>3, <3>2, <3>3
  <2> QED BY <2>1
<1> DEFINE at == CHOOSE i \in DOMAIN q : q[i].id = q[1].id
<1>4. at \in DOMAIN q /\ q[at].id = q[1].id BY <1>1
<1>5. at = 1 BY <1>1, <1>3, <1>4
<1>6. Without(q, q[1].id) = SubSeq(q, 1, at - 1) \o SubSeq(q, at + 1, Len(q)) BY DEF Without
<1> HIDE DEF at
<1>7. SubSeq(q, 1, at - 1) = <<>> BY <1>5, SubSeqEmpty
<1>8. SubSeq(q, at + 1, Len(q)) = Tail(q) BY <1>5, TailIsSubSeq
<1>9. Tail(q) \in Seq(Batch) BY TailFacts
<1> QED BY <1>6, <1>7, <1>8, <1>9, ConcatEmptySeq

\* A queue without its head is still in order.
LEMMA OrderedTail ==
    ASSUME NEW q \in Seq(Batch), q # <<>>, Ordered(q)
    PROVE  /\ Ordered(Tail(q))
           /\ \A i \in 1 .. Len(Tail(q)) : q[1].id < Tail(q)[i].id
<1> DEFINE r == Tail(q)
<1>1. /\ Len(q) \in Nat \ {0} /\ Len(r) = Len(q) - 1
      /\ \A i \in 1 .. Len(r) : r[i] = q[i + 1]
  BY TailFacts
<1> HIDE DEF r
<1>2. ASSUME NEW i \in 1 .. Len(r), NEW j \in 1 .. Len(r), i < j
      PROVE  r[i].id < r[j].id /\ r[i].no < r[j].no
  <2>1. i + 1 \in 1 .. Len(q) /\ j + 1 \in 1 .. Len(q) /\ i + 1 < j + 1 BY <1>1, <1>2
  <2>2. q[i + 1].id < q[j + 1].id /\ q[i + 1].no < q[j + 1].no BY <2>1 DEF Ordered
  <2> QED BY <1>1, <2>2
<1>3. ASSUME NEW i \in 1 .. Len(r) PROVE q[1].id < r[i].id
  <2>1. i + 1 \in 1 .. Len(q) /\ 1 \in 1 .. Len(q) /\ 1 < i + 1 BY <1>1
  <2>2. q[1].id < q[i + 1].id BY <2>1 DEF Ordered
  <2> QED BY <1>1, <2>2
<1>4. Ordered(r) BY <1>2 DEF Ordered
<1> QED BY <1>3, <1>4 DEF r

\* Numbers of batches.
LEMMA NumbersFacts ==
    ASSUME NEW q \in Seq(Batch)
    PROVE  /\ Numbers(q) \in Seq(Nat) /\ Len(Numbers(q)) = Len(q)
           /\ \A i \in 1 .. Len(q) : Numbers(q)[i] = q[i].no /\ q[i].no \in Nat \ {0}
<1>1. Len(q) \in Nat /\ DOMAIN q = 1 .. Len(q) OBVIOUS
<1>2. \A i \in 1 .. Len(q) : q[i] \in Batch OBVIOUS
<1>3. \A i \in 1 .. Len(q) : q[i].no \in Nat \ {0} BY <1>2 DEF Batch
<1>4. Numbers(q) = [i \in 1 .. Len(q) |-> q[i].no] BY <1>1 DEF Numbers
<1>5. Numbers(q) \in [1 .. Len(q) -> Nat] BY <1>3, <1>4
<1>6. Numbers(q) \in Seq(Nat) BY <1>1, <1>5
<1>7. Len(Numbers(q)) = Len(q) BY <1>1, <1>4, <1>6
<1> QED BY <1>3, <1>4, <1>6, <1>7
-----------------------------------------------------------------------------
(* The order of requests                                                   *)

\* It stays when more is written or settled.
LEMMA InOrderStays ==
    ASSUME NEW s \in Seq(Nat), NEW own, NEW own2, NEW done, NEW done2,
           Len(own) \in Nat, Len(own2) \in Nat, Len(own) <= Len(own2),
           \A n \in 1 .. Len(own) : own2[n] = own[n],
           done \subseteq done2, InOrder(s, own, done)
    PROVE  InOrder(s, own2, done2)
<1> SUFFICES ASSUME NEW i \in 1 .. Len(s), s[i] # Handshake
             PROVE  /\ s[i] \in 1 .. Len(own2)
                    /\ \A m \in 1 .. (s[i] - 1) :
                          own2[m] = own2[s[i]] =>
                             m \in done2 \/ \E j \in 1 .. (i - 1) : s[j] = m
  BY DEF InOrder
<1>1. s[i] \in 1 .. Len(own) BY DEF InOrder
<1>2. s[i] \in 1 .. Len(own2) BY <1>1
<1>3. ASSUME NEW m \in 1 .. (s[i] - 1), own2[m] = own2[s[i]]
      PROVE  m \in done2 \/ \E j \in 1 .. (i - 1) : s[j] = m
  <2>1. m \in 1 .. Len(own) BY <1>1
  <2>2. own[m] = own[s[i]] BY <1>1, <1>3, <2>1
  <2>3. \A k \in 1 .. (s[i] - 1) :
           own[k] = own[s[i]] => k \in done \/ \E j \in 1 .. (i - 1) : s[j] = k
    BY DEF InOrder
  <2>4. m \in done \/ \E j \in 1 .. (i - 1) : s[j] = m BY <2>2, <2>3
  <2> QED BY <2>4
<1> QED BY <1>2, <1>3

\* And when the first request is read, if it is settled or the handshake.
LEMMA InOrderTail ==
    ASSUME NEW s \in Seq(Nat), s # <<>>, NEW own, NEW done, NEW done2,
           done \subseteq done2, s[1] = Handshake \/ s[1] \in done2, InOrder(s, own, done)
    PROVE  InOrder(Tail(s), own, done2)
<1> DEFINE r == Tail(s)
<1>1. /\ Len(s) \in Nat \ {0} /\ Len(r) = Len(s) - 1
      /\ \A i \in 1 .. Len(r) : r[i] = s[i + 1]
  BY TailFacts
<1> HIDE DEF r
<1>2. ASSUME NEW i \in 1 .. Len(r), r[i] # Handshake
      PROVE  /\ r[i] \in 1 .. Len(own)
             /\ \A m \in 1 .. (r[i] - 1) :
                   own[m] = own[r[i]] => m \in done2 \/ \E j \in 1 .. (i - 1) : r[j] = m
  <2> DEFINE h == i + 1
  <2>1. h \in 1 .. Len(s) /\ r[i] = s[h] /\ h - 1 = i BY <1>1
  <2> HIDE DEF h
  <2>2. r[i] \in 1 .. Len(own) BY <1>2, <2>1 DEF InOrder
  <2>3. ASSUME NEW m \in 1 .. (r[i] - 1), own[m] = own[r[i]]
        PROVE  m \in done2 \/ \E j \in 1 .. (i - 1) : r[j] = m
    <3>0. \A k \in 1 .. (s[h] - 1) :
             own[k] = own[s[h]] => k \in done \/ \E j \in 1 .. (h - 1) : s[j] = k
      BY <1>2, <2>1 DEF InOrder
    <3>1. m \in done \/ \E j \in 1 .. i : s[j] = m BY <2>1, <2>3, <3>0
    <3>2. ASSUME NEW j \in 1 .. i, s[j] = m
          PROVE  m \in done2 \/ \E k \in 1 .. (i - 1) : r[k] = m
      <4>1. CASE j = 1
        <5>1. m # Handshake BY DEF Handshake
        <5> QED BY <3>2, <4>1, <5>1
      <4>2. CASE j # 1
        <5>1. j - 1 \in 1 .. (i - 1) /\ j - 1 \in 1 .. Len(r) /\ r[j - 1] = s[j]
          BY <1>1, <4>2
        <5> QED BY <3>2, <5>1
      <4> QED BY <4>1, <4>2
    <3> QED BY <3>1, <3>2
  <2> QED BY <2>2, <2>3
<1>3. InOrder(r, own, done2) BY <1>2 DEF InOrder
<1> QED BY <1>3 DEF r

\* What is under way to the server is in the order of its user's writes.
LEMMA RequestsInOrder ==
    ASSUME IInv
    PROVE  InOrder(requests, owner, Settled)
<1> USE DEF IInv
<1>1. CASE ~handshakeComplete
  <2>1. requests = <<>> \/ requests = <<Handshake>>
    BY <1>1 DEF Stream, Call, Shaking, TypeOK
  <2>2. \A i \in 1 .. Len(requests) : requests[i] = Handshake BY <2>1
  <2> QED BY <2>2 DEF InOrder
<1>2. CASE handshakeComplete
  <2> DEFINE q == queue[user]
             k == Len(answers)
  <2>1. /\ requests \in Seq(Nat) /\ answers \in Seq(Nat) /\ pendingWrites \in Seq(Batch)
        /\ q \in Seq(Batch) /\ user \in Users
    BY DEF TypeOK
  <2>2. k \in Nat /\ Len(requests) \in Nat /\ Len(pendingWrites) \in Nat /\ Len(q) \in Nat
    BY <2>1
  <2>3. /\ k + Len(requests) <= Len(pendingWrites)
        /\ \A i \in 1 .. k : answers[i] = pendingWrites[i].no /\ answers[i] \in Settled
        /\ \A i \in 1 .. Len(requests) : requests[i] = pendingWrites[k + i].no
    BY <1>2 DEF Call, Writing, Settled
  <2>4. /\ Len(pendingWrites) <= Len(q)
        /\ \A i \in 1 .. Len(pendingWrites) : pendingWrites[i] = q[i]
    BY <2>2, PipelineAssumption DEF Front, Least
  <2>5. /\ \A i, j \in 1 .. Len(q) : i < j => q[i].no < q[j].no
        /\ \A i \in 1 .. Len(q) : q[i].no \in 1 .. Len(owner) /\ owner[q[i].no] = user
    BY <2>1 DEF Queues, Ordered
  <2>6. \A n \in 1 .. Len(owner) :
           owner[n] = user => n \in Settled \/ \E i \in 1 .. Len(q) : q[i].no = n
    BY DEF Kept
  <2> HIDE DEF q, k, IInv
  <2>7. ASSUME NEW i \in 1 .. k PROVE q[i].no \in Settled
    <3>1. i \in 1 .. Len(pendingWrites) BY <2>2, <2>3
    <3>2. q[i] = pendingWrites[i] BY <2>4, <3>1
    <3> QED BY <2>3, <3>2
  <2>8. \A i \in 1 .. Len(requests) : k + i \in 1 .. Len(q) /\ requests[i] = q[k + i].no
    BY <2>2, <2>3, <2>4
  <2>9. ASSUME NEW i \in 1 .. Len(requests)
        PROVE  /\ requests[i] \in 1 .. Len(owner)
               /\ \A m \in 1 .. (requests[i] - 1) :
                     owner[m] = owner[requests[i]] =>
                        m \in Settled \/ \E j \in 1 .. (i - 1) : requests[j] = m
    <3>1. requests[i] \in 1 .. Len(owner) /\ owner[requests[i]] = user BY <2>5, <2>8
    <3>2. ASSUME NEW m \in 1 .. (requests[i] - 1), owner[m] = owner[requests[i]], m \notin Settled
          PROVE  \E j \in 1 .. (i - 1) : requests[j] = m
      <4>1. m \in 1 .. Len(owner) /\ m < requests[i] BY <3>1
      <4>2. PICK h \in 1 .. Len(q) : q[h].no = m BY <2>6, <3>1, <3>2, <4>1
      <4>3. h < k + i
        <5>1. k + i \in 1 .. Len(q) /\ q[k + i].no = requests[i] BY <2>8
        <5>2. CASE h = k + i BY <4>1, <4>2, <5>1, <5>2
        <5>3. CASE k + i < h
          <6>1. q[k + i].no < q[h].no BY <2>5, <5>1, <5>3
          <6> QED BY <3>1, <4>1, <4>2, <5>1, <6>1
        <5> QED BY <2>2, <5>1, <5>2, <5>3
      <4>4. k < h
        <5>1. CASE h <= k
          <6>1. h \in 1 .. k BY <5>1
          <6> QED BY <2>7, <3>2, <4>2, <6>1
        <5> QED BY <2>2, <5>1
      <4>5. h - k \in 1 .. (i - 1) /\ h - k \in 1 .. Len(requests) /\ k + (h - k) = h
        BY <2>2, <4>3, <4>4
      <4>6. requests[h - k] = m BY <2>8, <4>2, <4>5
      <4> QED BY <4>5, <4>6
    <3> QED BY <3>1, <3>2
  <2> QED BY <2>9 DEF InOrder
<1> QED BY <1>1, <1>2

\* What is astray stays in order when the requests are let go.
LEMMA StraysStay ==
    ASSUME IInv, owner \in Seq(Users), owner' \in Seq(Users), Len(owner) <= Len(owner'),
           \A n \in 1 .. Len(owner) : owner'[n] = owner[n],
           Settled \subseteq Settled',
           \A s \in stray' : s \in stray \/ (s = requests /\ s # <<>>)
    PROVE  Strays'
<1>1. InOrder(requests, owner, Settled) BY RequestsInOrder
<1>2. \A s \in stray' : s \in Seq(Nat) /\ s # <<>> /\ InOrder(s, owner, Settled)
  BY <1>1 DEF IInv, Strays, TypeOK
<1>3. Len(owner) \in Nat /\ Len(owner') \in Nat OBVIOUS
<1>4. \A s \in stray' : InOrder(s, owner', Settled') BY <1>2, <1>3, InOrderStays
<1> QED BY <1>2, <1>4 DEF Strays

\* A step that leaves the queues and the pipeline alone.
LEMMA QueuesStay ==
    ASSUME IInv, UNCHANGED <<user, disk, nextBatchID, owner, pipeline>>, Settled \subseteq Settled'
    PROVE  Queues' /\ Kept' /\ Front'
<1>1. UNCHANGED <<user, queue, lastAcknowledged, nextBatchID, owner, pendingWrites, lastBatchSeen>>
  BY DEF disk, pipeline
<1>2. Queues' BY <1>1 DEF IInv, Queues
<1>3. Kept' BY <1>1 DEF IInv, Kept
<1>4. Front' BY <1>1 DEF IInv, Front
<1> QED BY <1>2, <1>3, <1>4

\* A stream that is not open, and whose next call begins with a handshake.
LEMMA AtRest ==
    ASSUME requests' = <<>>, answers' = <<>>, closing' = "no", idle' = FALSE,
           state' # "Open", isStarted' => handshakeComplete' = FALSE,
           pendingWrites' \in Seq(Batch), handshakeComplete' \in BOOLEAN
    PROVE  Stream' /\ Call'
<1>1. Stream' BY DEF Stream
<1>2. Writing'
  <2>1. Len(answers') = 0 /\ Len(requests') = 0 /\ Len(pendingWrites') \in Nat OBVIOUS
  <2>2. \A i \in 1 .. Len(answers') : FALSE BY <2>1
  <2>3. \A i \in 1 .. Len(requests') : FALSE BY <2>1
  <2>4. closing' # "permanent" OBVIOUS
  <2> QED BY <2>1, <2>2, <2>3, <2>4 DEF Writing
<1> QED BY <1>1, <1>2 DEF Call

\* How a stream comes to rest.
LEMMA RestFacts ==
    ASSUME NEW p, NEW st \in {"Initial", "Error"}, Rested(p, st), handshakeComplete \in BOOLEAN
    PROVE  /\ state' \in {"Initial", "Auth", "Error", "Backoff"}
           /\ handshakeComplete' \in BOOLEAN
           /\ isStarted' => handshakeComplete' = FALSE
<1>1. CASE p = <<>>
  <2>1. state' = st /\ handshakeComplete' = handshakeComplete BY <1>1 DEF Rested
  <2> QED BY <2>1 DEF isStarted
<1>2. CASE p # <<>>
  <2>1. state' = (IF st = "Error" THEN "Backoff" ELSE "Auth") /\ handshakeComplete' = FALSE
    BY <1>2 DEF Rested
  <2> QED BY <2>1
<1> QED BY <1>1, <1>2
-----------------------------------------------------------------------------
(* The pipeline                                                            *)

\* The pipeline after more of the queue q was put behind p.
Refilled(q, p, more, bound) ==
    /\ more \in Seq(Batch)
    /\ pendingWrites' \in Seq(Batch) /\ Len(pendingWrites') <= kMaxPendingWrites
    /\ Len(pendingWrites') = Least(kMaxPendingWrites, Len(q))
    /\ Len(pendingWrites') = Len(p) + Len(more)
    /\ \A i \in 1 .. Len(pendingWrites') : pendingWrites'[i] = q[i]
    /\ \A i \in 1 .. Len(more) : pendingWrites'[Len(p) + i] = more[i]
    /\ pendingWrites' # <<>> => lastBatchSeen' = pendingWrites'[Len(pendingWrites')].id
    /\ lastBatchSeen' < bound /\ lastBatchSeen' \in Nat \cup {Unknown}

\* Filling the front p of the queue q makes the new pipeline the front of q.
LEMMA FillFront ==
    ASSUME NEW q \in Seq(Batch), NEW p \in Seq(Batch),
           NEW ack \in Nat \cup {Unknown}, NEW seen \in Nat \cup {Unknown},
           Fits(q, p, Highest(seen, ack)),
           p # <<>> => seen = p[Len(p)].id,
           NEW more, more = Following(q, ack, p, seen), Fill(p, seen, more),
           NEW bound \in Nat, seen < bound, \A i \in 1 .. Len(q) : q[i].id < bound
    PROVE  Refilled(q, p, more, bound)
<1>1. ack \in Int /\ seen \in Int /\ Unknown \in Int BY DEF Unknown
<1>9. Extends(q, p, more) BY <1>1, Filled
<1> DEFINE r == p \o more
<1>2. /\ more \in Seq(Batch)
      /\ Len(more) \in Nat /\ Len(p) + Len(more) = Least(kMaxPendingWrites, Len(q))
      /\ \A i \in 1 .. Len(more) : more[i] = q[Len(p) + i]
      /\ r \in Seq(Batch) /\ Len(r) = Len(p) + Len(more)
      /\ \A i \in 1 .. Len(r) : r[i] = q[i]
  BY <1>9 DEF Extends
<1>10. \A i \in 1 .. Len(p) : p[i] = q[i] BY DEF Fits
<1>3. /\ pendingWrites' = r
      /\ lastBatchSeen' = IF more = <<>> THEN seen ELSE more[Len(more)].id
  BY DEF Fill
<1>4. Len(p) \in Nat /\ Len(q) \in Nat /\ kMaxPendingWrites \in Nat \ {0}
  BY PipelineAssumption
<1> HIDE DEF r
<1>5. Len(r) <= kMaxPendingWrites BY <1>2, <1>4 DEF Least
<1>6. ASSUME NEW i \in 1 .. Len(more) PROVE r[Len(p) + i] = more[i]
  <2>1. Len(p) + i \in 1 .. Len(r) BY <1>2, <1>4
  <2> QED BY <1>2, <2>1
<1>7. CASE more = <<>>
  <2>1. Len(more) = 0 /\ Len(r) = Len(p) /\ lastBatchSeen' = seen BY <1>2, <1>3, <1>4, <1>7
  <2>2. ASSUME r # <<>> PROVE seen = r[Len(r)].id
    <3>0. Len(p) # 0 BY <1>2, <2>1, <2>2
    <3>1. Len(p) \in 1 .. Len(p) BY <1>4, <3>0
    <3>2. p # <<>> /\ p[Len(p)] = q[Len(p)] BY <1>4, <1>10, <3>1
    <3>3. r[Len(r)] = q[Len(p)] BY <1>2, <2>1, <3>1
    <3> QED BY <3>2, <3>3
  <2>3. lastBatchSeen' < bound /\ lastBatchSeen' \in Nat \cup {Unknown} BY <2>1
  <2>4. r # <<>> => lastBatchSeen' = r[Len(r)].id BY <2>1, <2>2
  <2> HIDE DEF Unknown
  <2> QED BY <1>2, <1>3, <1>5, <1>6, <2>3, <2>4 DEF Refilled
<1>8. CASE more # <<>>
  <2>1. Len(more) \in 1 .. Len(more) BY <1>2, <1>8
  <2>2. r[Len(r)] = more[Len(more)] BY <1>2, <1>6, <2>1
  <2>5. Len(r) \in 1 .. Len(r) /\ Len(r) \in 1 .. Len(q) BY <1>2, <1>4, <2>1 DEF Least
  <2>6. r[Len(r)] = q[Len(r)] BY <1>2, <2>5
  <2>3. more[Len(more)] \in Batch BY <1>2, <2>1
  <2>4. lastBatchSeen' \in Nat /\ lastBatchSeen' < bound /\ lastBatchSeen' = r[Len(r)].id
    BY <1>3, <1>8, <2>2, <2>3, <2>5, <2>6 DEF Batch
  <2> QED BY <1>2, <1>3, <1>5, <1>6, <2>4 DEF Refilled
<1> QED BY <1>7, <1>8

\* What TypeOK, Queues and Front say of the open queue.
LEMMA OpenQueue ==
    ASSUME IInv
    PROVE  /\ user \in Users /\ queue[user] \in Seq(Batch) /\ Len(queue[user]) \in Nat
           /\ Ordered(queue[user])
           /\ \A i \in 1 .. Len(queue[user]) :
                 /\ queue[user][i].id \in Nat
                 /\ lastAcknowledged[user] < queue[user][i].id /\ queue[user][i].id < nextBatchID
           /\ pendingWrites \in Seq(Batch) /\ Len(pendingWrites) \in Nat
           /\ Len(pendingWrites) <= kMaxPendingWrites /\ Len(pendingWrites) <= Len(queue[user])
           /\ \A i \in 1 .. Len(pendingWrites) : pendingWrites[i] = queue[user][i]
           /\ pendingWrites = <<>> => queue[user] = <<>>
           /\ lastAcknowledged[user] \in Nat \cup {Unknown}
           /\ lastBatchSeen \in Nat \cup {Unknown} /\ nextBatchID \in Nat
<1>1. /\ user \in Users /\ queue[user] \in Seq(Batch) /\ pendingWrites \in Seq(Batch)
      /\ lastAcknowledged[user] \in Nat \cup {Unknown}
      /\ lastBatchSeen \in Nat \cup {Unknown} /\ nextBatchID \in Nat
  BY DEF IInv, TypeOK
<1>2. Len(queue[user]) \in Nat /\ Len(pendingWrites) \in Nat BY <1>1
<1>3. Ordered(queue[user])
  BY <1>1 DEF IInv, Queues
<1>4. \A i \in 1 .. Len(queue[user]) : queue[user][i] \in Batch BY <1>1
<1>5. \A i \in 1 .. Len(queue[user]) :
         /\ queue[user][i].id \in Nat
         /\ lastAcknowledged[user] < queue[user][i].id /\ queue[user][i].id < nextBatchID
  BY <1>1, <1>4 DEF IInv, Queues, Batch
<1>6. /\ Len(pendingWrites) <= kMaxPendingWrites /\ Len(pendingWrites) <= Len(queue[user])
      /\ Len(pendingWrites) = 0 => Len(queue[user]) = 0
  BY <1>2, PipelineAssumption DEF IInv, Front, Least
<1>7. \A i \in 1 .. Len(pendingWrites) : pendingWrites[i] = queue[user][i] BY DEF IInv, Front
<1>8. pendingWrites = <<>> => queue[user] = <<>> BY <1>1, <1>6
<1> QED BY <1>1, <1>2, <1>3, <1>5, <1>6, <1>7, <1>8
-----------------------------------------------------------------------------
(* The steps of the stream                                                 *)

\* What a step that leaves the queues and the pipeline alone has to show.
LEMMA CallStep ==
    ASSUME IInv, UNCHANGED <<user, disk, nextBatchID, owner, pipeline>>,
           committed' \subseteq Nat \ {0}, refused' \subseteq Nat \ {0}, Settled \subseteq Settled',
           state' \in {"Initial", "Auth", "Open", "Error", "Backoff"},
           handshakeComplete' \in BOOLEAN, idle' \in BOOLEAN,
           requests' \in Seq(Nat), answers' \in Seq(Nat),
           closing' \in {"no", "transient", "permanent"},
           faults' \in Nat, restarts' \in Nat,
           Stream', Call', stray' \subseteq Seq(Nat), Strays'
    PROVE  IInv'
<1>1. Queues' /\ Kept' /\ Front' BY QueuesStay
<1>2. TypeOK' BY DEF IInv, TypeOK, disk, pipeline
<1> QED BY <1>1, <1>2 DEF IInv

\* One that leaves what is settled alone too.
LEMMA StreamStep ==
    ASSUME IInv, UNCHANGED <<user, disk, nextBatchID, owner, pipeline, committed, refused>>,
           state' \in {"Initial", "Auth", "Open", "Error", "Backoff"},
           handshakeComplete' \in BOOLEAN, idle' \in BOOLEAN,
           requests' \in Seq(Nat), answers' \in Seq(Nat),
           closing' \in {"no", "transient", "permanent"},
           faults' \in Nat, restarts' \in Nat, Stream', Call',
           \A s \in stray' : s \in stray \/ (s = requests /\ s # <<>>)
    PROVE  IInv'
<1>1. Settled' = Settled BY DEF Settled
<1>2. owner' = owner /\ owner \in Seq(Users) BY DEF IInv, TypeOK
<1>3. Len(owner) \in Nat BY <1>2
<1>4. Strays' BY <1>1, <1>2, <1>3, StraysStay
<1>5. stray' \subseteq Seq(Nat) BY DEF IInv, TypeOK
<1>6. committed' \subseteq Nat \ {0} /\ refused' \subseteq Nat \ {0} BY DEF IInv, TypeOK
<1> QED BY <1>1, <1>4, <1>5, <1>6, CallStep

\* A token opens the stream: the call holds the handshake alone.
LEMMA TokenArrivesStep == ASSUME IInv, TokenArrives PROVE IInv'
<1> USE DEF TokenArrives
<1>1. /\ UNCHANGED <<user, disk, nextBatchID, owner, pipeline, committed, refused>>
      /\ UNCHANGED <<handshakeComplete, idle, answers, closing, stray, faults, restarts>>
  BY DEF server
<1>2. state # "Open" /\ handshakeComplete = FALSE /\ answers = <<>> /\ closing = "no" /\ idle = FALSE
  BY DEF IInv, TypeOK, Stream, isStarted
<1>3. state' = "Open" /\ requests' = <<Handshake>> OBVIOUS
<1>4. Handshake \in Nat BY DEF Handshake
<1>5. requests' \in Seq(Nat) BY <1>3, <1>4
<1>6. Stream' BY <1>1, <1>2, <1>3 DEF Stream
<1>7. Shaking' BY <1>1, <1>2, <1>3 DEF Shaking
<1>8. Call' BY <1>1, <1>2, <1>7 DEF Call
<1> QED BY <1>1, <1>2, <1>3, <1>5, <1>6, <1>8, StreamStep DEF IInv, TypeOK

\* A stream that comes to rest with its call let go.
LEMMA RestStep ==
    ASSUME IInv, UNCHANGED <<user, disk, nextBatchID, owner, pipeline, committed, refused>>,
           requests' = <<>>, answers' = <<>>, closing' = "no", idle' = FALSE,
           NEW st \in {"Initial", "Error"}, Rested(pendingWrites, st),
           faults' \in Nat, restarts' \in Nat,
           \A s \in stray' : s \in stray \/ (s = requests /\ s # <<>>)
    PROVE  IInv'
<1>1. handshakeComplete \in BOOLEAN /\ pendingWrites \in Seq(Batch) BY DEF IInv, TypeOK
<1>2. /\ state' \in {"Initial", "Auth", "Error", "Backoff"}
      /\ handshakeComplete' \in BOOLEAN
      /\ isStarted' => handshakeComplete' = FALSE
  BY <1>1, RestFacts
<1>3. pendingWrites' = pendingWrites BY DEF pipeline
<1>4. Stream' /\ Call' BY <1>1, <1>2, <1>3, AtRest
<1>5. requests' \in Seq(Nat) /\ answers' \in Seq(Nat) OBVIOUS
<1> QED BY <1>2, <1>4, <1>5, StreamStep

\* Without a token the stream rests or starts again; no call is under way.
LEMMA TokenFailsStep == ASSUME IInv, TokenFails PROVE IInv'
<1> USE DEF TokenFails
<1>1. /\ UNCHANGED <<user, disk, nextBatchID, owner, pipeline, committed, refused>>
      /\ UNCHANGED <<stray, requests, answers, closing, idle, restarts>>
  BY DEF server, call
<1>2. requests = <<>> /\ answers = <<>> /\ closing = "no" /\ idle = FALSE BY DEF IInv, Stream
<1>3. faults' \in Nat /\ restarts' \in Nat BY <1>1 DEF IInv, TypeOK
<1>4. Rested(pendingWrites, "Error") OBVIOUS
<1> QED BY <1>1, <1>2, <1>3, <1>4, RestStep

\* The delay over, the stream asks for a token; no call is under way.
LEMMA BackoffEndsStep == ASSUME IInv, BackoffEnds PROVE IInv'
<1> USE DEF BackoffEnds
<1>1. /\ UNCHANGED <<user, disk, nextBatchID, owner, pipeline, committed, refused>>
      /\ UNCHANGED <<stray, requests, answers, closing, idle, faults, restarts>>
      /\ state' = "Auth" /\ handshakeComplete' = FALSE
  BY DEF server, call
<1>2. requests = <<>> /\ answers = <<>> /\ closing = "no" /\ idle = FALSE BY DEF IInv, Stream
<1>3. pendingWrites' \in Seq(Batch) BY <1>1 DEF IInv, TypeOK, pipeline
<1>4. Stream' /\ Call' BY <1>1, <1>2, <1>3, AtRest
<1> QED BY <1>1, <1>2, <1>4, StreamStep DEF IInv, TypeOK

\* A call that failed is let go, and the pipeline waits for the next one.
LEMMA StreamFailsStep == ASSUME IInv, StreamFails PROVE IInv'
<1> USE DEF StreamFails
<1>1. /\ UNCHANGED <<user, disk, nextBatchID, owner, pipeline, committed, refused>>
      /\ UNCHANGED <<stray, faults, restarts>>
  BY DEF server
<1>2. requests' = <<>> /\ answers' = <<>> /\ closing' = "no" /\ idle' = FALSE BY DEF LetGo
<1>3. faults' \in Nat /\ restarts' \in Nat BY <1>1 DEF IInv, TypeOK
<1>4. Rested(pendingWrites, "Error") OBVIOUS
<1> QED BY <1>1, <1>2, <1>3, <1>4, RestStep

\* What Astray adds.
LEMMA AstrayFacts ==
    ASSUME Astray
    PROVE  \A s \in stray' : s \in stray \/ (s = requests /\ s # <<>>)
BY DEF Astray

\* An idle call is let go while nothing is in the pipeline.
LEMMA IdleTimeoutStep == ASSUME IInv, IdleTimeout PROVE IInv'
<1> USE DEF IdleTimeout
<1>1. UNCHANGED <<user, disk, nextBatchID, owner, pipeline, committed, refused, faults, restarts>>
  OBVIOUS
<1>2. requests' = <<>> /\ answers' = <<>> /\ closing' = "no" /\ idle' = FALSE BY DEF LetGo
<1>3. faults' \in Nat /\ restarts' \in Nat BY <1>1 DEF IInv, TypeOK
<1>4. Rested(pendingWrites, "Initial") OBVIOUS
<1>5. \A s \in stray' : s \in stray \/ (s = requests /\ s # <<>>) BY AstrayFacts
<1> QED BY <1>1, <1>2, <1>3, <1>4, <1>5, RestStep

\* After the handshake the call holds the pipeline, write for write.
LEMMA HandshakeAnsweredStep == ASSUME IInv, HandshakeAnswered PROVE IInv'
<1>1. /\ UNCHANGED <<user, disk, nextBatchID, owner, pipeline, committed, refused>>
      /\ UNCHANGED <<stray, state, closing, faults, restarts>>
      /\ answers # <<>> /\ ~handshakeComplete /\ handshakeComplete' = TRUE
      /\ answers' = Tail(answers)
      /\ requests' = Sent(pendingWrites) /\ idle' = (idle /\ pendingWrites = <<>>)
  BY DEF HandshakeAnswered, server
<1>2. pendingWrites' = pendingWrites /\ pendingWrites \in Seq(Batch)
  BY <1>1 DEF IInv, TypeOK, pipeline
<1>3. state = "Open" /\ Shaking BY <1>1 DEF IInv, Stream, Call
<1>4. answers = <<Handshake>> /\ requests = <<>> /\ closing \in {"no", "transient"}
  <2>1. closing \in {"no", "transient", "permanent"} BY DEF IInv, TypeOK
  <2>2. closing # "permanent" BY <1>1, <1>3 DEF Shaking
  <2>3. answers = <<Handshake>> BY <1>1, <1>3, <2>1, <2>2 DEF Shaking
  <2>4. requests = <<>> BY <1>1, <1>3, <2>1, <2>2 DEF Shaking, IInv, Call
  <2> QED BY <2>1, <2>2, <2>3, <2>4
<1>5. answers' = <<>> BY <1>1, <1>4
<1> DEFINE n == Numbers(pendingWrites)
<1>6. /\ n \in Seq(Nat) /\ Len(n) = Len(pendingWrites) /\ Len(pendingWrites) \in Nat
      /\ \A i \in 1 .. Len(pendingWrites) : n[i] = pendingWrites[i].no
  BY <1>2, NumbersFacts
<1>7. requests' = IF closing = "no" THEN n ELSE <<>>
  BY <1>1, <1>4, <1>6 DEF Sent
<1> HIDE DEF n
<1>8. requests' \in Seq(Nat) /\ answers' \in Seq(Nat) BY <1>5, <1>6, <1>7
<1>9. idle' \in BOOLEAN BY <1>1 DEF IInv, TypeOK
<1>10. Stream' BY <1>1, <1>2, <1>3 DEF Stream
<1>11. Writing'
  <2>1. Len(answers') = 0 BY <1>5
  <2>2. \A i \in 1 .. Len(answers') : FALSE BY <2>1
  <2>3. CASE closing = "no"
    <3>1. requests' = n /\ Len(requests') = Len(pendingWrites) BY <1>6, <1>7, <2>3
    <3>2. \A i \in 1 .. Len(requests') : requests'[i] = pendingWrites[Len(answers') + i].no
      BY <1>6, <2>1, <3>1
    <3>3. closing' = "no" BY <1>1, <2>3
    <3> QED BY <1>2, <1>6, <2>1, <2>2, <3>1, <3>2, <3>3 DEF Writing
  <2>4. CASE closing = "transient"
    <3>1. Len(requests') = 0 BY <1>7, <2>4
    <3>2. \A i \in 1 .. Len(requests') : FALSE BY <3>1
    <3>3. closing' = "transient" BY <1>1, <2>4
    <3> QED BY <1>2, <1>6, <2>1, <2>2, <3>1, <3>2, <3>3 DEF Writing
  <2> QED BY <1>4, <2>3, <2>4
<1>12. Call'
  <2>1. closing' # "no" => requests' = <<>> BY <1>1, <1>7
  <2> QED BY <1>1, <1>11, <2>1 DEF Call
<1> QED BY <1>1, <1>3, <1>8, <1>9, <1>10, <1>12, StreamStep DEF IInv, TypeOK
-----------------------------------------------------------------------------
(* The steps of the server and the network                                 *)

\* A call on which the server can read.
LEMMA ReadFacts ==
    ASSUME IInv, NEW n, Reads(n)
    PROVE  /\ state = "Open" /\ closing = "no" /\ requests \in Seq(Nat) /\ answers \in Seq(Nat)
           /\ Len(requests) \in Nat \ {0} /\ requests[1] = n /\ n \in Nat
           /\ Tail(requests) \in Seq(Nat) /\ Len(Tail(requests)) = Len(requests) - 1
           /\ \A i \in 1 .. Len(Tail(requests)) : Tail(requests)[i] = requests[i + 1]
           /\ n = Handshake => /\ ~handshakeComplete /\ answers = <<>>
                               /\ requests = <<Handshake>>
           /\ n # Handshake => handshakeComplete /\ Writing
<1>1. requests # <<>> /\ Head(requests) = n /\ closing = "no" BY DEF Reads
<1>2. /\ requests \in Seq(Nat) /\ answers \in Seq(Nat) /\ pendingWrites \in Seq(Batch)
      /\ handshakeComplete \in BOOLEAN
  BY DEF IInv, TypeOK
<1>3. state = "Open" BY <1>1 DEF IInv, Stream
<1>4. /\ Len(requests) \in Nat \ {0} /\ requests[1] = n /\ n \in Nat
      /\ Tail(requests) \in Seq(Nat) /\ Len(Tail(requests)) = Len(requests) - 1
      /\ \A i \in 1 .. Len(Tail(requests)) : Tail(requests)[i] = requests[i + 1]
  BY <1>1, <1>2, TailFacts
<1>5. CASE ~handshakeComplete
  <2>1. answers = <<>> /\ requests = <<Handshake>>
    BY <1>1, <1>3, <1>5 DEF IInv, Call, Shaking
  <2>2. n = Handshake BY <1>4, <2>1
  <2> QED BY <1>1, <1>2, <1>3, <1>4, <1>5, <2>1, <2>2
<1>6. CASE handshakeComplete
  <2>1. Writing BY <1>6 DEF IInv, Call
  <2>2. Len(answers) \in Nat /\ Len(pendingWrites) \in Nat BY <1>2
  <2>3. Len(answers) + 1 \in 1 .. Len(pendingWrites) /\ 1 \in 1 .. Len(requests)
    BY <1>4, <2>1, <2>2 DEF Writing
  <2>4. n = pendingWrites[Len(answers) + 1].no BY <1>4, <2>1, <2>3 DEF Writing
  <2>5. n # Handshake
    <3>1. pendingWrites[Len(answers) + 1] \in Batch BY <1>2, <2>3
    <3> QED BY <2>4, <3>1 DEF Batch, Handshake
  <2> QED BY <1>1, <1>2, <1>3, <1>4, <1>6, <2>1, <2>5
<1> QED BY <1>2, <1>5, <1>6

\* The server answers the handshake; no write is on the call yet.
LEMMA HandshakeAcceptedStep == ASSUME IInv, HandshakeAccepted PROVE IInv'
<1>1. /\ UNCHANGED <<user, disk, nextBatchID, owner, pipeline, committed, refused>>
      /\ UNCHANGED <<stray, state, handshakeComplete, idle, closing, faults, restarts>>
      /\ requests' = Tail(requests) /\ answers' = Append(answers, Handshake)
  BY DEF HandshakeAccepted, server, stream
<1>2. /\ state = "Open" /\ closing = "no" /\ ~handshakeComplete
      /\ answers = <<>> /\ requests = <<Handshake>>
  BY ReadFacts DEF HandshakeAccepted
<1>3. requests' = <<>> /\ answers' = <<Handshake>> BY <1>1, <1>2
<1>4. requests' \in Seq(Nat) /\ answers' \in Seq(Nat) BY <1>3 DEF Handshake
<1>5. pendingWrites' = pendingWrites BY <1>1 DEF pipeline
<1>6. Stream' BY <1>1, <1>2, <1>5 DEF IInv, Stream, isStarted
<1>7. Shaking' BY <1>1, <1>2, <1>3 DEF Shaking
<1>8. Call' BY <1>1, <1>2, <1>3, <1>7 DEF Call
<1> QED BY <1>1, <1>4, <1>6, <1>8, StreamStep DEF IInv, TypeOK

\* A refused handshake ends the call before any write was on it.
LEMMA HandshakeRefusedStep == ASSUME IInv, HandshakeRefused PROVE IInv'
<1>1. /\ UNCHANGED <<user, disk, nextBatchID, owner, pipeline, committed, refused>>
      /\ UNCHANGED <<stray, state, handshakeComplete, idle, answers, restarts>>
      /\ requests' = <<>> /\ closing' = "permanent" /\ faults' = faults + 1
  BY DEF HandshakeRefused, server, stream
<1>2. state = "Open" /\ ~handshakeComplete /\ answers = <<>> BY ReadFacts DEF HandshakeRefused
<1>3. requests' \in Seq(Nat) /\ answers' \in Seq(Nat) BY <1>1, <1>2
<1>4. pendingWrites' = pendingWrites BY <1>1 DEF pipeline
<1>5. Stream' BY <1>1, <1>2, <1>4 DEF IInv, Stream, isStarted
<1>6. Shaking' BY <1>1, <1>2 DEF Shaking
<1>7. Call' BY <1>1, <1>2, <1>6 DEF Call
<1> QED BY <1>1, <1>3, <1>5, <1>7, StreamStep DEF IInv, TypeOK

\* What a step has to show that settles writes and moves the call.
LEMMA SettleStep ==
    ASSUME IInv, UNCHANGED <<user, disk, nextBatchID, owner, pipeline, stream, stray, faults, restarts>>,
           state = "Open", handshakeComplete, NEW n \in Nat \ {0},
           \/ committed' = committed \cup {n} /\ refused' = refused
           \/ refused' = refused \cup {n} /\ committed' = committed,
           requests' \in Seq(Nat), answers' \in Seq(Nat),
           closing' \in {"no", "transient", "permanent"},
           closing' # "no" => requests' = <<>>, Writing'
    PROVE  IInv'
<1>1. UNCHANGED <<state, handshakeComplete, idle, owner, pendingWrites>> BY DEF stream, pipeline
<1>2. Settled \subseteq Settled' BY DEF Settled
<1>3. owner \in Seq(Users) /\ stray \subseteq Seq(Nat) BY DEF IInv, TypeOK
<1>4. Len(owner) \in Nat BY <1>3
<1>5. Strays' BY <1>1, <1>2, <1>3, <1>4, StraysStay
<1>6. Stream' BY <1>1 DEF IInv, Stream, isStarted
<1>7. Call' BY <1>1 DEF Call
<1>8. committed' \subseteq Nat \ {0} /\ refused' \subseteq Nat \ {0} BY DEF IInv, TypeOK
<1>9. /\ state' \in {"Initial", "Auth", "Open", "Error", "Backoff"}
      /\ handshakeComplete' \in BOOLEAN /\ idle' \in BOOLEAN
      /\ faults' \in Nat /\ restarts' \in Nat
  BY <1>1 DEF IInv, TypeOK
<1> QED BY <1>2, <1>3, <1>5, <1>6, <1>7, <1>8, <1>9, CallStep

\* A write the server stores moves from the requests to the answers of the call.
LEMMA CommitStep == ASSUME IInv, NEW n, Commit(n) PROVE IInv'
<1>1. /\ UNCHANGED <<user, disk, nextBatchID, owner, pipeline, stream, stray, faults, restarts>>
      /\ closing' = closing /\ committed' = committed \cup {n} /\ refused' = refused
      /\ n # Handshake /\ Reads(n)
  BY DEF Commit
<1>2. requests' = Tail(requests) /\ answers' = Append(answers, n) BY DEF Commit
<1> DEFINE r == requests'
           a == answers'
           k == Len(answers)
<1>3. /\ state = "Open" /\ closing = "no" /\ n \in Nat \ {0} /\ handshakeComplete /\ Writing
      /\ requests \in Seq(Nat) /\ answers \in Seq(Nat)
      /\ Len(requests) \in Nat \ {0} /\ requests[1] = n
      /\ r \in Seq(Nat) /\ Len(r) = Len(requests) - 1
      /\ \A i \in 1 .. Len(r) : r[i] = requests[i + 1]
  BY <1>1, <1>2, ReadFacts DEF Handshake
<1>4. /\ a \in Seq(Nat) /\ k \in Nat /\ Len(a) = k + 1 /\ a[k + 1] = n
      /\ \A i \in 1 .. k : a[i] = answers[i]
  BY <1>2, <1>3
<1> HIDE DEF r, a, k
<1>5. /\ k + Len(requests) = Len(pendingWrites) /\ Len(pendingWrites) \in Nat
      /\ \A i \in 1 .. k : answers[i] = pendingWrites[i].no /\ answers[i] \in committed
      /\ \A i \in 1 .. Len(requests) : requests[i] = pendingWrites[k + i].no
  BY <1>3 DEF Writing, IInv, TypeOK, k
<1>6. Len(a) + Len(r) = Len(pendingWrites)
  <2>1. Len(a) = k + 1 /\ k \in Nat BY <1>4
  <2>2. Len(r) = Len(requests) - 1 /\ Len(requests) \in Nat BY <1>3
  <2>3. k + Len(requests) = Len(pendingWrites) BY <1>5
  <2> QED BY <2>1, <2>2, <2>3
<1>7. ASSUME NEW i \in 1 .. Len(a) PROVE a[i] = pendingWrites[i].no /\ a[i] \in committed'
  <2>1. CASE i = k + 1
    <3>1. 1 \in 1 .. Len(requests) BY <1>3
    <3>2. requests[1] = pendingWrites[k + 1].no BY <1>5, <3>1
    <3> QED BY <1>1, <1>3, <1>4, <2>1, <3>2
  <2>2. CASE i # k + 1
    <3>1. i \in 1 .. k BY <1>4, <2>2
    <3> QED BY <1>1, <1>4, <1>5, <3>1
  <2> QED BY <2>1, <2>2
<1>8. ASSUME NEW i \in 1 .. Len(r) PROVE r[i] = pendingWrites[Len(a) + i].no
  <2>1. i + 1 \in 1 .. Len(requests) /\ k + (i + 1) = Len(a) + i BY <1>3, <1>4
  <2> QED BY <1>3, <1>5, <2>1
<1>9. pendingWrites' = pendingWrites BY <1>1 DEF pipeline
<1>10. closing' = "no" BY <1>1, <1>3
<1>11. Writing'
  <2>1. answers' = a /\ requests' = r BY DEF a, r
  <2>2. Len(a) + Len(r) <= Len(pendingWrites) BY <1>5, <1>6
  <2> QED BY <1>6, <1>7, <1>8, <1>9, <1>10, <2>1, <2>2 DEF Writing
<1>12. requests' \in Seq(Nat) /\ answers' \in Seq(Nat) BY <1>3, <1>4 DEF r, a
<1> QED BY <1>1, <1>3, <1>10, <1>11, <1>12, SettleStep

\* A refused write is the next one after the answers, and the last that is read.
LEMMA RefuseStep == ASSUME IInv, NEW n, Refuse(n) PROVE IInv'
<1>1. /\ UNCHANGED <<user, disk, nextBatchID, owner, pipeline, stream, stray, faults, restarts>>
      /\ refused' = refused \cup {n} /\ committed' = committed
      /\ n # Handshake /\ Reads(n)
  BY DEF Refuse
<1>2. requests' = <<>> /\ closing' = "permanent" /\ answers' = answers BY DEF Refuse
<1>3. /\ state = "Open" /\ n \in Nat \ {0} /\ handshakeComplete /\ Writing
      /\ answers \in Seq(Nat) /\ Len(requests) \in Nat \ {0} /\ requests[1] = n
  BY <1>1, ReadFacts DEF Handshake
<1> DEFINE k == Len(answers)
<1>4. /\ k + Len(requests) <= Len(pendingWrites) /\ Len(pendingWrites) \in Nat /\ k \in Nat
      /\ \A i \in 1 .. k : answers[i] = pendingWrites[i].no /\ answers[i] \in committed
      /\ \A i \in 1 .. Len(requests) : requests[i] = pendingWrites[k + i].no
  BY <1>3 DEF Writing, IInv, TypeOK
<1> HIDE DEF k
<1>5. k + 0 <= Len(pendingWrites) /\ k < Len(pendingWrites) BY <1>3, <1>4
<1>6. pendingWrites[k + 1].no \in refused'
  <2>1. 1 \in 1 .. Len(requests) BY <1>3
  <2> QED BY <1>1, <1>3, <1>4, <2>1
<1>7. pendingWrites' = pendingWrites BY <1>1 DEF pipeline
<1>8. Len(requests') = 0 BY <1>2
<1>9. \A i \in 1 .. Len(requests') : FALSE BY <1>8
<1>10. Len(answers') = k BY <1>2 DEF k
<1>11. Writing' BY <1>1, <1>2, <1>4, <1>5, <1>6, <1>7, <1>8, <1>9, <1>10 DEF Writing
<1>12. requests' \in Seq(Nat) /\ answers' \in Seq(Nat) BY <1>2, <1>3
<1> QED BY <1>1, <1>2, <1>3, <1>11, <1>12, SettleStep

\* A front of a sequence.
LEMMA PrefixFacts ==
    ASSUME NEW S, NEW q \in Seq(S), NEW k \in 0 .. Len(q)
    PROVE  /\ SubSeq(q, 1, k) \in Seq(S) /\ Len(SubSeq(q, 1, k)) = k
           /\ \A i \in 1 .. k : SubSeq(q, 1, k)[i] = q[i]
<1>1. Len(q) \in Nat /\ k \in Int /\ 1 \in Int /\ k - 1 + 1 = k OBVIOUS
<1>2. \A i \in 1 .. k : q[i] \in S OBVIOUS
<1>3. /\ SubSeq(q, 1, k) \in Seq(S)
      /\ Len(SubSeq(q, 1, k)) = IF 1 <= k THEN k - 1 + 1 ELSE 0
      /\ \A i \in 1 .. k - 1 + 1 : SubSeq(q, 1, k)[i] = q[1 + i - 1]
  BY <1>1, <1>2, SubSeqProperties
<1>4. Len(SubSeq(q, 1, k)) = k BY <1>1, <1>3
<1>5. \A i \in 1 .. k : SubSeq(q, 1, k)[i] = q[i]
  <2> SUFFICES ASSUME NEW i \in 1 .. k PROVE SubSeq(q, 1, k)[i] = q[i] OBVIOUS
  <2>1. i \in 1 .. k - 1 + 1 /\ 1 + i - 1 = i BY <1>1
  <2> QED BY <1>3, <2>1
<1> QED BY <1>3, <1>4, <1>5

\* A broken call keeps its first answers; its requests go astray in their order.
LEMMA CallBreaksStep == ASSUME IInv, CallBreaks PROVE IInv'
<1>1. /\ UNCHANGED <<user, disk, nextBatchID, owner, pipeline, committed, refused>>
      /\ UNCHANGED <<state, handshakeComplete, idle, restarts>>
      /\ state = "Open" /\ closing # "transient"
      /\ requests' = <<>> /\ closing' = "transient" /\ faults' = faults + 1 /\ Astray
  BY DEF CallBreaks, stream
<1>2. PICK k \in 0 .. Len(answers) : answers' = SubSeq(answers, 1, k) BY DEF CallBreaks
<1>3. answers \in Seq(Nat) /\ Len(answers) \in Nat /\ requests \in Seq(Nat) /\ Len(requests) \in Nat
  BY DEF IInv, TypeOK
<1> DEFINE a == answers'
<1>4. a \in Seq(Nat) /\ Len(a) = k /\ \A i \in 1 .. k : a[i] = answers[i]
  BY <1>2, <1>3, PrefixFacts
<1> HIDE DEF a
<1>5. pendingWrites' = pendingWrites /\ pendingWrites \in Seq(Batch) /\ Len(pendingWrites) \in Nat
  BY <1>1 DEF pipeline, IInv, TypeOK
<1>6. Stream' BY <1>1, <1>5 DEF IInv, Stream, isStarted
<1>7. ASSUME ~handshakeComplete PROVE a \in {<<>>, <<Handshake>>}
  <2>1. answers \in {<<>>, <<Handshake>>}
    BY <1>1, <1>7 DEF IInv, TypeOK, Call, Shaking
  <2>2. CASE k = 0
    <3>1. a = <<>> BY <1>4, <2>2
    <3> QED BY <3>1
  <2>3. CASE k # 0
    <3>1. Len(answers) # 0 BY <1>3, <2>3
    <3>2. answers = <<Handshake>> BY <2>1, <3>1
    <3>3. k = 1 BY <2>3, <3>2
    <3>4. 1 \in 1 .. k BY <3>3
    <3>5. Len(a) = 1 /\ a[1] = Handshake BY <1>4, <3>2, <3>3, <3>4
    <3>6. a = <<a[1]>> BY <1>4, <3>5
    <3> QED BY <3>5, <3>6
  <2> QED BY <2>2, <2>3
<1>8. ASSUME handshakeComplete PROVE Writing'
  <2>1. /\ Len(answers) + Len(requests) <= Len(pendingWrites)
        /\ \A i \in 1 .. Len(answers) : answers[i] = pendingWrites[i].no /\ answers[i] \in committed
    BY <1>8 DEF IInv, Call, Writing
  <2>2. ASSUME NEW i \in 1 .. k PROVE a[i] = pendingWrites[i].no /\ a[i] \in committed
    <3>1. i \in 1 .. Len(answers) BY <1>3
    <3> QED BY <1>4, <2>1, <3>1
  <2>3. k + 0 <= Len(pendingWrites) BY <1>3, <1>5, <2>1
  <2>4. Len(requests') = 0 BY <1>1
  <2>5. \A i \in 1 .. Len(requests') : FALSE BY <2>4
  <2>6. answers' = a /\ committed' = committed BY <1>1 DEF a
  <2> QED BY <1>1, <1>4, <1>5, <2>2, <2>3, <2>4, <2>5, <2>6 DEF Writing
<1>9. Call'
  <2>1. ASSUME ~handshakeComplete PROVE Shaking'
    <3>1. answers' \in {<<>>, <<Handshake>>} BY <1>7, <2>1 DEF a
    <3> QED BY <1>1, <3>1 DEF Shaking
  <2> QED BY <1>1, <1>8, <2>1 DEF Call
<1>10. requests' \in Seq(Nat) /\ answers' \in Seq(Nat) BY <1>1, <1>4 DEF a
<1>11. \A s \in stray' : s \in stray \/ (s = requests /\ s # <<>>) BY <1>1, AstrayFacts
<1>12. /\ state' \in {"Initial", "Auth", "Open", "Error", "Backoff"}
       /\ handshakeComplete' \in BOOLEAN /\ idle' \in BOOLEAN
       /\ faults' \in Nat /\ restarts' \in Nat
  BY <1>1 DEF IInv, TypeOK
<1> QED BY <1>1, <1>6, <1>9, <1>10, <1>11, <1>12, StreamStep

\* What the server may do with the first of the stray requests s.
LEMMA StrayFacts ==
    ASSUME IInv, NEW s \in stray, StrayArrives(s)
    PROVE  /\ s \in Seq(Nat) /\ s # <<>> /\ Head(s) = s[1] /\ s[1] \in Nat /\ Tail(s) \in Seq(Nat)
           /\ InOrder(s, owner, Settled)
           /\ \/ s[1] = Handshake /\ committed' = committed /\ refused' = refused
              \/ s[1] # Handshake /\ committed' = committed \cup {s[1]} /\ refused' = refused
              \/ s[1] # Handshake /\ refused' = refused \cup {s[1]} /\ committed' = committed
           /\ \A t \in stray' : t \in stray \/ (t = Tail(s) /\ t # <<>> /\ (s[1] = Handshake \/ s[1] \in Settled'))
<1>1. s \in Seq(Nat) /\ s # <<>> /\ InOrder(s, owner, Settled)
  BY DEF IInv, TypeOK, Strays
<1>2. Head(s) = s[1] /\ s[1] \in Nat /\ Tail(s) \in Seq(Nat)
  BY <1>1, TailFacts
<1>3. \/ s[1] = Handshake /\ committed' = committed /\ refused' = refused
      \/ s[1] # Handshake /\ committed' = committed \cup {s[1]} /\ refused' = refused
      \/ s[1] # Handshake /\ refused' = refused \cup {s[1]} /\ committed' = committed
  BY <1>2 DEF StrayArrives
<1>4. s[1] = Handshake \/ s[1] \in Settled' BY <1>3 DEF Settled
<1>5. ASSUME NEW t \in stray' PROVE t \in stray \/ (t = Tail(s) /\ t # <<>>)
  <2>1. stray' \subseteq stray \cup (IF Tail(s) = <<>> THEN {} ELSE {Tail(s)}) BY DEF StrayArrives
  <2> QED BY <2>1
<1> QED BY <1>1, <1>2, <1>3, <1>4, <1>5

\* A stray write is decided on when all writes of its owner before it are.
LEMMA StrayArrivesStep == ASSUME IInv, NEW s \in stray, StrayArrives(s) PROVE IInv'
<1>1. UNCHANGED <<user, disk, nextBatchID, owner, pipeline, stream, call, faults, restarts>>
  BY DEF StrayArrives
<1>2. UNCHANGED <<owner, pendingWrites, state, handshakeComplete, idle, requests, answers, closing>>
  BY <1>1 DEF pipeline, stream, call
<1>3. committed \subseteq committed' /\ refused \subseteq refused' BY StrayFacts
<1>4. Settled \subseteq Settled' BY <1>3 DEF Settled
<1>5. committed' \subseteq Nat \ {0} /\ refused' \subseteq Nat \ {0}
  BY StrayFacts DEF IInv, TypeOK, Handshake
<1>6. Stream' BY <1>2 DEF IInv, Stream, isStarted
<1>7. Call'
  <2>1. ASSUME state = "Open", ~handshakeComplete PROVE Shaking'
    BY <1>2, <2>1 DEF IInv, Call, Shaking
  <2>2. ASSUME handshakeComplete PROVE Writing'
    BY <1>2, <1>3, <2>2 DEF IInv, Call, Writing
  <2> QED BY <1>2, <2>1, <2>2 DEF IInv, Call
<1>8. owner \in Seq(Users) /\ Len(owner) \in Nat BY DEF IInv, TypeOK
<1>9. ASSUME NEW t \in stray' PROVE t \in Seq(Nat) /\ t # <<>> /\ InOrder(t, owner, Settled')
  <2>1. CASE t \in stray
    <3>1. t \in Seq(Nat) /\ t # <<>> /\ InOrder(t, owner, Settled)
      BY <2>1 DEF IInv, TypeOK, Strays
    <3>2. Len(owner) <= Len(owner) /\ \A n \in 1 .. Len(owner) : owner[n] = owner[n] BY <1>8
    <3>3. InOrder(t, owner, Settled') BY <1>4, <1>8, <3>1, <3>2, InOrderStays
    <3> QED BY <3>1, <3>3
  <2>2. CASE t = Tail(s) /\ t # <<>> /\ (s[1] = Handshake \/ s[1] \in Settled')
    <3>1. s \in Seq(Nat) /\ s # <<>> /\ InOrder(s, owner, Settled) /\ Tail(s) \in Seq(Nat)
      BY StrayFacts
    <3>2. InOrder(Tail(s), owner, Settled') BY <1>4, <2>2, <3>1, InOrderTail
    <3> QED BY <2>2, <3>1, <3>2
  <2> QED BY <2>1, <2>2, StrayFacts
<1>10. Strays' /\ stray' \subseteq Seq(Nat) BY <1>2, <1>9 DEF Strays
<1>11. /\ state' \in {"Initial", "Auth", "Open", "Error", "Backoff"}
       /\ handshakeComplete' \in BOOLEAN /\ idle' \in BOOLEAN
       /\ requests' \in Seq(Nat) /\ answers' \in Seq(Nat)
       /\ closing' \in {"no", "transient", "permanent"} /\ faults' \in Nat /\ restarts' \in Nat
  BY <1>1, <1>2 DEF IInv, TypeOK
<1> QED BY <1>1, <1>4, <1>5, <1>6, <1>7, <1>10, <1>11, CallStep

-----------------------------------------------------------------------------
(* The steps of the queue                                                  *)

\* lastBatchSeen parts the open queue into the pipeline and the rest.
LEMMA SeenIs ==
    ASSUME IInv, pendingWrites # <<>>
    PROVE  /\ Len(pendingWrites) \in 1 .. Len(queue[user]) /\ 1 \in 1 .. Len(queue[user])
           /\ lastBatchSeen = queue[user][Len(pendingWrites)].id
           /\ \A i \in 1 .. Len(queue[user]) :
                 i <= Len(pendingWrites) <=> queue[user][i].id <= lastBatchSeen
           /\ queue[user][1].id <= lastBatchSeen /\ lastAcknowledged[user] < lastBatchSeen
           /\ lastBatchSeen \in Nat
<1> DEFINE q == queue[user]
           n == Len(pendingWrites)
<1>1. /\ q \in Seq(Batch) /\ Len(q) \in Nat /\ Ordered(q)
      /\ \A i \in 1 .. Len(q) : q[i].id \in Nat /\ lastAcknowledged[user] < q[i].id
      /\ n \in Nat /\ n <= Len(q) /\ \A i \in 1 .. n : pendingWrites[i] = q[i]
      /\ lastAcknowledged[user] \in Nat \cup {Unknown} /\ pendingWrites \in Seq(Batch)
  BY OpenQueue
<1>2. n # 0 BY <1>1
<1>3. lastBatchSeen = pendingWrites[n].id BY DEF IInv, Front
<1> HIDE DEF q, n
<1>4. n \in 1 .. Len(q) /\ 1 \in 1 .. Len(q) /\ n \in 1 .. n BY <1>1, <1>2
<1>5. lastBatchSeen = q[n].id /\ lastBatchSeen \in Nat BY <1>1, <1>3, <1>4
<1>6. ASSUME NEW i \in 1 .. Len(q) PROVE i <= n <=> q[i].id <= lastBatchSeen
  <2>0. q[i].id \in Nat /\ q[n].id \in Nat BY <1>1, <1>4
  <2>1. CASE i < n
    <3>1. q[i].id < q[n].id BY <1>1, <1>4, <2>1 DEF Ordered
    <3>2. q[i].id <= lastBatchSeen BY <1>5, <2>0, <3>1
    <3>3. i <= n BY <1>4, <2>1
    <3> QED BY <3>2, <3>3
  <2>2. CASE i = n
    <3>1. q[i].id <= lastBatchSeen /\ i <= n BY <1>4, <1>5, <2>0, <2>2
    <3> QED BY <3>1
  <2>3. CASE n < i
    <3>1. q[n].id < q[i].id BY <1>1, <1>4, <2>3 DEF Ordered
    <3>2. ~(q[i].id <= lastBatchSeen) BY <1>5, <2>0, <3>1
    <3>3. ~(i <= n) BY <1>4, <2>3
    <3> QED BY <3>2, <3>3
  <2> QED BY <1>1, <2>1, <2>2, <2>3
<1>7. 1 <= n BY <1>4
<1>8. q[1].id <= lastBatchSeen BY <1>4, <1>6, <1>7
<1>9. lastAcknowledged[user] < lastBatchSeen BY <1>1, <1>4, <1>5
<1> QED BY <1>4, <1>5, <1>6, <1>8, <1>9 DEF q, n

\* The first write of the pipeline leaves the queue, and the pipeline is filled.
HeadLeaves(ack, more) ==
    /\ queue' = [queue EXCEPT ![user] = Without(@, Head(pendingWrites).id)]
    /\ lastAcknowledged' = [lastAcknowledged EXCEPT ![user] = ack]
    /\ more = Following(Without(queue[user], Head(pendingWrites).id), ack, Tail(pendingWrites),
                        lastBatchSeen)
    /\ Fill(Tail(pendingWrites), lastBatchSeen, more)
    /\ UNCHANGED <<user, nextBatchID, owner, committed, refused>>

\* What it leaves: the tail of the queue, and the tail of the pipeline with more behind it.
TailStays(more) ==
    /\ pendingWrites[1] = queue[user][1] /\ queue[user] # <<>>
    /\ queue' = [queue EXCEPT ![user] = Tail(@)]
    /\ queue' \in [Users -> Seq(Batch)]
    /\ lastAcknowledged' \in [Users -> Nat \cup {Unknown}]
    /\ pendingWrites' \in Seq(Batch) /\ Len(pendingWrites') <= kMaxPendingWrites
    /\ lastBatchSeen' \in Nat \cup {Unknown}
    /\ more \in Seq(Batch) /\ Len(more) \in Nat
    /\ Len(pendingWrites') = Len(pendingWrites) - 1 + Len(more)
    /\ \A i \in 1 .. Len(pendingWrites) - 1 : pendingWrites'[i] = pendingWrites[i + 1]
    /\ \A i \in 1 .. Len(more) : pendingWrites'[Len(pendingWrites) - 1 + i] = more[i]

\* The first write of the pipeline leaves both it and the open queue, and the room is filled.
LEMMA HeadGoes ==
    ASSUME IInv, pendingWrites # <<>>, pendingWrites[1].no \in Settled,
           NEW ack \in {lastAcknowledged[user], pendingWrites[1].id}, NEW more, HeadLeaves(ack, more)
    PROVE  Queues' /\ Kept' /\ Front' /\ TailStays(more)
<1> DEFINE q == queue[user]
           r == Tail(q)
           p == pendingWrites
           rest == Tail(p)
           seen == lastBatchSeen
<1>1. /\ q \in Seq(Batch) /\ Len(q) \in Nat /\ Ordered(q) /\ user \in Users
      /\ \A i \in 1 .. Len(q) :
            q[i].id \in Nat /\ lastAcknowledged[user] < q[i].id /\ q[i].id < nextBatchID
      /\ p \in Seq(Batch) /\ Len(p) \in Nat /\ Len(p) <= Len(q) /\ Len(p) <= kMaxPendingWrites
      /\ \A i \in 1 .. Len(p) : p[i] = q[i]
      /\ lastAcknowledged[user] \in Nat \cup {Unknown}
      /\ seen \in Nat \cup {Unknown} /\ nextBatchID \in Nat
  BY OpenQueue
<1>2. /\ Len(p) \in 1 .. Len(q) /\ 1 \in 1 .. Len(q)
      /\ \A i \in 1 .. Len(q) : i <= Len(p) <=> q[i].id <= seen
      /\ q[1].id <= seen /\ lastAcknowledged[user] < seen /\ seen \in Nat
      /\ seen = q[Len(p)].id
  BY SeenIs
<1>3. Len(q) # 0 /\ 1 \in 1 .. Len(p) BY <1>1, <1>2
<1>4. p[1] = q[1] /\ q # <<>> BY <1>1, <1>3
<1>5. /\ Head(p) = p[1] /\ rest \in Seq(Batch) /\ Len(rest) = Len(p) - 1
      /\ \A i \in 1 .. Len(rest) : rest[i] = p[i + 1]
  BY <1>1, TailFacts
<1>6. /\ r \in Seq(Batch) /\ Len(r) = Len(q) - 1
      /\ \A i \in 1 .. Len(r) : r[i] = q[i + 1]
  BY <1>1, <1>4, TailFacts
<1>7. Ordered(r) /\ \A i \in 1 .. Len(r) : q[1].id < r[i].id BY <1>1, <1>4, OrderedTail
<1>8. Without(q, q[1].id) = r BY <1>1, <1>4, WithoutHead
<1>9. Without(q, Head(p).id) = r BY <1>4, <1>5, <1>8
<1>10. /\ queue' = [queue EXCEPT ![user] = r]
       /\ lastAcknowledged' = [lastAcknowledged EXCEPT ![user] = ack]
       /\ more = Following(r, ack, rest, seen) /\ Fill(rest, seen, more)
       /\ user' = user /\ nextBatchID' = nextBatchID /\ owner' = owner
       /\ committed' = committed /\ refused' = refused
  BY <1>9 DEF HeadLeaves
<1>11. queue \in [Users -> Seq(Batch)] /\ lastAcknowledged \in [Users -> Nat \cup {Unknown}]
  BY DEF IInv, TypeOK
<1>12. ack \in Nat \cup {Unknown} /\ ack <= seen /\ ack < nextBatchID
  <2>1. q[1].id \in Nat /\ q[1].id < nextBatchID /\ lastAcknowledged[user] < q[1].id BY <1>1, <1>2
  <2>2. CASE ack = lastAcknowledged[user] BY <1>1, <1>2, <2>1, <2>2 DEF Unknown
  <2>3. CASE ack = p[1].id BY <1>1, <1>2, <1>4, <2>1, <2>3
  <2> QED BY <2>2, <2>3
<1>13. /\ queue'[user'] = r /\ \A u \in Users : u # user => queue'[u] = queue[u]
       /\ lastAcknowledged'[user'] = ack
       /\ \A u \in Users : u # user => lastAcknowledged'[u] = lastAcknowledged[u]
  BY <1>1, <1>10, <1>11
<1>14. queue' = [queue EXCEPT ![user] = Tail(@)] BY <1>10
<1>15. queue' \in [Users -> Seq(Batch)] /\ lastAcknowledged' \in [Users -> Nat \cup {Unknown}]
  BY <1>6, <1>10, <1>11, <1>12
<1>16. Highest(seen, ack) = seen BY <1>2, <1>12 DEF Highest, Unknown
<1> HIDE DEF q, r, p, rest, seen
<1>17. Fits(r, rest, seen)
  <2>1. Len(rest) <= kMaxPendingWrites /\ Len(rest) <= Len(r)
    BY <1>1, <1>5, <1>6, PipelineAssumption
  <2>2. ASSUME NEW i \in 1 .. Len(rest) PROVE rest[i] = r[i]
    <3>1. i + 1 \in 1 .. Len(p) /\ i \in 1 .. Len(r) BY <1>1, <1>5, <1>6
    <3> QED BY <1>1, <1>5, <1>6, <3>1
  <2>3. ASSUME NEW i \in 1 .. Len(r) PROVE i <= Len(rest) <=> r[i].id <= seen
    <3>1. i + 1 \in 1 .. Len(q) BY <1>1, <1>6
    <3>2. i <= Len(rest) <=> i + 1 <= Len(p) BY <1>1, <1>5
    <3> QED BY <1>2, <1>6, <3>1, <3>2
  <2> QED BY <2>1, <2>2, <2>3 DEF Fits
<1>18. ASSUME rest # <<>> PROVE seen = rest[Len(rest)].id
  <2>1. Len(rest) # 0 BY <1>5, <1>18
  <2>2. Len(rest) \in 1 .. Len(rest) /\ Len(rest) + 1 = Len(p) /\ Len(p) \in 1 .. Len(p)
    BY <1>1, <1>5, <2>1
  <2>3. rest[Len(rest)] = p[Len(p)] BY <1>5, <2>2
  <2>4. p[Len(p)] = q[Len(p)] BY <1>1, <2>2
  <2> QED BY <1>2, <2>3, <2>4
<1>19. seen < nextBatchID /\ \A i \in 1 .. Len(r) : r[i].id < nextBatchID
  <2>1. seen < nextBatchID BY DEF IInv, Front, seen
  <2>2. ASSUME NEW i \in 1 .. Len(r) PROVE r[i].id < nextBatchID
    <3>1. i + 1 \in 1 .. Len(q) BY <1>1, <1>6
    <3> QED BY <1>1, <1>6, <3>1
  <2> QED BY <2>1, <2>2
<1>20. /\ more \in Seq(Batch)
       /\ pendingWrites' \in Seq(Batch) /\ Len(pendingWrites') <= kMaxPendingWrites
       /\ Len(pendingWrites') = Least(kMaxPendingWrites, Len(r))
       /\ Len(pendingWrites') = Len(rest) + Len(more)
       /\ \A i \in 1 .. Len(pendingWrites') : pendingWrites'[i] = r[i]
       /\ \A i \in 1 .. Len(more) : pendingWrites'[Len(rest) + i] = more[i]
       /\ pendingWrites' # <<>> => lastBatchSeen' = pendingWrites'[Len(pendingWrites')].id
       /\ lastBatchSeen' < nextBatchID /\ lastBatchSeen' \in Nat \cup {Unknown}
  <2>1. r \in Seq(Batch) /\ rest \in Seq(Batch) BY <1>5, <1>6
  <2>2. ack \in Nat \cup {Unknown} /\ seen \in Nat \cup {Unknown} BY <1>1, <1>12
  <2>3. Fits(r, rest, Highest(seen, ack)) BY <1>16, <1>17
  <2>4. more = Following(r, ack, rest, seen) /\ Fill(rest, seen, more) BY <1>10
  <2>5. rest # <<>> => seen = rest[Len(rest)].id BY <1>18
  <2>6. nextBatchID \in Nat BY <1>1
  <2>7. Refilled(r, rest, more, nextBatchID)
    BY <1>19, <2>1, <2>2, <2>3, <2>4, <2>5, <2>6, FillFront
  <2> QED BY <2>7 DEF Refilled
<1>21. Queues'
  <2> SUFFICES ASSUME NEW u \in Users
               PROVE  /\ Ordered(queue'[u])
                      /\ \A i \in 1 .. Len(queue'[u]) :
                            /\ queue'[u][i].no \in 1 .. Len(owner)
                            /\ owner[queue'[u][i].no] = u
                            /\ lastAcknowledged'[u] < queue'[u][i].id
                            /\ queue'[u][i].id < nextBatchID
    BY <1>10 DEF Queues, Ordered
  <2>1. CASE u # user BY <1>13, <2>1 DEF IInv, Queues
  <2>2. CASE u = user
    <3>1. queue'[u] = r /\ lastAcknowledged'[u] = ack BY <1>10, <1>13, <2>2
    <3>2. ASSUME NEW i \in 1 .. Len(r)
          PROVE  /\ r[i].no \in 1 .. Len(owner) /\ owner[r[i].no] = u
                 /\ ack < r[i].id /\ r[i].id < nextBatchID
      <4>1. i + 1 \in 1 .. Len(q) /\ r[i] = q[i + 1] BY <1>1, <1>6
      <4>2. q[i + 1].no \in 1 .. Len(owner) /\ owner[q[i + 1].no] = user
        BY <1>1, <4>1 DEF IInv, Queues, q
      <4>3. ack < r[i].id BY <1>1, <1>4, <1>7, <4>1 DEF p
      <4> QED BY <1>19, <2>2, <4>1, <4>2, <4>3
    <3> QED BY <1>7, <3>1, <3>2
  <2> QED BY <2>1, <2>2
<1>22. Kept'
  <2> SUFFICES ASSUME NEW n \in 1 .. Len(owner), n \notin Settled
               PROVE  \E i \in 1 .. Len(queue'[owner[n]]) : queue'[owner[n]][i].no = n
    BY <1>10 DEF Kept, Settled
  <2>1. PICK i \in 1 .. Len(queue[owner[n]]) : queue[owner[n]][i].no = n BY DEF IInv, Kept
  <2>2. owner[n] \in Users BY DEF IInv, TypeOK
  <2>3. CASE owner[n] # user BY <1>13, <2>1, <2>2, <2>3
  <2>4. CASE owner[n] = user
    <3>1. i \in 1 .. Len(q) /\ q[i].no = n BY <2>1, <2>4 DEF q
    <3>2. i # 1 BY <1>4, <3>1 DEF p
    <3>3. i - 1 \in 1 .. Len(r) /\ i - 1 + 1 = i BY <1>1, <1>6, <3>1, <3>2
    <3>4. r[i - 1].no = n BY <1>6, <3>1, <3>3
    <3>5. queue'[owner[n]] = r BY <1>10, <1>13, <2>4
    <3> QED BY <3>3, <3>4, <3>5
  <2> QED BY <2>3, <2>4
<1>23. Front'
  <2>1. queue'[user'] = r /\ lastAcknowledged'[user'] < nextBatchID' /\ lastBatchSeen' < nextBatchID'
    BY <1>10, <1>12, <1>13, <1>20
  <2> QED BY <1>20, <2>1 DEF Front
<1>24. TailStays(more)
  <2>1. Len(more) \in Nat BY <1>20
  <2>2. Len(rest) = Len(p) - 1 /\ p = pendingWrites BY <1>5 DEF p
  <2>3. Len(pendingWrites') = Len(pendingWrites) - 1 + Len(more) BY <1>20, <2>2
  <2>4. \A i \in 1 .. Len(more) : pendingWrites'[Len(pendingWrites) - 1 + i] = more[i]
    BY <1>20, <2>2
  <2>5. ASSUME NEW i \in 1 .. Len(p) - 1 PROVE pendingWrites'[i] = p[i + 1]
    <3>1. i \in 1 .. Len(pendingWrites') /\ i \in 1 .. Len(r) /\ i + 1 \in 1 .. Len(p)
      BY <1>1, <1>6, <2>1, <2>2, <2>3
    <3> QED BY <1>1, <1>6, <1>20, <3>1
  <2>6. pendingWrites[1] = queue[user][1] /\ queue[user] # <<>> BY <1>4 DEF p, q
  <2> QED BY <1>14, <1>15, <1>20, <2>1, <2>2, <2>3, <2>4, <2>5, <2>6 DEF TailStays
<1> QED BY <1>21, <1>22, <1>23, <1>24

\* The write that an answer is for is committed.
LEMMA AnswerIsForHead ==
    ASSUME IInv, answers # <<>>, handshakeComplete
    PROVE  /\ pendingWrites # <<>> /\ pendingWrites[1].no \in Settled
           /\ state = "Open" /\ Writing /\ Len(answers) \in Nat \ {0}
<1>1. answers \in Seq(Nat) /\ requests \in Seq(Nat) /\ pendingWrites \in Seq(Batch)
  BY DEF IInv, TypeOK
<1>2. Len(answers) \in Nat \ {0} /\ Len(requests) \in Nat BY <1>1
<1>3. state = "Open" /\ Writing BY DEF IInv, Stream, Call
<1>4. Len(answers) + Len(requests) <= Len(pendingWrites) /\ Len(pendingWrites) \in Nat
  BY <1>1, <1>3 DEF Writing
<1>5. Len(pendingWrites) # 0 /\ 1 \in 1 .. Len(answers) BY <1>2, <1>4
<1>6. answers[1] = pendingWrites[1].no /\ answers[1] \in committed BY <1>3, <1>5 DEF Writing
<1> QED BY <1>1, <1>2, <1>3, <1>5, <1>6 DEF Settled

\* An answer takes the first write away and the call moves on by one.
LEMMA WriteAnsweredStep == ASSUME IInv, WriteAnswered PROVE IInv'
<1>1. answers # <<>> /\ handshakeComplete BY DEF WriteAnswered
<1>2. /\ pendingWrites # <<>> /\ pendingWrites[1].no \in Settled
      /\ state = "Open" /\ Writing /\ Len(answers) \in Nat \ {0}
  BY <1>1, AnswerIsForHead
<1>3. /\ answers \in Seq(Nat) /\ requests \in Seq(Nat) /\ pendingWrites \in Seq(Batch)
      /\ Len(requests) \in Nat /\ Len(pendingWrites) \in Nat
  BY DEF IInv, TypeOK
<1>4. Head(pendingWrites) = pendingWrites[1] BY <1>2, <1>3, TailFacts
<1> DEFINE ack == pendingWrites[1].id
           more == Following(Without(queue[user], Head(pendingWrites).id), ack,
                             Tail(pendingWrites), lastBatchSeen)
<1>5. HeadLeaves(ack, more) BY <1>4 DEF WriteAnswered, HeadLeaves, server
<1>6. /\ answers' = Tail(answers) /\ requests' = Sent(more)
      /\ idle' = (more = <<>> /\ (idle \/ Tail(pendingWrites) = <<>>))
      /\ UNCHANGED <<user, nextBatchID, owner, state, handshakeComplete, closing, server, faults,
                     restarts>>
  BY <1>4 DEF WriteAnswered
<1> HIDE DEF ack, more
<1>7. Queues' /\ Kept' /\ Front' /\ TailStays(more)
  <2>1. ack \in {lastAcknowledged[user], pendingWrites[1].id} BY DEF ack
  <2> QED BY <1>2, <1>5, <2>1, HeadGoes
<1> DEFINE p == pendingWrites
           pp == pendingWrites'
           a == answers'
           r == requests'
           k == Len(answers)
<1>8. /\ pp \in Seq(Batch) /\ more \in Seq(Batch) /\ Len(more) \in Nat
      /\ Len(pp) = Len(p) - 1 + Len(more)
      /\ \A i \in 1 .. Len(p) - 1 : pp[i] = p[i + 1]
      /\ \A i \in 1 .. Len(more) : pp[Len(p) - 1 + i] = more[i]
  BY <1>7 DEF TailStays
<1>9. a \in Seq(Nat) /\ Len(a) = k - 1 /\ \A i \in 1 .. Len(a) : a[i] = answers[i + 1]
  BY <1>1, <1>3, <1>6, TailFacts
<1>10. /\ k + Len(requests) <= Len(p) /\ k \in Nat \ {0} /\ Len(p) \in Nat
       /\ closing = "no" => k + Len(requests) = Len(p)
       /\ \A i \in 1 .. k : answers[i] = p[i].no /\ answers[i] \in committed
       /\ \A i \in 1 .. Len(requests) : requests[i] = p[k + i].no
       /\ closing = "permanent" => k < Len(p) /\ p[k + 1].no \in refused
  BY <1>2, <1>3 DEF Writing
<1>11. /\ committed' = committed /\ refused' = refused /\ stray' = stray /\ closing' = closing
       /\ state' = "Open" /\ handshakeComplete' = TRUE /\ owner' = owner
  BY <1>1, <1>2, <1>6 DEF server, IInv, TypeOK
<1>12. closing # "no" => requests = <<>> BY DEF IInv, Call
<1>13. ASSUME NEW i \in 1 .. Len(a), Len(a) <= Len(p) - 1
       PROVE  a[i] = pp[i].no /\ a[i] \in committed
  <2>1. i + 1 \in 1 .. k /\ i \in 1 .. Len(p) - 1 BY <1>9, <1>10, <1>13
  <2> QED BY <1>8, <1>9, <1>10, <2>1
<1>14. Len(a) <= Len(p) - 1
  <2>1. Len(a) = k - 1 BY <1>9
  <2>2. k + Len(requests) <= Len(p) /\ k \in Nat /\ Len(p) \in Nat BY <1>10
  <2> QED BY <1>3, <2>1, <2>2
<1>15. ASSUME closing = "no"
       PROVE  Writing' /\ requests' \in Seq(Nat) /\ (closing # "no" => requests' = <<>>)
  <2> DEFINE m == Numbers(more)
  <2>1. m \in Seq(Nat) /\ Len(m) = Len(more) /\ \A i \in 1 .. Len(more) : m[i] = more[i].no
    BY <1>8, NumbersFacts
  <2>2. r = requests \o m BY <1>6, <1>15 DEF Sent
  <2> HIDE DEF m, p, pp, a, r, k
  <2>3. /\ r \in Seq(Nat) /\ Len(r) = Len(requests) + Len(m)
        /\ \A i \in 1 .. Len(requests) + Len(m) :
              r[i] = IF i <= Len(requests) THEN requests[i] ELSE m[i - Len(requests)]
    <3>1. /\ requests \o m \in Seq(Nat) /\ Len(requests \o m) = Len(requests) + Len(m)
          /\ \A i \in 1 .. Len(requests) + Len(m) :
                (requests \o m)[i] = IF i <= Len(requests) THEN requests[i] ELSE m[i - Len(requests)]
      BY <1>3, <2>1, ConcatProperties
    <3> QED BY <2>2, <3>1
  <2>9. Len(requests) \in Nat BY <1>3
  <2>4. Len(a) + Len(r) = Len(pp)
    <3>1. Len(a) = k - 1 BY <1>9
    <3>2. k + Len(requests) = Len(p) /\ k \in Nat /\ Len(p) \in Nat BY <1>10, <1>15
    <3>3. Len(r) = Len(requests) + Len(more) BY <2>1, <2>3
    <3>4. Len(pp) = Len(p) - 1 + Len(more) /\ Len(more) \in Nat BY <1>8
    <3> QED BY <2>9, <3>1, <3>2, <3>3, <3>4
  <2>5. ASSUME NEW i \in 1 .. Len(r) PROVE r[i] = pp[Len(a) + i].no
    <3>0. k + Len(requests) = Len(p) /\ Len(a) = k - 1 /\ k \in Nat \ {0} /\ Len(p) \in Nat
      BY <1>9, <1>10, <1>15
    <3>1. CASE i <= Len(requests)
      <4>1. i \in 1 .. Len(requests) /\ i \in 1 .. Len(requests) + Len(m) BY <2>3, <2>9, <3>1
      <4>2. r[i] = p[k + i].no BY <1>10, <2>3, <3>1, <4>1
      <4>3. Len(a) + i \in 1 .. Len(p) - 1 /\ Len(a) + i + 1 = k + i BY <2>9, <3>0, <4>1
      <4>4. pp[Len(a) + i] = p[k + i] BY <1>8, <4>3
      <4> QED BY <4>2, <4>4
    <3>2. CASE ~(i <= Len(requests))
      <4> DEFINE j == i - Len(requests)
      <4>1. j \in 1 .. Len(more) /\ i \in 1 .. Len(requests) + Len(m)
        <5>1. i \in 1 .. Len(requests) + Len(more) /\ Len(m) = Len(more) /\ Len(more) \in Nat
          BY <1>8, <2>1, <2>3
        <5> QED BY <2>9, <3>2, <5>1
      <4>2. Len(p) - 1 + j = Len(a) + i BY <2>9, <3>0
      <4>3. r[i] = m[j] BY <2>3, <3>2, <4>1
      <4> HIDE DEF j
      <4>4. m[j] = more[j].no BY <2>1, <4>1
      <4>5. pp[Len(p) - 1 + j] = more[j] BY <1>8, <4>1
      <4> QED BY <4>2, <4>3, <4>4, <4>5
    <3> QED BY <3>1, <3>2
  <2>6. answers' = a /\ requests' = r /\ pendingWrites' = pp BY DEF a, r, pp
  <2>7. Len(a) + Len(r) <= Len(pp)
    <3>1. Len(pp) \in Nat BY <1>8
    <3> QED BY <2>4, <3>1
  <2>8. closing' # "permanent" /\ state' = "Open" BY <1>11, <1>15
  <2>10. \A i \in 1 .. Len(a) : a[i] = pp[i].no /\ a[i] \in committed' BY <1>11, <1>13, <1>14
  <2>11. Writing' BY <2>4, <2>5, <2>6, <2>7, <2>8, <2>10 DEF Writing
  <2> QED BY <1>15, <2>3, <2>6, <2>11
<1>16. ASSUME closing # "no"
       PROVE  Writing' /\ requests' \in Seq(Nat) /\ (closing # "no" => requests' = <<>>)
  <2> HIDE DEF p, pp, a, r, k
  <2>1. requests' = <<>> BY <1>6, <1>12, <1>16 DEF Sent
  <2>2. Len(requests') = 0 BY <2>1
  <2>3. \A i \in 1 .. Len(requests') : FALSE BY <2>2
  <2>4. Len(a) + 0 <= Len(pp) /\ Len(a) \in Nat
    <3>1. Len(pp) = Len(p) - 1 + Len(more) /\ Len(more) \in Nat BY <1>8
    <3>2. Len(a) \in Nat /\ Len(p) \in Nat BY <1>9, <1>10
    <3> QED BY <1>14, <3>1, <3>2
  <2>5. ASSUME closing = "permanent"
        PROVE  Len(a) < Len(pp) /\ pp[Len(a) + 1].no \in refused'
    <3>1. k < Len(p) /\ Len(a) = k - 1 /\ k \in Nat \ {0} /\ Len(p) \in Nat
      BY <1>9, <1>10, <2>5
    <3>2. Len(pp) = Len(p) - 1 + Len(more) /\ Len(more) \in Nat BY <1>8
    <3>3. Len(a) < Len(pp) /\ k \in 1 .. Len(p) - 1 /\ Len(a) + 1 = k BY <3>1, <3>2
    <3>4. pp[k] = p[k + 1] BY <1>8, <3>3
    <3> QED BY <1>10, <1>11, <2>5, <3>3, <3>4
  <2>6. answers' = a /\ pendingWrites' = pp BY DEF a, pp
  <2>7. \A i \in 1 .. Len(a) : a[i] = pp[i].no /\ a[i] \in committed' BY <1>11, <1>13, <1>14
  <2>8. closing' = closing BY <1>11
  <2>9. Writing' BY <1>16, <2>2, <2>3, <2>4, <2>5, <2>6, <2>7, <2>8 DEF Writing
  <2> QED BY <2>1, <2>9
<1>17. /\ Writing' /\ requests' \in Seq(Nat)
       /\ closing # "no" => requests' = <<>>
  BY <1>15, <1>16
<1>18. Call' BY <1>11, <1>17 DEF Call
<1>19. Stream'
  <2>1. ASSUME idle' PROVE pendingWrites' = <<>>
    <3>1. more = <<>> /\ (idle \/ Tail(pendingWrites) = <<>>) BY <1>6, <2>1
    <3>2. ~idle BY <1>2 DEF IInv, Stream
    <3>3. Len(Tail(pendingWrites)) = 0 /\ Len(Tail(pendingWrites)) = Len(pendingWrites) - 1
      BY <1>2, <1>3, <3>1, <3>2, TailFacts
    <3>4. Len(more) = 0 /\ Len(pp) = Len(p) - 1 + Len(more) BY <1>8, <3>1
    <3>5. Len(pp) = 0 BY <1>10, <3>3, <3>4
    <3> QED BY <1>8, <3>5
  <2> QED BY <1>11, <2>1 DEF Stream
<1>20. idle' \in BOOLEAN BY <1>6 DEF IInv, TypeOK
<1>21. answers' \in Seq(Nat) BY <1>9
<1>22. Strays' BY <1>11 DEF IInv, Strays, Settled
<1>23. TypeOK'
  <2>1. /\ queue' \in [Users -> Seq(Batch)]
        /\ lastAcknowledged' \in [Users -> Nat \cup {Unknown}]
        /\ pendingWrites' \in Seq(Batch) /\ Len(pendingWrites') <= kMaxPendingWrites
        /\ lastBatchSeen' \in Nat \cup {Unknown}
    BY <1>7 DEF TailStays
  <2> QED BY <1>6, <1>11, <1>17, <1>20, <1>21, <2>1 DEF IInv, TypeOK
<1> QED BY <1>7, <1>18, <1>19, <1>22, <1>23 DEF IInv

\* A refusal takes the first write away and the rest is sent on another call.
LEMMA WriteRejectedStep == ASSUME IInv, WriteRejected PROVE IInv'
<1>1. /\ answers = <<>> /\ closing = "permanent" /\ handshakeComplete /\ pendingWrites # <<>>
      /\ UNCHANGED <<user, lastAcknowledged, nextBatchID, owner, server, faults, restarts>>
      /\ LetGo
  BY DEF WriteRejected
<1>2. pendingWrites \in Seq(Batch) /\ handshakeComplete \in BOOLEAN BY DEF IInv, TypeOK
<1>3. Head(pendingWrites) = pendingWrites[1] BY <1>1, <1>2, TailFacts
<1>4. pendingWrites[1].no \in Settled
  <2>1. Writing BY <1>1 DEF IInv, Call
  <2>2. Len(answers) + 1 = 1 BY <1>1
  <2> QED BY <1>1, <2>1, <2>2 DEF Writing, Settled
<1> DEFINE ack == lastAcknowledged[user]
           more == Following(Without(queue[user], Head(pendingWrites).id), ack,
                             Tail(pendingWrites), lastBatchSeen)
<1>5. HeadLeaves(ack, more)
  <2>1. lastAcknowledged' = [lastAcknowledged EXCEPT ![user] = ack]
    BY <1>1 DEF IInv, TypeOK
  <2> QED BY <1>1, <2>1 DEF WriteRejected, HeadLeaves, server
<1>6. Rested(Tail(pendingWrites) \o more, "Initial") BY DEF WriteRejected
<1>7. pendingWrites' = Tail(pendingWrites) \o more BY <1>5 DEF HeadLeaves, Fill
<1> HIDE DEF ack, more
<1>8. Queues' /\ Kept' /\ Front' /\ TailStays(more)
  <2>1. ack \in {lastAcknowledged[user], pendingWrites[1].id} BY DEF ack
  <2> QED BY <1>1, <1>4, <1>5, <2>1, HeadGoes
<1>9. /\ state' \in {"Initial", "Auth", "Error", "Backoff"}
      /\ handshakeComplete' \in BOOLEAN
      /\ isStarted' => handshakeComplete' = FALSE
  BY <1>2, <1>6, RestFacts
<1>10. requests' = <<>> /\ answers' = <<>> /\ closing' = "no" /\ idle' = FALSE BY <1>1 DEF LetGo
<1>11. /\ queue' \in [Users -> Seq(Batch)]
       /\ lastAcknowledged' \in [Users -> Nat \cup {Unknown}]
       /\ pendingWrites' \in Seq(Batch) /\ Len(pendingWrites') <= kMaxPendingWrites
       /\ lastBatchSeen' \in Nat \cup {Unknown}
  BY <1>8 DEF TailStays
<1>12. Stream' /\ Call' BY <1>9, <1>10, <1>11, AtRest
<1>13. Strays' BY <1>1 DEF IInv, Strays, Settled, server
<1>14. TypeOK' BY <1>1, <1>9, <1>10, <1>11 DEF IInv, TypeOK, server
<1> QED BY <1>8, <1>12, <1>13, <1>14 DEF IInv

\* Sending more puts its numbers behind the requests.
LEMMA SentFacts ==
    ASSUME NEW more \in Seq(Batch), requests \in Seq(Nat), closing = "no"
    PROVE  /\ Sent(more) \in Seq(Nat) /\ Len(Sent(more)) = Len(requests) + Len(more)
           /\ \A i \in 1 .. Len(requests) : Sent(more)[i] = requests[i]
           /\ \A j \in 1 .. Len(more) : Sent(more)[Len(requests) + j] = more[j].no
<1> DEFINE m == Numbers(more)
           r == requests \o m
<1>1. m \in Seq(Nat) /\ Len(m) = Len(more) /\ \A i \in 1 .. Len(more) : m[i] = more[i].no
  BY NumbersFacts
<1>2. Sent(more) = r BY DEF Sent
<1> HIDE DEF m
<1>3. /\ r \in Seq(Nat) /\ Len(r) = Len(requests) + Len(m)
      /\ \A i \in 1 .. Len(requests) + Len(m) :
            r[i] = IF i <= Len(requests) THEN requests[i] ELSE m[i - Len(requests)]
  BY <1>1, ConcatProperties
<1> HIDE DEF r
<1>4. Len(requests) \in Nat /\ Len(more) \in Nat OBVIOUS
<1>5. ASSUME NEW i \in 1 .. Len(requests) PROVE r[i] = requests[i]
  <2>1. i \in 1 .. Len(requests) + Len(m) /\ i <= Len(requests) BY <1>1, <1>4
  <2> QED BY <1>3, <2>1
<1>6. ASSUME NEW j \in 1 .. Len(more) PROVE r[Len(requests) + j] = more[j].no
  <2>1. /\ Len(requests) + j \in 1 .. Len(requests) + Len(m) /\ ~(Len(requests) + j <= Len(requests))
        /\ Len(requests) + j - Len(requests) = j
    BY <1>1, <1>4
  <2>2. r[Len(requests) + j] = m[Len(requests) + j - Len(requests)] BY <1>3, <2>1
  <2>3. r[Len(requests) + j] = m[j] BY <2>1, <2>2
  <2> QED BY <1>1, <2>3
<1> QED BY <1>1, <1>2, <1>3, <1>5, <1>6

\* The write of the app, in the open queue and, if there is room, in the pipeline.
Written(q, more) ==
    /\ q \in Seq(Batch) /\ Len(q) = Len(queue[user]) + 1
    /\ \A i \in 1 .. Len(queue[user]) : q[i] = queue[user][i]
    /\ q[Len(q)] = [id |-> nextBatchID, no |-> Len(owner) + 1]
    /\ queue' = [queue EXCEPT ![user] = q]
    /\ nextBatchID' = nextBatchID + 1 /\ owner' = Append(owner, user)
    /\ more = Following(q, lastAcknowledged[user], pendingWrites, lastBatchSeen)
    /\ Fill(pendingWrites, lastBatchSeen, more)
    /\ UNCHANGED <<user, lastAcknowledged, committed, refused, stray>>

\* What the pipeline is then.
Longer(more) ==
    /\ more \in Seq(Batch) /\ Len(more) \in Nat
    /\ pendingWrites' \in Seq(Batch) /\ Len(pendingWrites') <= kMaxPendingWrites
    /\ lastBatchSeen' \in Nat \cup {Unknown}
    /\ Len(pendingWrites') = Len(pendingWrites) + Len(more)
    /\ \A i \in 1 .. Len(pendingWrites) : pendingWrites'[i] = pendingWrites[i]
    /\ \A i \in 1 .. Len(more) : pendingWrites'[Len(pendingWrites) + i] = more[i]

\* A new write at the end of the open queue is above every ID and number in it.
LEMMA WriteGoesIn ==
    ASSUME IInv, NEW q, NEW more, Written(q, more)
    PROVE  Queues' /\ Kept' /\ Front' /\ Strays' /\ queue' \in [Users -> Seq(Batch)] /\ Longer(more)
<1> DEFINE o == queue[user]
           p == pendingWrites
           seen == lastBatchSeen
           ack == lastAcknowledged[user]
<1>1. /\ o \in Seq(Batch) /\ Len(o) \in Nat /\ Ordered(o) /\ user \in Users
      /\ \A i \in 1 .. Len(o) : o[i].id \in Nat /\ ack < o[i].id /\ o[i].id < nextBatchID
      /\ p \in Seq(Batch) /\ Len(p) \in Nat /\ Len(p) <= Len(o) /\ Len(p) <= kMaxPendingWrites
      /\ \A i \in 1 .. Len(p) : p[i] = o[i]
      /\ p = <<>> => o = <<>>
      /\ ack \in Nat \cup {Unknown} /\ seen \in Nat \cup {Unknown} /\ nextBatchID \in Nat
  BY OpenQueue
<1>2. /\ q \in Seq(Batch) /\ Len(q) = Len(o) + 1
      /\ \A i \in 1 .. Len(o) : q[i] = o[i]
      /\ q[Len(q)] = [id |-> nextBatchID, no |-> Len(owner) + 1]
      /\ queue' = [queue EXCEPT ![user] = q]
      /\ nextBatchID' = nextBatchID + 1 /\ owner' = Append(owner, user)
      /\ more = Following(q, ack, p, seen) /\ Fill(p, seen, more)
      /\ user' = user /\ lastAcknowledged' = lastAcknowledged
      /\ committed' = committed /\ refused' = refused /\ stray' = stray
  BY DEF Written
<1>3. seen < nextBatchID /\ ack < nextBatchID BY DEF IInv, Front
<1>4. p # <<>> => /\ \A i \in 1 .. Len(o) : i <= Len(p) <=> o[i].id <= seen
                  /\ ack < seen /\ seen \in Nat /\ seen = p[Len(p)].id
  BY SeenIs DEF IInv, Front
<1>5. queue \in [Users -> Seq(Batch)] /\ owner \in Seq(Users) /\ Len(owner) \in Nat
  BY DEF IInv, TypeOK
<1>6. /\ Len(owner') = Len(owner) + 1 /\ owner'[Len(owner) + 1] = user /\ owner' \in Seq(Users)
      /\ \A n \in 1 .. Len(owner) : owner'[n] = owner[n]
  BY <1>1, <1>2, <1>5
<1>7. /\ queue' \in [Users -> Seq(Batch)] /\ queue'[user] = q
      /\ \A u \in Users : u # user => queue'[u] = queue[u]
  BY <1>1, <1>2, <1>5
<1> HIDE DEF o, p, seen, ack
<1>8. Fits(q, p, Highest(seen, ack))
  <2>1. Len(p) <= kMaxPendingWrites /\ Len(p) <= Len(q) BY <1>1, <1>2
  <2>2. ASSUME NEW i \in 1 .. Len(p) PROVE p[i] = q[i]
    <3>1. i \in 1 .. Len(o) BY <1>1
    <3> QED BY <1>1, <1>2, <3>1
  <2>3. Highest(seen, ack) < nextBatchID /\ Highest(seen, ack) \in Int
    BY <1>1, <1>3 DEF Highest, Unknown
  <2>4. ASSUME NEW i \in 1 .. Len(q) PROVE i <= Len(p) <=> q[i].id <= Highest(seen, ack)
    <3>1. CASE i = Len(q)
      <4>1. q[i].id = nextBatchID BY <1>2, <3>1
      <4>2. ~(q[i].id <= Highest(seen, ack)) BY <1>1, <2>3, <4>1
      <4>3. ~(i <= Len(p)) BY <1>1, <1>2, <3>1
      <4> QED BY <4>2, <4>3
    <3>2. CASE i # Len(q)
      <4>1. i \in 1 .. Len(o) BY <1>1, <1>2, <3>2
      <4>2. p # <<>>
        <5>1. Len(o) # 0 BY <1>1, <4>1
        <5> QED BY <1>1, <5>1
      <4>3. Highest(seen, ack) = seen BY <1>1, <1>4, <4>2 DEF Highest, Unknown
      <4>4. q[i] = o[i] BY <1>2, <4>1
      <4>5. i <= Len(p) <=> o[i].id <= seen BY <1>4, <4>1, <4>2, Zenon
      <4> QED BY <4>3, <4>4, <4>5
    <3> QED BY <3>1, <3>2
  <2> QED BY <2>1, <2>2, <2>4 DEF Fits
<1>9. ASSUME NEW i \in 1 .. Len(q) PROVE q[i].id < nextBatchID + 1
  <2>1. CASE i = Len(q) BY <1>1, <1>2, <2>1
  <2>2. CASE i # Len(q)
    <3>1. i \in 1 .. Len(o) BY <1>1, <1>2, <2>2
    <3>2. q[i] = o[i] BY <1>2, <3>1, Zenon
    <3>3. o[i].id \in Nat /\ o[i].id < nextBatchID BY <1>1, <3>1, Zenon
    <3>4. nextBatchID \in Nat BY <1>1
    <3> QED BY <3>2, <3>3, <3>4
  <2> QED BY <2>1, <2>2
<1>10. Refilled(q, p, more, nextBatchID + 1)
  <2>1. more = Following(q, ack, p, seen) /\ Fill(p, seen, more) /\ q \in Seq(Batch) BY <1>2
  <2>2. seen < nextBatchID + 1 /\ nextBatchID + 1 \in Nat BY <1>1, <1>3 DEF Unknown
  <2>3. p # <<>> => seen = p[Len(p)].id BY <1>4
  <2>4. ack \in Nat \cup {Unknown} /\ seen \in Nat \cup {Unknown} /\ p \in Seq(Batch) BY <1>1
  <2> QED BY <1>8, <1>9, <2>1, <2>2, <2>3, <2>4, FillFront
<1>11. Longer(more)
  <2>1. ASSUME NEW i \in 1 .. Len(p) PROVE pendingWrites'[i] = p[i]
    <3>1. i \in 1 .. Len(q) /\ i \in 1 .. Len(o) BY <1>1, <1>2
    <3>2. Len(more) \in Nat /\ Len(pendingWrites') = Len(p) + Len(more) BY <1>10 DEF Refilled
    <3>3. i \in 1 .. Len(pendingWrites') BY <1>1, <3>2
    <3> QED BY <1>1, <1>2, <1>10, <3>1, <3>3 DEF Refilled
  <2>2. more \in Seq(Batch) /\ Len(more) \in Nat BY <1>10 DEF Refilled
  <2> QED BY <1>10, <2>1, <2>2 DEF Refilled, Longer, p
<1>12. Front'
  <2>1. ack < nextBatchID' BY <1>1, <1>2, <1>3 DEF Unknown
  <2>2. queue'[user'] = q /\ lastAcknowledged'[user'] = ack BY <1>2, <1>7 DEF ack
  <2> QED BY <1>2, <1>10, <2>1, <2>2 DEF Front, Refilled
<1>13. Ordered(q)
  <2> SUFFICES ASSUME NEW i \in 1 .. Len(q), NEW j \in 1 .. Len(q), i < j
               PROVE  q[i].id < q[j].id /\ q[i].no < q[j].no
    BY DEF Ordered
  <2>1. i \in 1 .. Len(o) /\ q[i] = o[i] BY <1>1, <1>2
  <2>2. CASE j = Len(q)
    <3>1. q[j].id = nextBatchID /\ q[j].no = Len(owner) + 1 BY <1>2, <2>2
    <3>2. o[i].no \in 1 .. Len(owner) BY <1>1, <2>1 DEF IInv, Queues, o
    <3>3. o[i].id < nextBatchID BY <1>1, <2>1
    <3>4. o[i].no < Len(owner) + 1 BY <1>5, <3>2
    <3> QED BY <2>1, <3>1, <3>3, <3>4
  <2>3. CASE j # Len(q)
    <3>1. j \in 1 .. Len(o)
      <4>1. Len(q) = Len(o) + 1 /\ Len(o) \in Nat BY <1>1, <1>2
      <4> QED BY <2>3, <4>1
    <3>2. q[j] = o[j] BY <1>2, <3>1
    <3> QED BY <1>1, <2>1, <3>1, <3>2 DEF Ordered
  <2> QED BY <2>2, <2>3
<1>14. Queues'
  <2> SUFFICES ASSUME NEW u \in Users
               PROVE  /\ Ordered(queue'[u])
                      /\ \A i \in 1 .. Len(queue'[u]) :
                            /\ queue'[u][i].no \in 1 .. Len(owner')
                            /\ owner'[queue'[u][i].no] = u
                            /\ lastAcknowledged'[u] < queue'[u][i].id
                            /\ queue'[u][i].id < nextBatchID'
    BY DEF Queues, Ordered
  <2>0. \A i \in 1 .. Len(queue[u]) :
           /\ queue[u][i].no \in 1 .. Len(owner) /\ owner[queue[u][i].no] = u
           /\ lastAcknowledged[u] < queue[u][i].id /\ queue[u][i].id < nextBatchID
           /\ queue[u][i].id \in Nat
    <3>1. \A i \in 1 .. Len(queue[u]) : queue[u][i] \in Batch BY <1>5
    <3> QED BY <3>1 DEF IInv, Queues, Batch
  <2>1. CASE u # user
    <3>1. queue'[u] = queue[u] /\ lastAcknowledged'[u] = lastAcknowledged[u] BY <1>2, <1>7, <2>1
    <3>2. Ordered(queue'[u]) BY <3>1 DEF IInv, Queues
    <3>3. ASSUME NEW i \in 1 .. Len(queue[u])
          PROVE  /\ queue[u][i].no \in 1 .. Len(owner') /\ owner'[queue[u][i].no] = u
                 /\ queue[u][i].id < nextBatchID'
      <4> DEFINE n == queue[u][i].no
                 id == queue[u][i].id
      <4>1. n \in 1 .. Len(owner) /\ owner[n] = u /\ id < nextBatchID /\ id \in Nat BY <2>0
      <4>2. nextBatchID \in Nat /\ nextBatchID' = nextBatchID + 1 BY <1>1, <1>2
      <4> HIDE DEF n, id
      <4>3. n \in 1 .. Len(owner') BY <1>5, <1>6, <4>1
      <4>4. owner'[n] = u BY <1>6, <4>1
      <4>5. id < nextBatchID' BY <4>1, <4>2
      <4> QED BY <4>3, <4>4, <4>5 DEF n, id
    <3> QED BY <2>0, <3>1, <3>2, <3>3
  <2>2. CASE u = user
    <3>1. queue'[u] = q /\ lastAcknowledged'[u] = ack BY <1>2, <1>7, <2>2 DEF ack
    <3>2. ASSUME NEW i \in 1 .. Len(q)
          PROVE  /\ q[i].no \in 1 .. Len(owner') /\ owner'[q[i].no] = u
                 /\ ack < q[i].id /\ q[i].id < nextBatchID'
      <4>1. CASE i = Len(q)
        <5>1. q[i].id = nextBatchID /\ q[i].no = Len(owner) + 1 BY <1>2, <4>1
        <5>2. q[i].no \in 1 .. Len(owner') /\ owner'[q[i].no] = u BY <1>5, <1>6, <2>2, <5>1
        <5>3. ack < q[i].id /\ q[i].id < nextBatchID' BY <1>1, <1>2, <1>3, <5>1
        <5> QED BY <5>2, <5>3
      <4>2. CASE i # Len(q)
        <5>1. i \in 1 .. Len(o) /\ q[i] = o[i] BY <1>1, <1>2, <4>2
        <5>2. o[i].no \in 1 .. Len(owner) /\ owner[o[i].no] = u BY <2>0, <2>2, <5>1 DEF o
        <5>3. q[i].no \in 1 .. Len(owner') /\ owner'[q[i].no] = u
          <6> DEFINE n == q[i].no
          <6>1. n \in 1 .. Len(owner) /\ owner[n] = u BY <5>1, <5>2
          <6> HIDE DEF n
          <6>2. n \in 1 .. Len(owner') BY <1>5, <1>6, <6>1
          <6>3. owner'[n] = u BY <1>6, <6>1, Zenon
          <6> QED BY <6>2, <6>3 DEF n
        <5>4. ack < q[i].id BY <1>1, <5>1
        <5> QED BY <1>2, <1>9, <5>3, <5>4
      <4> QED BY <4>1, <4>2
    <3> QED BY <1>13, <3>1, <3>2
  <2> QED BY <2>1, <2>2
<1>15. Kept'
  <2> SUFFICES ASSUME NEW n \in 1 .. Len(owner'), n \notin Settled
               PROVE  \E i \in 1 .. Len(queue'[owner'[n]]) : queue'[owner'[n]][i].no = n
    BY <1>2 DEF Kept, Settled
  <2>1. CASE n = Len(owner) + 1
    <3>1. q[Len(q)].no = n /\ Len(q) \in 1 .. Len(q) BY <1>1, <1>2, <2>1
    <3> QED BY <1>6, <1>7, <2>1, <3>1
  <2>2. CASE n # Len(owner) + 1
    <3>1. n \in 1 .. Len(owner) /\ owner'[n] = owner[n] BY <1>5, <1>6, <2>2
    <3>2. PICK i \in 1 .. Len(queue[owner[n]]) : queue[owner[n]][i].no = n
      BY <3>1 DEF IInv, Kept
    <3>3. owner[n] \in Users BY <1>5, <3>1
    <3>4. CASE owner[n] # user BY <1>7, <3>1, <3>2, <3>3, <3>4
    <3>5. CASE owner[n] = user
      <4>1. i \in 1 .. Len(o) /\ o[i].no = n BY <3>2, <3>5 DEF o
      <4>2. i \in 1 .. Len(q) /\ q[i].no = n BY <1>1, <1>2, <4>1
      <4> QED BY <1>7, <3>1, <3>5, <4>2
    <3> QED BY <3>4, <3>5
  <2> QED BY <2>1, <2>2
<1>16. Strays'
  <2>1. Len(owner) <= Len(owner') /\ Settled \subseteq Settled' BY <1>2, <1>5, <1>6 DEF Settled
  <2>2. \A s \in stray' : s \in stray \/ (s = requests /\ s # <<>>) BY <1>2
  <2> QED BY <1>5, <1>6, <2>1, <2>2, StraysStay
<1> QED BY <1>7, <1>11, <1>12, <1>14, <1>15, <1>16

\* A new write goes to the call only if it went to the pipeline of an open call.
LEMMA WriteMutationsStep == ASSUME IInv, WriteMutations PROVE IInv'
<1> DEFINE batch == [id |-> nextBatchID, no |-> Len(owner) + 1]
           q == Append(queue[user], batch)
           more == Following(q, lastAcknowledged[user], pendingWrites, lastBatchSeen)
           p == pendingWrites
           pp == pendingWrites'
           k == Len(answers)
           r == requests'
<1>1. /\ user \in Users /\ queue[user] \in Seq(Batch) /\ nextBatchID \in Nat /\ owner \in Seq(Users)
      /\ p \in Seq(Batch) /\ answers \in Seq(Nat) /\ requests \in Seq(Nat)
      /\ handshakeComplete \in BOOLEAN /\ state \in {"Initial", "Auth", "Open", "Error", "Backoff"}
  BY DEF IInv, TypeOK
<1>2. batch \in Batch
  <2>1. Len(owner) + 1 \in Nat \ {0} BY <1>1
  <2> QED BY <1>1, <2>1 DEF Batch
<1>3. /\ UNCHANGED <<user, lastAcknowledged, answers, closing, stray, committed, refused, faults, restarts>>
      /\ queue' = [queue EXCEPT ![user] = q] /\ nextBatchID' = nextBatchID + 1
      /\ owner' = Append(owner, user) /\ Fill(pendingWrites, lastBatchSeen, more)
  BY DEF WriteMutations, server
<1>4. \/ more # <<>> /\ ~isStarted /\ Rested(more, state) /\ UNCHANGED <<requests, idle>>
      \/ /\ more # <<>> /\ isStarted /\ handshakeComplete
         /\ r = Sent(more) /\ idle' = FALSE /\ UNCHANGED <<state, handshakeComplete>>
      \/ (more = <<>> \/ (isStarted /\ ~handshakeComplete)) /\ UNCHANGED <<requests, stream>>
  BY DEF WriteMutations
<1> HIDE DEF batch
<1>5. /\ q \in Seq(Batch) /\ Len(q) = Len(queue[user]) + 1 /\ q[Len(q)] = batch
      /\ \A i \in 1 .. Len(queue[user]) : q[i] = queue[user][i]
  BY <1>1, <1>2
<1>6. Written(q, more) BY <1>3, <1>5 DEF Written, batch
<1> HIDE DEF q, more, p, pp, k, r
<1>7. Queues' /\ Kept' /\ Front' /\ Strays' /\ queue' \in [Users -> Seq(Batch)] /\ Longer(more)
  BY <1>6, WriteGoesIn
<1>8. /\ more \in Seq(Batch) /\ Len(more) \in Nat
      /\ pp \in Seq(Batch) /\ Len(pp) = Len(p) + Len(more)
      /\ \A i \in 1 .. Len(p) : pp[i] = p[i]
      /\ \A i \in 1 .. Len(more) : pp[Len(p) + i] = more[i]
  BY <1>7 DEF Longer, p, pp
<1>9. /\ queue' \in [Users -> Seq(Batch)] /\ owner' \in Seq(Users) /\ nextBatchID' \in Nat
      /\ pendingWrites' \in Seq(Batch) /\ Len(pendingWrites') <= kMaxPendingWrites
      /\ lastBatchSeen' \in Nat \cup {Unknown}
  BY <1>1, <1>3, <1>7 DEF Longer
<1>10. k \in Nat /\ Len(requests) \in Nat /\ Len(p) \in Nat BY <1>1 DEF k, p
<1>11. SUFFICES /\ Stream' /\ Call' /\ r \in Seq(Nat) /\ idle' \in BOOLEAN
                /\ handshakeComplete' \in BOOLEAN
                /\ state' \in {"Initial", "Auth", "Open", "Error", "Backoff"}
  <2>1. TypeOK' BY <1>3, <1>9, <1>11 DEF IInv, TypeOK, r
  <2> QED BY <1>7, <1>11, <2>1 DEF IInv
<1>12. CASE more # <<>> /\ ~isStarted /\ Rested(more, state) /\ UNCHANGED <<requests, idle>>
  <2>1. state \in {"Initial", "Error"} BY <1>1, <1>12 DEF isStarted
  <2>2. /\ state' \in {"Initial", "Auth", "Error", "Backoff"}
        /\ handshakeComplete' \in BOOLEAN
        /\ isStarted' => handshakeComplete' = FALSE
    BY <1>1, <1>12, <2>1, RestFacts
  <2>3. requests' = <<>> /\ answers' = <<>> /\ closing' = "no" /\ idle' = FALSE
    BY <1>3, <1>12, <2>1 DEF IInv, Stream
  <2>4. Stream' /\ Call' BY <1>9, <2>2, <2>3, AtRest
  <2>5. r = <<>> /\ idle' = FALSE BY <2>3 DEF r
  <2>6. <<>> \in Seq(Nat) OBVIOUS
  <2>7. r \in Seq(Nat) /\ idle' \in BOOLEAN BY <2>5, <2>6, Zenon
  <2> QED BY <2>2, <2>4, <2>7
<1>13. CASE /\ more # <<>> /\ isStarted /\ handshakeComplete
            /\ r = Sent(more) /\ idle' = FALSE /\ UNCHANGED <<state, handshakeComplete>>
  <2>1. state = "Open" /\ Writing BY <1>13 DEF IInv, Stream, Call
  <2>2. /\ k + Len(requests) <= Len(p)
        /\ closing = "no" => k + Len(requests) = Len(p)
        /\ \A i \in 1 .. k : answers[i] = p[i].no /\ answers[i] \in committed
        /\ \A i \in 1 .. Len(requests) : requests[i] = p[k + i].no
        /\ closing = "permanent" => k < Len(p) /\ p[k + 1].no \in refused
    BY <2>1 DEF Writing, k, p
  <2>3. /\ answers' = answers /\ closing' = closing /\ committed' = committed /\ refused' = refused
        /\ state' = "Open" /\ handshakeComplete' = TRUE /\ idle' = FALSE
    BY <1>1, <1>3, <1>13, <2>1
  <2>4. ASSUME NEW i \in 1 .. k PROVE answers[i] = pp[i].no /\ answers[i] \in committed
    <3>1. i \in 1 .. Len(p) BY <1>10, <2>2
    <3> QED BY <1>8, <2>2, <3>1
  <2>5. k <= Len(p) /\ Len(p) <= Len(pp) /\ k + 0 <= Len(pp)
    <3>1. k <= Len(p) BY <1>10, <2>2
    <3>2. Len(pp) = Len(p) + Len(more) /\ Len(more) \in Nat BY <1>8
    <3> QED BY <1>10, <3>1, <3>2
  <2>6. ASSUME closing = "no"
        PROVE  /\ r \in Seq(Nat) /\ k + Len(r) = Len(pp)
               /\ \A i \in 1 .. Len(r) : r[i] = pp[k + i].no
    <3>1. /\ r \in Seq(Nat) /\ Len(r) = Len(requests) + Len(more)
          /\ \A i \in 1 .. Len(requests) : r[i] = requests[i]
          /\ \A j \in 1 .. Len(more) : r[Len(requests) + j] = more[j].no
      BY <1>1, <1>8, <1>13, <2>6, SentFacts
    <3>2. k + Len(requests) = Len(p) BY <2>2, <2>6
    <3>3. Len(pp) = Len(p) + Len(more) /\ Len(more) \in Nat BY <1>8
    <3>0. Len(r) = Len(requests) + Len(more) BY <3>1
    <3>4. k + Len(r) = Len(pp) BY <1>10, <3>0, <3>2, <3>3
    <3>5. ASSUME NEW i \in 1 .. Len(r) PROVE r[i] = pp[k + i].no
      <4>1. CASE i <= Len(requests)
        <5>1. i \in 1 .. Len(requests) /\ k + i \in 1 .. Len(p) BY <1>10, <3>2, <4>1
        <5>2. r[i] = requests[i] /\ requests[i] = p[k + i].no BY <2>2, <3>1, <5>1, Zenon
        <5>3. pp[k + i] = p[k + i] BY <1>8, <5>1, Zenon
        <5> QED BY <5>2, <5>3
      <4>2. CASE ~(i <= Len(requests))
        <5> DEFINE j == i - Len(requests)
        <5>1. Len(r) = Len(requests) + Len(more) BY <3>1
        <5>2. j \in 1 .. Len(more) /\ Len(requests) + j = i /\ Len(p) + j = k + i
          BY <1>10, <3>2, <3>3, <4>2, <5>1
        <5> HIDE DEF j
        <5>3. r[Len(requests) + j] = more[j].no BY <3>1, <5>2
        <5>4. pp[Len(p) + j] = more[j] BY <1>8, <5>2
        <5> QED BY <5>2, <5>3, <5>4
      <4> QED BY <4>1, <4>2
    <3> QED BY <3>1, <3>4, <3>5
  <2>7. closing # "no" => r = <<>> BY <1>13 DEF IInv, Call, Sent
  <2>8. Writing'
    <3>0. answers' = answers /\ k = Len(answers) /\ requests' = r /\ pendingWrites' = pp
      BY <2>3 DEF k, r, pp
    <3>1. CASE closing = "no"
      <4>1. closing' # "permanent" BY <2>3, <3>1
      <4>2. k + Len(r) = Len(pp) /\ \A i \in 1 .. Len(r) : r[i] = pp[k + i].no BY <2>6, <3>1
      <4>3. Len(pp) \in Nat /\ k + Len(r) <= Len(pp) BY <1>8, <4>2
      <4> QED BY <2>3, <2>4, <3>0, <4>1, <4>2, <4>3 DEF Writing
    <3>2. CASE closing # "no"
      <4>1. Len(r) = 0 BY <2>7, <3>2
      <4>2. \A i \in 1 .. Len(r) : FALSE BY <4>1
      <4>3. ASSUME closing = "permanent" PROVE k < Len(pp) /\ pp[k + 1].no \in refused
        <5>1. k < Len(p) /\ p[k + 1].no \in refused BY <2>2, <4>3
        <5>2. k + 1 \in 1 .. Len(p) BY <1>10, <5>1
        <5>3. Len(pp) \in Nat /\ k < Len(pp) BY <1>8, <1>10, <2>5, <5>1
        <5> QED BY <1>8, <5>1, <5>2, <5>3
      <4> QED BY <2>3, <2>4, <2>5, <3>0, <3>2, <4>1, <4>2, <4>3 DEF Writing
    <3> QED BY <3>1, <3>2
  <2>9. r \in Seq(Nat)
    <3>1. <<>> \in Seq(Nat) OBVIOUS
    <3> QED BY <2>6, <2>7, <3>1
  <2>10. Call' BY <2>3, <2>7, <2>8 DEF Call, r
  <2>11. Stream' BY <2>3 DEF Stream
  <2> QED BY <2>3, <2>9, <2>10, <2>11
<1>14. CASE (more = <<>> \/ (isStarted /\ ~handshakeComplete)) /\ UNCHANGED <<requests, stream>>
  <2>1. UNCHANGED <<requests, answers, closing, state, handshakeComplete, idle, committed, refused>>
    BY <1>3, <1>14 DEF stream
  <2>2. more = <<>> => pendingWrites' = pendingWrites BY <1>1, <1>3 DEF Fill, p
  <2>3. Stream'
    <3>1. CASE more = <<>> BY <2>1, <2>2, <3>1 DEF IInv, Stream, isStarted
    <3>2. CASE isStarted /\ ~handshakeComplete
      <4>1. idle' # TRUE BY <2>1, <3>2 DEF IInv, Stream, TypeOK
      <4> QED BY <2>1, <3>2, <4>1 DEF IInv, Stream, isStarted, TypeOK
    <3> QED BY <1>14, <3>1, <3>2
  <2>4. ASSUME state = "Open", ~handshakeComplete PROVE Shaking'
    BY <2>1, <2>4 DEF IInv, Call, Shaking
  <2>5. ASSUME handshakeComplete PROVE Writing'
    <3>1. pendingWrites' = pendingWrites BY <1>14, <2>2, <2>5
    <3> QED BY <2>1, <2>5, <3>1 DEF IInv, Call, Writing
  <2>6. Call' BY <2>1, <2>4, <2>5 DEF IInv, Call
  <2>7. /\ r \in Seq(Nat) /\ idle' \in BOOLEAN /\ handshakeComplete' \in BOOLEAN
        /\ state' \in {"Initial", "Auth", "Open", "Error", "Backoff"}
    BY <2>1 DEF IInv, TypeOK, r
  <2> QED BY <2>3, <2>6, <2>7
<1> QED BY <1>4, <1>12, <1>13, <1>14

-----------------------------------------------------------------------------
(* Another user, another launch                                            *)

\* A set of naturals that is not empty has a least one.
LEMMA LeastNatural ==
    ASSUME NEW T \in SUBSET Nat, T # {}
    PROVE  \E x \in T : \A y \in T : x <= y
<1>1. PICK x \in T : \A y \in T : ~ (<<y, x>> \in OpToRel(<, Nat))
  BY WFMin, NatLessThanWellFounded
<1>2. \A y \in T : ~(y < x) BY <1>1 DEF OpToRel
<1> QED BY <1>2

\* The next ID is above all that are in use.
LEMMA NextFreeIDIsFree ==
    ASSUME IInv
    PROVE  /\ NextFreeID \in Nat
           /\ \A u \in Users : \A i \in 1 .. Len(queue[u]) : queue[u][i].id < NextFreeID
<1> DEFINE used == {Unknown} \cup UNION {IDs(queue[u]) : u \in Users}
           top == CHOOSE m \in used : \A id \in used : id <= m
           T == {nextBatchID - id : id \in used}
<1>1. nextBatchID \in Nat /\ queue \in [Users -> Seq(Batch)] BY DEF IInv, TypeOK
<1>2. ASSUME NEW u \in Users, NEW i \in 1 .. Len(queue[u])
      PROVE  queue[u][i].id \in used /\ queue[u][i].id \in Nat /\ queue[u][i].id < nextBatchID
  <2>1. queue[u] \in Seq(Batch) /\ queue[u][i] \in Batch BY <1>1, <1>2
  <2>2. queue[u][i].id \in IDs(queue[u]) BY <2>1 DEF IDs
  <2>3. queue[u][i].id < nextBatchID BY DEF IInv, Queues
  <2> QED BY <2>1, <2>2, <2>3 DEF Batch
<1>3. ASSUME NEW id \in used PROVE id \in Int /\ id < nextBatchID /\ -1 <= id
  <2>1. CASE id = Unknown BY <1>1, <2>1 DEF Unknown
  <2>2. CASE id # Unknown
    <3>1. PICK u \in Users : id \in IDs(queue[u]) BY <2>2
    <3>2. queue[u] \in Seq(Batch) /\ DOMAIN queue[u] = 1 .. Len(queue[u]) BY <1>1
    <3>3. PICK i \in 1 .. Len(queue[u]) : id = queue[u][i].id BY <3>1, <3>2 DEF IDs
    <3>4. id \in Nat /\ id < nextBatchID BY <1>2, <3>3
    <3> QED BY <1>1, <3>4
  <2> QED BY <2>1, <2>2
<1>4. Unknown \in used OBVIOUS
<1> HIDE DEF used
<1>5. T \in SUBSET Nat /\ T # {} BY <1>1, <1>3, <1>4
<1>6. PICK x \in T : \A y \in T : x <= y BY <1>5, LeastNatural
<1>7. PICK m \in used : x = nextBatchID - m BY <1>6
<1>8. \A id \in used : id <= m
  <2> SUFFICES ASSUME NEW id \in used PROVE id <= m OBVIOUS
  <2>1. nextBatchID - m <= nextBatchID - id BY <1>6, <1>7
  <2> QED BY <1>1, <1>3, <2>1
<1>9. top \in used /\ \A id \in used : id <= top BY <1>8
<1>10. NextFreeID = 1 + top BY DEF NextFreeID, used
<1> HIDE DEF top
<1>11. NextFreeID \in Nat BY <1>3, <1>9, <1>10
<1>12. ASSUME NEW u \in Users, NEW i \in 1 .. Len(queue[u]) PROVE queue[u][i].id < NextFreeID
  <2>1. queue[u][i].id <= top /\ queue[u][i].id \in Int BY <1>2, <1>9
  <2> QED BY <1>3, <1>9, <1>10, <2>1
<1> QED BY <1>11, <1>12

\* What opening the queue of v leaves: the queues as they are.
LEMMA OpenFacts ==
    ASSUME IInv, NEW v \in Users, Open(v)
    PROVE  /\ queue' = queue /\ user' = v /\ nextBatchID' = NextFreeID
           /\ UNCHANGED <<owner, committed, refused, faults>>
           /\ \E ack \in Nat \cup {Unknown} :
                 /\ ack \in {Unknown, lastAcknowledged[v]} /\ ack < NextFreeID
                 /\ lastAcknowledged' = [lastAcknowledged EXCEPT ![v] = ack]
                 /\ Fill(<<>>, Unknown, Following(queue[v], ack, <<>>, Unknown))
<1> DEFINE ack == IF lastAcknowledged[v] >= NextFreeID THEN Unknown ELSE lastAcknowledged[v]
           dropped == IF ack = Unknown THEN 0 ELSE UpTo(queue[v], ack)
           q == SubSeq(queue[v], dropped + 1, Len(queue[v]))
<1>1. /\ user' = v /\ nextBatchID' = NextFreeID
      /\ UNCHANGED <<owner, committed, refused, faults>>
      /\ lastAcknowledged' = [lastAcknowledged EXCEPT ![v] = ack]
      /\ queue' = [queue EXCEPT ![v] = q]
      /\ Fill(<<>>, Unknown, Following(q, ack, <<>>, Unknown))
  BY DEF Open
<1>2. /\ queue \in [Users -> Seq(Batch)] /\ lastAcknowledged[v] \in Nat \cup {Unknown}
      /\ NextFreeID \in Nat
  BY NextFreeIDIsFree DEF IInv, TypeOK
<1>3. ack \in Nat \cup {Unknown} /\ ack < NextFreeID /\ ack \in {Unknown, lastAcknowledged[v]}
  BY <1>2 DEF Unknown
<1>4. dropped = 0
  <2>1. CASE ack = Unknown BY <2>1
  <2>2. CASE ack # Unknown
    <3>1. ack = lastAcknowledged[v] /\ ack \in Int BY <1>3, <2>2
    <3>2. queue[v] \in Seq(Batch) /\ Len(queue[v]) \in Nat BY <1>2
    <3>3. \A i \in 1 .. Len(queue[v]) : queue[v][i].id \in Nat /\ ack < queue[v][i].id
      <4>1. \A i \in 1 .. Len(queue[v]) : queue[v][i] \in Batch BY <3>2
      <4> QED BY <3>1, <4>1 DEF IInv, Queues, Batch
    <3>4. \A i \in 1 .. Len(queue[v]) : ~(i <= 0) /\ ~(queue[v][i].id <= ack) BY <3>1, <3>3
    <3>5. \A i \in 1 .. Len(queue[v]) : i <= 0 <=> queue[v][i].id <= ack BY <3>4
    <3>6. 0 \in 0 .. Len(queue[v]) BY <3>2
    <3>7. UpTo(queue[v], ack) = 0 BY <3>1, <3>2, <3>5, <3>6, UpToIs
    <3> QED BY <2>2, <3>7
  <2> QED BY <2>1, <2>2
<1> HIDE DEF ack, dropped
<1>5. q = queue[v]
  <2>1. queue[v] \in Seq(Batch) BY <1>2
  <2> QED BY <1>4, <2>1, SubSeqFull
<1>6. queue' = queue BY <1>1, <1>2, <1>5
<1> QED BY <1>1, <1>3, <1>5, <1>6

\* Opening a queue, after a change of user or a kill, starts its pipeline at its front.
LEMMA OpenStep ==
    ASSUME IInv, NEW v \in Users, Open(v), restarts' \in Nat
    PROVE  IInv'
<1>1. PICK ack \in Nat \cup {Unknown} :
         /\ ack \in {Unknown, lastAcknowledged[v]} /\ ack < NextFreeID
         /\ lastAcknowledged' = [lastAcknowledged EXCEPT ![v] = ack]
         /\ Fill(<<>>, Unknown, Following(queue[v], ack, <<>>, Unknown))
  BY OpenFacts
<1>2. /\ queue' = queue /\ user' = v /\ nextBatchID' = NextFreeID
      /\ UNCHANGED <<owner, committed, refused, faults>>
  BY OpenFacts
<1>3. /\ NextFreeID \in Nat
      /\ \A u \in Users : \A i \in 1 .. Len(queue[u]) : queue[u][i].id < NextFreeID
  BY NextFreeIDIsFree
<1>4. /\ queue \in [Users -> Seq(Batch)] /\ queue[v] \in Seq(Batch) /\ Len(queue[v]) \in Nat
      /\ lastAcknowledged \in [Users -> Nat \cup {Unknown}]
      /\ owner \in Seq(Users) /\ Len(owner) \in Nat
  BY DEF IInv, TypeOK
<1>5. \A i \in 1 .. Len(queue[v]) : queue[v][i].id \in Nat /\ ack < queue[v][i].id
  <2>1. \A i \in 1 .. Len(queue[v]) : queue[v][i] \in Batch BY <1>4
  <2>2. \A i \in 1 .. Len(queue[v]) : queue[v][i].id \in Nat /\ lastAcknowledged[v] < queue[v][i].id
    BY <2>1 DEF IInv, Queues, Batch
  <2> QED BY <1>1, <2>2 DEF Unknown
<1>6. Fits(queue[v], <<>>, Highest(Unknown, ack))
  <2>1. Len(<<>>) = 0 /\ Len(<<>>) <= kMaxPendingWrites BY PipelineAssumption
  <2>2. \A i \in 1 .. Len(<<>>) : FALSE BY <2>1
  <2>3. \A i \in 1 .. Len(queue[v]) : ~(i <= 0) /\ ~(queue[v][i].id <= Highest(Unknown, ack))
    BY <1>1, <1>5 DEF Highest, Unknown
  <2>4. \A i \in 1 .. Len(queue[v]) : i <= Len(<<>>) <=> queue[v][i].id <= Highest(Unknown, ack)
    BY <2>1, <2>3
  <2> QED BY <1>4, <2>1, <2>2, <2>4 DEF Fits
<1> DEFINE more == Following(queue[v], ack, <<>>, Unknown)
<1>7. Refilled(queue[v], <<>>, more, NextFreeID)
  <2>1. <<>> \in Seq(Batch) OBVIOUS
  <2>2. Unknown \in Nat \cup {Unknown} /\ Unknown < NextFreeID BY <1>3 DEF Unknown
  <2>3. \A i \in 1 .. Len(queue[v]) : queue[v][i].id < NextFreeID BY <1>3
  <2>4. more = Following(queue[v], ack, <<>>, Unknown) /\ Fill(<<>>, Unknown, more) BY <1>1
  <2>5. ~(<<>> # <<>>) OBVIOUS
  <2> HIDE DEF more
  <2> QED BY <1>3, <1>4, <1>6, <2>1, <2>2, <2>3, <2>4, <2>5, FillFront
<1>8. /\ lastAcknowledged' \in [Users -> Nat \cup {Unknown}] /\ lastAcknowledged'[v] = ack
      /\ \A u \in Users : u # v => lastAcknowledged'[u] = lastAcknowledged[u]
  BY <1>1, <1>4
<1>9. Front' BY <1>1, <1>2, <1>7, <1>8 DEF Front, Refilled
<1>10. Queues'
  <2> SUFFICES ASSUME NEW u \in Users
               PROVE  \A i \in 1 .. Len(queue[u]) : lastAcknowledged'[u] < queue[u][i].id
    BY <1>2, <1>3 DEF IInv, Queues, Ordered
  <2>1. CASE u = v BY <1>5, <1>8, <2>1
  <2>2. CASE u # v BY <1>8, <2>2 DEF IInv, Queues
  <2> QED BY <2>1, <2>2
<1>11. Kept' BY <1>2 DEF IInv, Kept, Settled
<1>12. /\ state' \in {"Initial", "Auth"} /\ handshakeComplete' = FALSE
       /\ requests' = <<>> /\ answers' = <<>> /\ closing' = "no" /\ idle' = FALSE
  BY DEF Open, LetGo
<1>13. /\ pendingWrites' \in Seq(Batch) /\ Len(pendingWrites') <= kMaxPendingWrites
       /\ lastBatchSeen' \in Nat \cup {Unknown}
  BY <1>7 DEF Refilled
<1>14. Stream' /\ Call' BY <1>12, <1>13, AtRest
<1>15. \A s \in stray' : s \in stray \/ (s = requests /\ s # <<>>) BY AstrayFacts DEF Open
<1>16. Strays'
  <2>1. owner' = owner /\ Settled \subseteq Settled' BY <1>2 DEF Settled
  <2> QED BY <1>4, <1>15, <2>1, StraysStay
<1>17. stray' \subseteq Seq(Nat)
  <2>1. stray \subseteq Seq(Nat) /\ requests \in Seq(Nat) BY DEF IInv, TypeOK
  <2> QED BY <1>15, <2>1
<1>18. TypeOK'
  <2>1. /\ user' \in Users /\ queue' \in [Users -> Seq(Batch)] /\ nextBatchID' \in Nat
        /\ lastAcknowledged' \in [Users -> Nat \cup {Unknown}] /\ owner' \in Seq(Users)
    BY <1>2, <1>3, <1>4, <1>8
  <2>2. /\ committed' \subseteq Nat \ {0} /\ refused' \subseteq Nat \ {0} /\ faults' \in Nat
    BY <1>2 DEF IInv, TypeOK
  <2>3. /\ state' \in {"Initial", "Auth", "Open", "Error", "Backoff"}
        /\ handshakeComplete' \in BOOLEAN /\ idle' \in BOOLEAN
        /\ closing' \in {"no", "transient", "permanent"}
    BY <1>12
  <2>4. requests' \in Seq(Nat) /\ answers' \in Seq(Nat) BY <1>12
  <2> QED BY <1>13, <1>17, <2>1, <2>2, <2>3, <2>4 DEF TypeOK
<1> QED BY <1>9, <1>10, <1>11, <1>14, <1>16, <1>18 DEF IInv

-----------------------------------------------------------------------------
(* The invariant, and what follows from it                                 *)

\* It holds before any write.
LEMMA InitHolds == Init => IInv
<1> SUFFICES ASSUME Init PROVE IInv OBVIOUS
<1>1. /\ user \in Users /\ queue = [u \in Users |-> <<>>]
      /\ lastAcknowledged = [u \in Users |-> Unknown]
      /\ nextBatchID = 0 /\ owner = <<>> /\ pendingWrites = <<>> /\ lastBatchSeen = Unknown
      /\ state = "Initial" /\ handshakeComplete = FALSE /\ idle = FALSE
      /\ requests = <<>> /\ answers = <<>> /\ closing = "no"
      /\ stray = {} /\ committed = {} /\ refused = {} /\ faults = 0 /\ restarts = 0
  BY DEF Init
<1>2. \A u \in Users : queue[u] = <<>> /\ Len(queue[u]) = 0 BY <1>1
<1>3. Len(owner) = 0 /\ Len(pendingWrites) = 0 /\ Len(requests) = 0 /\ Len(answers) = 0 BY <1>1
<1>4. TypeOK
  <2>1. queue \in [Users -> Seq(Batch)] /\ lastAcknowledged \in [Users -> Nat \cup {Unknown}]
    BY <1>1
  <2>2. owner \in Seq(Users) /\ pendingWrites \in Seq(Batch)
    BY <1>1
  <2>3. requests \in Seq(Nat) /\ answers \in Seq(Nat) BY <1>1
  <2>4. Len(pendingWrites) <= kMaxPendingWrites BY <1>3, PipelineAssumption
  <2> QED BY <1>1, <2>1, <2>2, <2>3, <2>4 DEF TypeOK
<1>5. Queues
  <2> SUFFICES ASSUME NEW u \in Users
               PROVE  \A i \in 1 .. Len(queue[u]) : FALSE
    BY DEF Queues, Ordered
  <2> QED BY <1>2
<1>6. Kept
  <2>1. \A n \in 1 .. Len(owner) : FALSE BY <1>3
  <2> QED BY <2>1 DEF Kept
<1>7. Front
  <2>1. Len(pendingWrites) = Least(kMaxPendingWrites, Len(queue[user]))
    BY <1>1, <1>2, <1>3, PipelineAssumption DEF Least
  <2>2. \A i \in 1 .. Len(pendingWrites) : FALSE BY <1>3
  <2>3. lastBatchSeen < nextBatchID /\ lastAcknowledged[user] < nextBatchID BY <1>1 DEF Unknown
  <2> QED BY <1>1, <2>1, <2>2, <2>3 DEF Front
<1>8. Stream BY <1>1 DEF Stream
<1>9. Call BY <1>1 DEF Call
<1>10. Strays BY <1>1 DEF Strays
<1> QED BY <1>4, <1>5, <1>6, <1>7, <1>8, <1>9, <1>10 DEF IInv

\* Every step keeps it.
LEMMA StepHolds == IInv /\ [Next]_vars => IInv'
<1> SUFFICES ASSUME IInv, [Next]_vars PROVE IInv' OBVIOUS
<1>0. restarts \in Nat /\ user \in Users BY DEF IInv, TypeOK
<1>1. CASE WriteMutations BY <1>1, WriteMutationsStep
<1>2. CASE Callback
  BY <1>2, TokenArrivesStep, BackoffEndsStep, HandshakeAnsweredStep, WriteAnsweredStep,
     WriteRejectedStep, StreamFailsStep DEF Callback
<1>3. CASE TokenFails BY <1>3, TokenFailsStep
<1>4. CASE IdleTimeout BY <1>4, IdleTimeoutStep
<1>5. CASE \E v \in Users : UserChanges(v)
  <2>1. PICK v \in Users : UserChanges(v) BY <1>5
  <2>2. Open(v) /\ restarts' \in Nat BY <1>0, <2>1 DEF UserChanges
  <2> QED BY <2>2, OpenStep
<1>6. CASE Relaunch
  <2>1. Open(user) /\ restarts' \in Nat BY <1>0, <1>6 DEF Relaunch
  <2> QED BY <1>0, <2>1, OpenStep
<1>7. CASE Server BY <1>7, HandshakeAcceptedStep, CommitStep, RefuseStep DEF Server
<1>8. CASE HandshakeRefused BY <1>8, HandshakeRefusedStep
<1>9. CASE CallBreaks BY <1>9, CallBreaksStep
<1>10. CASE \E s \in stray : StrayArrives(s) BY <1>10, StrayArrivesStep
<1>11. CASE UNCHANGED vars
  <2>1. /\ UNCHANGED <<user, queue, lastAcknowledged, nextBatchID, owner, pendingWrites, lastBatchSeen>>
        /\ UNCHANGED <<state, handshakeComplete, idle, requests, answers, closing>>
        /\ UNCHANGED <<stray, committed, refused, faults, restarts>>
    BY <1>11 DEF vars, disk, pipeline, stream, call, server
  <2>2. TypeOK' BY <2>1 DEF IInv, TypeOK
  <2>3. Queues' BY <2>1 DEF IInv, Queues, Ordered
  <2>4. Kept' BY <2>1 DEF IInv, Kept, Settled
  <2>5. Front' BY <2>1 DEF IInv, Front
  <2>6. Stream' BY <2>1 DEF IInv, Stream, isStarted
  <2>7. Call' BY <2>1 DEF IInv, Call, Shaking, Writing
  <2>8. Strays' BY <2>1 DEF IInv, Strays, Settled
  <2> QED BY <2>2, <2>3, <2>4, <2>5, <2>6, <2>7, <2>8 DEF IInv
<1> QED BY <1>1, <1>2, <1>3, <1>4, <1>5, <1>6, <1>7, <1>8, <1>9, <1>10, <1>11 DEF Next

\* The invariant is one.
LEMMA InvHolds == Spec => []IInv
<1> QED BY InitHolds, StepHolds, PTL DEF Spec

\* The variables of the upload keep their types; the pipeline never holds more than its limit.
THEOREM UploadTypes == Spec => []TypeOK
<1>1. IInv => TypeOK BY DEF IInv
<1> QED BY <1>1, InvHolds, PTL

\* The pipeline is the front of the open queue: nothing is skipped, held back or sent twice.
THEOREM PipelineIsFront == Spec => []PipelineIsQueueFront
<1>1. ASSUME IInv PROVE PipelineIsQueueFront
  <2> DEFINE q == queue[user]
             n == Least(kMaxPendingWrites, Len(q))
             p == pendingWrites
  <2>1. q \in Seq(Batch) /\ Len(q) \in Nat /\ p \in Seq(Batch)
    BY <1>1 DEF IInv, TypeOK
  <2>2. n \in 0 .. Len(q) BY <2>1, PipelineAssumption DEF Least
  <2>3. Len(p) = n /\ \A i \in 1 .. Len(p) : p[i] = q[i] BY <1>1 DEF IInv, Front
  <2> HIDE DEF q, n, p
  <2> DEFINE f == SubSeq(q, 1, n)
  <2>4. f \in Seq(Batch) /\ Len(f) = n /\ \A i \in 1 .. n : f[i] = q[i]
    BY <2>1, <2>2, PrefixFacts
  <2> HIDE DEF f
  <2>5. Len(p) = Len(f) /\ \A i \in 1 .. Len(p) : p[i] = f[i] BY <2>3, <2>4
  <2>6. p = f BY <2>1, <2>4, <2>5, SeqEqual
  <2> QED BY <2>6 DEF PipelineIsQueueFront, p, f, n, q
<1> QED BY <1>1, InvHolds, PTL

\* Answers and refusals are for the first write of the pipeline, however the stream was
\* broken and started again before.
THEOREM CallMatches == Spec => []CallMatchesPipeline
<1>1. ASSUME IInv PROVE CallMatchesPipeline
  <2> DEFINE n == Numbers(pendingWrites)
             a == answers
             r == requests
             k == Len(a)
  <2>1. a \in Seq(Nat) /\ r \in Seq(Nat) /\ pendingWrites \in Seq(Batch) /\ k \in Nat /\ Len(r) \in Nat
    BY <1>1 DEF IInv, TypeOK
  <2>2. /\ n \in Seq(Nat) /\ Len(n) = Len(pendingWrites) /\ Len(pendingWrites) \in Nat
        /\ \A i \in 1 .. Len(pendingWrites) : n[i] = pendingWrites[i].no
    BY <2>1, NumbersFacts
  <2> HIDE DEF n
  <2>3. ASSUME handshakeComplete
        PROVE  /\ k + Len(r) <= Len(n)
               /\ state = "Open" /\ closing = "no" => k + Len(r) = Len(n)
               /\ \A i \in 1 .. k : a[i] = n[i]
               /\ \A i \in 1 .. Len(r) : r[i] = n[k + i]
               /\ closing = "permanent" => k < Len(pendingWrites) /\ pendingWrites[k + 1].no \in refused
    <3>1. Writing BY <1>1, <2>3 DEF IInv, Call
    <3>2. k + Len(r) <= Len(pendingWrites) BY <3>1 DEF Writing
    <3>3. state = "Open" /\ closing = "no" => k + Len(r) = Len(pendingWrites) BY <3>1 DEF Writing
    <3>4. ASSUME NEW i \in 1 .. k PROVE a[i] = n[i]
      <4>1. i \in 1 .. Len(pendingWrites) BY <2>1, <2>2, <3>2
      <4> QED BY <2>2, <3>1, <4>1 DEF Writing
    <3>5. ASSUME NEW i \in 1 .. Len(r) PROVE r[i] = n[k + i]
      <4>1. k + i \in 1 .. Len(pendingWrites) BY <2>1, <2>2, <3>2
      <4> QED BY <2>2, <3>1, <4>1 DEF Writing
    <3>6. closing = "permanent" => k < Len(pendingWrites) /\ pendingWrites[k + 1].no \in refused
      BY <3>1 DEF Writing
    <3> QED BY <2>2, <3>2, <3>3, <3>4, <3>5, <3>6
  <2> HIDE DEF a, r, k
  <2>4. ASSUME handshakeComplete, isStarted, closing = "no" PROVE a \o r = n
    <3>1. state = "Open" BY <1>1, <2>4 DEF IInv, Stream
    <3> DEFINE c == a \o r
    <3>2. /\ c \in Seq(Nat) /\ Len(c) = k + Len(r)
          /\ \A i \in 1 .. k + Len(r) : c[i] = IF i <= k THEN a[i] ELSE r[i - k]
      BY <2>1, ConcatProperties DEF k
    <3> HIDE DEF c
    <3>3. k + Len(r) = Len(n) BY <2>3, <2>4, <3>1
    <3>4. ASSUME NEW i \in 1 .. Len(c) PROVE c[i] = n[i]
      <4>1. CASE i <= k
        <5>1. i \in 1 .. k BY <2>1, <4>1
        <5> QED BY <2>3, <2>4, <3>2, <4>1, <5>1
      <4>2. CASE ~(i <= k)
        <5>1. i - k \in 1 .. Len(r) /\ k + (i - k) = i BY <2>1, <3>2, <4>2
        <5>2. c[i] = r[i - k] BY <3>2, <4>2
        <5>3. r[i - k] = n[k + (i - k)] BY <2>3, <2>4, <5>1
        <5> QED BY <5>1, <5>2, <5>3
      <4> QED BY <4>1, <4>2
    <3>5. c = n BY <2>2, <3>2, <3>3, <3>4, SeqEqual
    <3> QED BY <3>5 DEF c
  <2>5. ASSUME handshakeComplete PROVE k <= Len(pendingWrites) /\ a = SubSeq(n, 1, k)
    <3>1. k \in 0 .. Len(n) BY <2>1, <2>2, <2>3, <2>5
    <3> DEFINE f == SubSeq(n, 1, k)
    <3>2. f \in Seq(Nat) /\ Len(f) = k /\ \A i \in 1 .. k : f[i] = n[i] BY <2>2, <3>1, PrefixFacts
    <3> HIDE DEF f
    <3>3. Len(a) = k BY DEF k
    <3>4. \A i \in 1 .. Len(a) : a[i] = f[i] BY <2>3, <2>5, <3>2, <3>3
    <3>5. a = f BY <2>1, <3>2, <3>3, <3>4, SeqEqual
    <3>6. k <= Len(pendingWrites) BY <2>2, <3>1
    <3> QED BY <3>5, <3>6 DEF f
  <2> QED BY <2>3, <2>4, <2>5 DEF CallMatchesPipeline, n, a, r, k
<1> QED BY <1>1, InvHolds, PTL

\* The assertions of the code never fail.
THEOREM AssertionsNeverFail == Spec => []AssertionsHold
<1>1. ASSUME IInv PROVE AssertionsHold
  <2>1. isStarted /\ handshakeComplete => state = "Open" BY <1>1 DEF IInv, Stream
  <2>2. answers # <<>> \/ requests # <<>> \/ closing # "no" => state = "Open" BY <1>1 DEF IInv, Stream
  <2>3. idle => handshakeComplete /\ state = "Open" /\ pendingWrites = <<>> BY <1>1 DEF IInv, Stream
  <2>4. ASSUME NEW u \in Users, NEW id \in IDs(queue[u])
        PROVE  lastAcknowledged[u] < id /\ id < nextBatchID
    <3>1. DOMAIN queue[u] = 1 .. Len(queue[u]) BY <1>1 DEF IInv, TypeOK
    <3>2. PICK i \in 1 .. Len(queue[u]) : id = queue[u][i].id BY <2>4, <3>1 DEF IDs
    <3> QED BY <1>1, <3>2 DEF IInv, Queues
  <2> QED BY <2>1, <2>2, <2>3, <2>4 DEF AssertionsHold
<1> QED BY <1>1, InvHolds, PTL
-----------------------------------------------------------------------------
(* The refinement: every step is one of OrderedUpload's, or none           *)

Waiting == [u \in Users |-> Numbers(queue[u])]
UploadVars == <<owner, Waiting, committed, refused>>

\* The numbers of a queue without its head, and with a batch more.
LEMMA NumbersMove ==
    ASSUME NEW q \in Seq(Batch)
    PROVE  /\ q # <<>> => /\ Numbers(Tail(q)) = Tail(Numbers(q)) /\ Numbers(q) # <<>>
                          /\ Head(Numbers(q)) = q[1].no
           /\ \A b \in Batch : Numbers(Append(q, b)) = Append(Numbers(q), b.no)
<1> DEFINE n == Numbers(q)
<1>1. /\ n \in Seq(Nat) /\ Len(n) = Len(q) /\ Len(q) \in Nat
      /\ \A i \in 1 .. Len(q) : n[i] = q[i].no
  BY NumbersFacts
<1> HIDE DEF n
<1>2. ASSUME q # <<>> PROVE Numbers(Tail(q)) = Tail(n) /\ n # <<>> /\ Head(n) = q[1].no
  <2> DEFINE t == Tail(q)
             tn == Tail(n)
             nt == Numbers(t)
  <2>1. /\ Len(q) \in Nat \ {0} /\ t \in Seq(Batch) /\ Len(t) = Len(q) - 1
        /\ \A i \in 1 .. Len(t) : t[i] = q[i + 1]
    BY <1>2, TailFacts
  <2>2. n # <<>> BY <1>1, <2>1
  <2>3. /\ tn \in Seq(Nat) /\ Len(tn) = Len(n) - 1 /\ Head(n) = n[1]
        /\ \A i \in 1 .. Len(tn) : tn[i] = n[i + 1]
    BY <1>1, <2>2, TailFacts
  <2> HIDE DEF t, tn
  <2>4. nt \in Seq(Nat) /\ Len(nt) = Len(t) /\ \A i \in 1 .. Len(t) : nt[i] = t[i].no
    BY <2>1, NumbersFacts
  <2> HIDE DEF nt
  <2>5. Len(nt) = Len(tn) BY <1>1, <2>1, <2>3, <2>4
  <2>6. ASSUME NEW i \in 1 .. Len(nt) PROVE nt[i] = tn[i]
    <3>1. Len(nt) = Len(t) /\ Len(t) = Len(q) - 1 /\ Len(q) \in Nat /\ Len(nt) = Len(tn)
      BY <2>1, <2>4, <2>5
    <3>0. i \in 1 .. Len(t) /\ i \in 1 .. Len(tn) /\ i + 1 \in 1 .. Len(q) BY <3>1
    <3>2. nt[i] = t[i].no /\ t[i] = q[i + 1] BY <2>1, <2>4, <3>0, Zenon
    <3>3. tn[i] = n[i + 1] /\ n[i + 1] = q[i + 1].no BY <1>1, <2>3, <3>0, Zenon
    <3> QED BY <3>2, <3>3
  <2>7. nt = tn BY <2>3, <2>4, <2>5, <2>6, SeqEqual
  <2>8. 1 \in 1 .. Len(q) BY <2>1
  <2> QED BY <1>1, <2>2, <2>3, <2>7, <2>8 DEF nt, tn, t
<1>3. ASSUME NEW b \in Batch PROVE Numbers(Append(q, b)) = Append(n, b.no)
  <2> DEFINE s == Append(q, b)
             ns == Numbers(s)
             sn == Append(n, b.no)
  <2>1. s \in Seq(Batch) /\ Len(s) = Len(q) + 1 /\ s[Len(q) + 1] = b
        /\ \A i \in 1 .. Len(q) : s[i] = q[i]
    OBVIOUS
  <2>2. b.no \in Nat BY DEF Batch
  <2>3. sn \in Seq(Nat) /\ Len(sn) = Len(n) + 1 /\ sn[Len(n) + 1] = b.no
        /\ \A i \in 1 .. Len(n) : sn[i] = n[i]
    BY <1>1, <2>2
  <2> HIDE DEF s, sn
  <2>4. ns \in Seq(Nat) /\ Len(ns) = Len(s) /\ \A i \in 1 .. Len(s) : ns[i] = s[i].no
    BY <2>1, NumbersFacts
  <2> HIDE DEF ns
  <2>5. Len(ns) = Len(sn) BY <1>1, <2>1, <2>3, <2>4
  <2>6. ASSUME NEW i \in 1 .. Len(ns) PROVE ns[i] = sn[i]
    <3>1. CASE i = Len(q) + 1
      <4>1. i \in 1 .. Len(s) BY <2>4
      <4> QED BY <1>1, <2>1, <2>3, <2>4, <3>1, <4>1
    <3>2. CASE i # Len(q) + 1
      <4>1. i \in 1 .. Len(q) /\ i \in 1 .. Len(s) BY <1>1, <2>1, <2>4, <3>2
      <4> QED BY <1>1, <2>1, <2>3, <2>4, <4>1
    <3> QED BY <3>1, <3>2
  <2>7. ns = sn BY <2>3, <2>4, <2>5, <2>6, SeqEqual
  <2> QED BY <2>7 DEF ns, sn, s
<1> QED BY <1>2, <1>3 DEF n

\* Steps that leave the queues and the server alone are none of the promise.
LEMMA NoUpload ==
    ASSUME UNCHANGED <<queue, owner, committed, refused>>
    PROVE  UNCHANGED UploadVars
BY DEF UploadVars, Waiting

\* A new write is made.
LEMMA MakeUpload ==
    ASSUME IInv, WriteMutations
    PROVE  Upload!Make(user)
<1> DEFINE batch == [id |-> nextBatchID, no |-> Len(owner) + 1]
           q == Append(queue[user], batch)
<1>1. /\ queue' = [queue EXCEPT ![user] = q] /\ owner' = Append(owner, user)
      /\ UNCHANGED <<committed, refused>>
  BY DEF WriteMutations, server
<1>2. /\ queue \in [Users -> Seq(Batch)] /\ user \in Users /\ queue[user] \in Seq(Batch)
      /\ nextBatchID \in Nat /\ owner \in Seq(Users)
  BY DEF IInv, TypeOK
<1>3. batch \in Batch /\ batch.no = Len(owner) + 1
  <2>1. Len(owner) + 1 \in Nat \ {0} BY <1>2
  <2> QED BY <1>2, <2>1 DEF Batch
<1> HIDE DEF batch
<1>4. Numbers(q) = Append(Numbers(queue[user]), Len(owner) + 1) BY <1>2, <1>3, NumbersMove
<1> HIDE DEF q
<1>5. Waiting' = [Waiting EXCEPT ![user] = Append(@, Len(owner) + 1)]
  BY <1>1, <1>2, <1>4 DEF Waiting
<1> QED BY <1>1, <1>5 DEF Upload!Make, Waiting

\* A write that leaves its queue is released.
LEMMA ReleaseUpload ==
    ASSUME IInv, NEW more, TailStays(more), pendingWrites[1].no \in Settled,
           UNCHANGED <<owner, committed, refused>>
    PROVE  Upload!Release(user)
<1>1. /\ queue \in [Users -> Seq(Batch)] /\ user \in Users /\ queue[user] \in Seq(Batch)
  BY DEF IInv, TypeOK
<1>2. /\ pendingWrites[1] = queue[user][1] /\ queue[user] # <<>>
      /\ queue' = [queue EXCEPT ![user] = Tail(@)]
  BY DEF TailStays
<1>3. /\ Numbers(Tail(queue[user])) = Tail(Numbers(queue[user])) /\ Numbers(queue[user]) # <<>>
      /\ Head(Numbers(queue[user])) = queue[user][1].no
  BY <1>1, <1>2, NumbersMove
<1>4. Waiting' = [Waiting EXCEPT ![user] = Tail(@)] BY <1>1, <1>2, <1>3 DEF Waiting
<1>5. Waiting[user] = Numbers(queue[user]) BY <1>1 DEF Waiting
<1> QED BY <1>2, <1>3, <1>4, <1>5 DEF Upload!Release, Waiting, Settled

\* A decision of the server comes after those on the elder writes.
LEMMA DecideUpload ==
    ASSUME IInv, NEW s \in Seq(Nat), s # <<>>, InOrder(s, owner, Settled), s[1] # Handshake,
           \/ committed' = committed \cup {s[1]} /\ refused' = refused
           \/ refused' = refused \cup {s[1]} /\ committed' = committed,
           UNCHANGED <<queue, owner>>
    PROVE  \E n \in DOMAIN owner : Upload!Decide(n)
<1>1. Len(s) \in Nat \ {0} /\ 1 \in 1 .. Len(s) BY TailFacts
<1>2. s[1] \in 1 .. Len(owner) BY <1>1 DEF InOrder
<1>3. ASSUME NEW m \in 1 .. (s[1] - 1), owner[m] = owner[s[1]] PROVE m \in Settled
  <2>1. m \in Settled \/ \E j \in 1 .. (1 - 1) : s[j] = m BY <1>1, <1>3 DEF InOrder
  <2>2. \A j \in 1 .. (1 - 1) : FALSE OBVIOUS
  <2> QED BY <2>1, <2>2
<1>4. owner \in Seq(Users) /\ DOMAIN owner = 1 .. Len(owner) BY DEF IInv, TypeOK
<1>5. Waiting' = Waiting BY DEF Waiting
<1>6. Upload!Decide(s[1]) BY <1>3, <1>5 DEF Upload!Decide, Waiting, Settled
<1> QED BY <1>2, <1>4, <1>6

\* Every step of the remote store is one of the ordered upload, or changes nothing there.
LEMMA UploadStep == IInv /\ [Next]_vars => [Upload!Next]_UploadVars
<1> SUFFICES ASSUME IInv, [Next]_vars PROVE Upload!Next \/ UNCHANGED UploadVars OBVIOUS
<1>0. user \in Users BY DEF IInv, TypeOK
<1>1. CASE WriteMutations BY <1>0, <1>1, MakeUpload DEF Upload!Next
<1>2. CASE Callback
  <2>1. CASE WriteAnswered
    <3>1. answers # <<>> /\ handshakeComplete BY <2>1 DEF WriteAnswered
    <3>2. pendingWrites # <<>> /\ pendingWrites[1].no \in Settled BY <3>1, AnswerIsForHead
    <3>3. pendingWrites \in Seq(Batch) BY DEF IInv, TypeOK
    <3>4. Head(pendingWrites) = pendingWrites[1] BY <3>2, <3>3, TailFacts
    <3> DEFINE ack == pendingWrites[1].id
               more == Following(Without(queue[user], Head(pendingWrites).id), ack,
                                 Tail(pendingWrites), lastBatchSeen)
    <3>5. HeadLeaves(ack, more) BY <2>1, <3>4 DEF WriteAnswered, HeadLeaves, server
    <3> HIDE DEF more
    <3>6. TailStays(more) BY <3>2, <3>5, HeadGoes
    <3>7. UNCHANGED <<owner, committed, refused>> BY <3>5 DEF HeadLeaves
    <3> QED BY <1>0, <3>2, <3>6, <3>7, ReleaseUpload DEF Upload!Next
  <2>2. CASE WriteRejected
    <3>1. answers = <<>> /\ closing = "permanent" /\ handshakeComplete /\ pendingWrites # <<>>
      BY <2>2 DEF WriteRejected
    <3>2. pendingWrites[1].no \in Settled
      <4>1. Writing BY <3>1 DEF IInv, Call
      <4>2. Len(answers) + 1 = 1 BY <3>1
      <4> QED BY <3>1, <4>1, <4>2 DEF Writing, Settled
    <3> DEFINE ack == lastAcknowledged[user]
               more == Following(Without(queue[user], Head(pendingWrites).id), ack,
                                 Tail(pendingWrites), lastBatchSeen)
    <3>3. lastAcknowledged' = [lastAcknowledged EXCEPT ![user] = ack]
      BY <2>2 DEF WriteRejected, IInv, TypeOK
    <3>4. HeadLeaves(ack, more) BY <2>2, <3>3 DEF WriteRejected, HeadLeaves, server
    <3> HIDE DEF more
    <3>5. TailStays(more) BY <3>1, <3>2, <3>4, HeadGoes
    <3>6. UNCHANGED <<owner, committed, refused>> BY <3>4 DEF HeadLeaves
    <3> QED BY <1>0, <3>2, <3>5, <3>6, ReleaseUpload DEF Upload!Next
  <2>3. CASE TokenArrives \/ BackoffEnds \/ HandshakeAnswered \/ StreamFails
    <3>1. UNCHANGED <<queue, owner, committed, refused>>
      BY <2>3 DEF TokenArrives, BackoffEnds, HandshakeAnswered, StreamFails, disk, server
    <3> QED BY <3>1, NoUpload
  <2> QED BY <1>2, <2>1, <2>2, <2>3 DEF Callback
<1>3. CASE TokenFails \/ IdleTimeout \/ HandshakeRefused \/ CallBreaks
  <2>1. UNCHANGED <<queue, owner, committed, refused>>
    BY <1>3 DEF TokenFails, IdleTimeout, HandshakeRefused, CallBreaks, disk, server
  <2> QED BY <2>1, NoUpload
<1>4. CASE (\E v \in Users : UserChanges(v)) \/ Relaunch
  <2>1. PICK v \in Users : Open(v) BY <1>0, <1>4 DEF UserChanges, Relaunch
  <2>2. UNCHANGED <<queue, owner, committed, refused>> BY <2>1, OpenFacts
  <2> QED BY <2>2, NoUpload
<1>5. CASE Server
  <2>1. CASE HandshakeAccepted
    <3>1. UNCHANGED <<queue, owner, committed, refused>>
      BY <2>1 DEF HandshakeAccepted, disk, server
    <3> QED BY <3>1, NoUpload
  <2>2. CASE \E n \in DOMAIN owner : Commit(n) \/ Refuse(n)
    <3>1. PICK n \in DOMAIN owner : Commit(n) \/ Refuse(n) BY <2>2
    <3>2. /\ n # Handshake /\ Reads(n) /\ UNCHANGED <<queue, owner>>
          /\ \/ committed' = committed \cup {n} /\ refused' = refused
             \/ refused' = refused \cup {n} /\ committed' = committed
      BY <3>1 DEF Commit, Refuse, disk
    <3>3. requests \in Seq(Nat) /\ requests # <<>> /\ requests[1] = n
      <4>1. requests \in Seq(Nat) /\ Len(requests) \in Nat \ {0} /\ requests[1] = n
        BY <3>2, ReadFacts
      <4>2. requests # <<>> BY <3>2 DEF Reads
      <4> QED BY <4>1, <4>2
    <3>4. InOrder(requests, owner, Settled) BY RequestsInOrder
    <3>5. \E m \in DOMAIN owner : Upload!Decide(m) BY <3>2, <3>3, <3>4, DecideUpload
    <3> QED BY <3>5 DEF Upload!Next
  <2> QED BY <1>5, <2>1, <2>2 DEF Server
<1>6. CASE \E s \in stray : StrayArrives(s)
  <2>1. PICK s \in stray : StrayArrives(s) BY <1>6
  <2>2. /\ s \in Seq(Nat) /\ s # <<>> /\ InOrder(s, owner, Settled)
        /\ \/ s[1] = Handshake /\ committed' = committed /\ refused' = refused
           \/ s[1] # Handshake /\ committed' = committed \cup {s[1]} /\ refused' = refused
           \/ s[1] # Handshake /\ refused' = refused \cup {s[1]} /\ committed' = committed
    BY <2>1, StrayFacts
  <2>3. UNCHANGED <<queue, owner>> BY <2>1 DEF StrayArrives, disk
  <2>4. CASE s[1] = Handshake BY <2>2, <2>3, <2>4, NoUpload
  <2>5. CASE s[1] # Handshake
    <3>1. \E m \in DOMAIN owner : Upload!Decide(m) BY <2>2, <2>3, <2>5, DecideUpload
    <3> QED BY <3>1 DEF Upload!Next
  <2> QED BY <2>4, <2>5
<1>7. CASE UNCHANGED vars
  <2>1. UNCHANGED <<queue, owner, committed, refused>> BY <1>7 DEF vars, disk, server
  <2> QED BY <2>1, NoUpload
<1> QED BY <1>1, <1>2, <1>3, <1>4, <1>5, <1>6, <1>7 DEF Next

\* The upload implements OrderedUpload: through broken calls, stray requests, batch IDs
\* given again, changes of the user and kills, each user's writes reach the server in order
\* and leave the phone when they are decided on.
THEOREM UploadsHappenInOrder == Spec => UploadsInOrder
<1>1. Init => Upload!Init
  <2> SUFFICES ASSUME Init PROVE Upload!Init OBVIOUS
  <2>1. /\ queue = [u \in Users |-> <<>>] /\ owner = <<>> /\ committed = {} /\ refused = {}
    BY DEF Init
  <2>2. Numbers(<<>>) = <<>> BY DEF Numbers
  <2>3. \A u \in Users : Numbers(queue[u]) = <<>> BY <2>1, <2>2
  <2> QED BY <2>1, <2>3 DEF Upload!Init
<1>2. IInv /\ [Next]_vars => [Upload!Next]_<<owner, Waiting, committed, refused>>
  BY UploadStep DEF UploadVars
<1> QED BY <1>1, <1>2, InvHolds, PTL DEF Spec, UploadsInOrder, Upload!Spec, Waiting
-----------------------------------------------------------------------------
(* Nothing waits for nobody                                                *)

\* A pipeline that is not empty has a stream under way.
Busy == pendingWrites # <<>> => isStarted

\* A stream that came to rest for the pipeline it is left with.
LEMMA RestIsBusy ==
    ASSUME NEW p, NEW st, Rested(p, st), pendingWrites' = p
    PROVE  Busy'
<1>1. CASE p = <<>> BY <1>1 DEF Busy
<1>2. CASE p # <<>>
  <2>1. state' \in {"Auth", "Backoff"} BY <1>2 DEF Rested
  <2> QED BY <2>1 DEF Busy, isStarted
<1> QED BY <1>1, <1>2

\* Every step that changes the pipeline or the stream keeps it so.
LEMMA BusyStep == IInv /\ Busy /\ [Next]_vars => Busy'
<1> SUFFICES ASSUME IInv, Busy, [Next]_vars PROVE Busy' OBVIOUS
<1>0. pendingWrites \in Seq(Batch) BY DEF IInv, TypeOK
<1>1. CASE WriteMutations
  <2> DEFINE q == Append(queue[user], [id |-> nextBatchID, no |-> Len(owner) + 1])
             more == Following(q, lastAcknowledged[user], pendingWrites, lastBatchSeen)
  <2>1. /\ pendingWrites' = pendingWrites \o more
        /\ \/ more # <<>> /\ ~isStarted /\ Rested(more, state)
           \/ isStarted /\ state' = state
           \/ more = <<>> /\ state' = state
    BY <1>1, Zenon DEF WriteMutations, Fill, stream
  <2> HIDE DEF more
  <2>2. CASE more # <<>> /\ Rested(more, state)
    <3>1. state' \in {"Auth", "Backoff"} BY <2>2 DEF Rested
    <3> QED BY <3>1 DEF Busy, isStarted
  <2>3. CASE isStarted /\ state' = state BY <2>3 DEF Busy, isStarted
  <2>4. CASE more = <<>> /\ state' = state
    <3>1. pendingWrites' = pendingWrites BY <1>0, <2>1, <2>4
    <3> QED BY <2>4, <3>1 DEF Busy, isStarted
  <2> QED BY <2>1, <2>2, <2>3, <2>4
<1>2. CASE TokenArrives \/ BackoffEnds
  <2>1. state' \in {"Auth", "Open"} BY <1>2 DEF TokenArrives, BackoffEnds
  <2> QED BY <2>1 DEF Busy, isStarted
<1>3. CASE TokenFails \/ StreamFails \/ IdleTimeout
  <2>1. pendingWrites' = pendingWrites /\ \E st : Rested(pendingWrites, st)
    BY <1>3, Zenon DEF TokenFails, StreamFails, IdleTimeout, pipeline
  <2> QED BY <2>1, RestIsBusy
<1>4. CASE WriteAnswered
  <2>1. answers # <<>> /\ state' = state BY <1>4 DEF WriteAnswered
  <2>2. state = "Open" BY <2>1 DEF IInv, Stream
  <2> QED BY <2>1, <2>2 DEF Busy, isStarted
<1>5. CASE WriteRejected
  <2>1. \E p : pendingWrites' = p /\ Rested(p, "Initial")
    BY <1>5, Zenon DEF WriteRejected, Fill
  <2> QED BY <2>1, RestIsBusy
<1>6. CASE (\E v \in Users : UserChanges(v)) \/ Relaunch
  <2>1. PICK v : Open(v) BY <1>6 DEF UserChanges, Relaunch
  <2>2. \E more : pendingWrites' = <<>> \o more
                  /\ state' = IF more = <<>> THEN "Initial" ELSE "Auth"
    BY <2>1, Zenon DEF Open, Fill
  <2>3. PICK more : pendingWrites' = <<>> \o more
                    /\ state' = IF more = <<>> THEN "Initial" ELSE "Auth"
    BY <2>2
  <2>4. CASE more = <<>>
    <3>1. pendingWrites' = <<>> BY <2>3, <2>4
    <3> QED BY <3>1 DEF Busy
  <2>5. CASE more # <<>> BY <2>3, <2>5 DEF Busy, isStarted
  <2> QED BY <2>4, <2>5
<1>7. CASE \/ HandshakeAnswered \/ Server \/ HandshakeRefused \/ CallBreaks
           \/ (\E s \in stray : StrayArrives(s)) \/ UNCHANGED vars
  <2>1. pendingWrites' = pendingWrites /\ state' = state
    BY <1>7 DEF HandshakeAnswered, Server, HandshakeAccepted, Commit, Refuse, HandshakeRefused,
                CallBreaks, StrayArrives, pipeline, stream, vars
  <2> QED BY <2>1 DEF Busy, isStarted
<1> QED BY <1>1, <1>2, <1>3, <1>4, <1>5, <1>6, <1>7 DEF Next, Callback

\* No write in the open queue is ever left with nothing under way for it: the stream does not
\* rest with work to do, and an open call always has somebody who is to speak.
THEOREM QueueIsNeverLeft == Spec => []QueueIsUnderWay
<1>1. Init => Busy BY DEF Init, Busy
<1>2. ASSUME IInv, Busy, queue[user] # <<>>
      PROVE  \/ state \in {"Auth", "Backoff"}
             \/ state = "Open" /\ (answers # <<>> \/ requests # <<>> \/ closing # "no")
  <2>1. /\ queue[user] \in Seq(Batch) /\ pendingWrites \in Seq(Batch)
        /\ answers \in Seq(Nat) /\ requests \in Seq(Nat)
    BY <1>2 DEF IInv, TypeOK
  <2>2. Len(queue[user]) \in Nat \ {0} BY <1>2, <2>1
  <2>3. Len(pendingWrites) \in Nat \ {0}
    <3>1. Len(pendingWrites) = Least(kMaxPendingWrites, Len(queue[user])) BY <1>2 DEF IInv, Front
    <3> QED BY <2>2, <3>1, PipelineAssumption DEF Least
  <2>4. isStarted
    <3>1. pendingWrites # <<>> BY <2>3
    <3> QED BY <1>2, <3>1 DEF Busy
  <2>5. ASSUME state = "Open", closing = "no" PROVE answers # <<>> \/ requests # <<>>
    <3>1. CASE handshakeComplete
      <4>1. Writing BY <1>2, <3>1 DEF IInv, Call
      <4>2. Len(answers) + Len(requests) = Len(pendingWrites) BY <2>5, <4>1 DEF Writing
      <4>3. Len(answers) # 0 \/ Len(requests) # 0 BY <2>1, <2>3, <4>2
      <4> QED BY <4>3
    <3>2. CASE ~handshakeComplete
      <4>1. Shaking BY <1>2, <2>5, <3>2 DEF IInv, Call
      <4>2. answers = <<Handshake>> \/ requests = <<Handshake>> BY <2>5, <4>1 DEF Shaking
      <4> QED BY <4>2
    <3> QED BY <3>1, <3>2
  <2> QED BY <2>4, <2>5 DEF isStarted
<1>3. IInv /\ Busy => QueueIsUnderWay BY <1>2 DEF QueueIsUnderWay
<1> QED BY <1>1, <1>3, BusyStep, InvHolds, PTL DEF Spec
-----------------------------------------------------------------------------
(* What implements OrderedUpload has what follows from it.                 *)

Promised == INSTANCE OrderedUploadProofs WITH waiting <- Waiting

\* No write is lost: every one is in its user's queue or decided on by the server, which has
\* decided on the elder ones of its user before; in each queue the decided ones are the front.
THEOREM NoWriteIsLost ==
    Spec => [](Promised!NothingLost /\ Promised!EldersFirst /\ Promised!DecidedComeFirst)
<1>1. Upload!Init => Promised!Init BY DEF Upload!Init, Promised!Init, Waiting
<1>2. [Upload!Next]_<<owner, Waiting, committed, refused>>
         => [Promised!Next]_<<owner, Waiting, committed, refused>>
  BY DEF Upload!Next, Upload!Make, Upload!Decide, Upload!Release, Promised!Next, Promised!Make,
         Promised!Decide, Promised!Release, Waiting
<1>3. UploadsInOrder => Promised!Spec
  BY <1>1, <1>2, PTL DEF UploadsInOrder, Upload!Spec, Promised!Spec, Waiting
<1> QED BY <1>3, UploadsHappenInOrder, Promised!NothingIsLost, PTL
=============================================================================
