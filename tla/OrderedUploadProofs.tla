------------------------ MODULE OrderedUploadProofs ------------------------
(***************************************************************************)
(* What the promise of OrderedUpload amounts to, for every set of users    *)
(* and every number of writes: no write is lost, and of a user's writes    *)
(* the server has decided on the oldest ones.  RemoteStoreProofs carries   *)
(* both over to the program, which implements OrderedUpload.               *)
(***************************************************************************)
EXTENDS OrderedUpload, TLAPS

vars == <<owner, waiting, committed, refused>>

Decided == committed \cup refused

Types ==
    /\ owner \in Seq(Users)
    /\ waiting \in [Users -> Seq(Nat)]
    /\ Decided \subseteq 1 .. Len(owner)

\* Every write that was made is waiting in its owner's queue, or decided on.
NothingLost ==
    \A n \in 1 .. Len(owner) :
        n \in Decided \/ \E i \in 1 .. Len(waiting[owner[n]]) : waiting[owner[n]][i] = n

\* The server decides on the writes of a user in the order in which they were made.
EldersFirst ==
    \A n \in Decided : \A m \in 1 .. (n - 1) : owner[m] = owner[n] => m \in Decided

\* A queue holds its user's writes, in that order.
QueuesAscend ==
    \A u \in Users :
        /\ \A i \in 1 .. Len(waiting[u]) :
              waiting[u][i] \in 1 .. Len(owner) /\ owner[waiting[u][i]] = u
        /\ \A i, k \in 1 .. Len(waiting[u]) : i < k => waiting[u][i] < waiting[u][k]

\* In each queue the writes that are decided on come before those that are not.
DecidedComeFirst ==
    \A u \in Users : \A i, k \in 1 .. Len(waiting[u]) :
        i < k /\ waiting[u][k] \in Decided => waiting[u][i] \in Decided

UploadInv == Types /\ NothingLost /\ EldersFirst /\ QueuesAscend

\* Before the first write there is nothing to lose.
LEMMA UploadInit == Init => UploadInv
<1> SUFFICES ASSUME Init PROVE UploadInv OBVIOUS
<1>1. owner = <<>> /\ waiting = [u \in Users |-> <<>>] /\ Decided = {} BY DEF Init, Decided
<1>2. Len(owner) = 0 /\ owner \in Seq(Users) /\ waiting \in [Users -> Seq(Nat)] BY <1>1
<1>3. \A u \in Users : Len(waiting[u]) = 0 BY <1>1
<1> QED BY <1>1, <1>2, <1>3 DEF UploadInv, Types, NothingLost, EldersFirst, QueuesAscend

\* A new write is the youngest, at the end of its owner's queue.
LEMMA MakeKeeps ==
    ASSUME UploadInv, NEW u \in Users, Make(u)
    PROVE  UploadInv'
<1>1. Types /\ NothingLost /\ EldersFirst /\ QueuesAscend BY DEF UploadInv
<1> DEFINE n == Len(owner) + 1
           q == waiting[u]
<1>2. owner \in Seq(Users) /\ waiting \in [Users -> Seq(Nat)] /\ q \in Seq(Nat) BY <1>1 DEF Types
<1>3. owner' = Append(owner, u) /\ waiting' = [waiting EXCEPT ![u] = Append(q, n)]
  BY DEF Make
<1>4. Decided' = Decided /\ Decided \subseteq 1 .. Len(owner) BY <1>1 DEF Make, Decided, Types
<1>5. /\ Len(owner) \in Nat /\ Len(owner') = n /\ owner'[n] = u /\ owner' \in Seq(Users)
      /\ \A m \in 1 .. Len(owner) : owner'[m] = owner[m]
  BY <1>2, <1>3
<1>6. n \in Nat BY <1>5
<1>7. /\ waiting'[u] = Append(q, n) /\ waiting' \in [Users -> Seq(Nat)]
      /\ \A v \in Users : v # u => waiting'[v] = waiting[v]
  BY <1>2, <1>3, <1>6
<1>8. /\ Len(q) \in Nat /\ Len(waiting'[u]) = Len(q) + 1 /\ waiting'[u][Len(q) + 1] = n
      /\ \A i \in 1 .. Len(q) : waiting'[u][i] = q[i]
  BY <1>2, <1>6, <1>7
<1>9. \A m \in 1 .. Len(owner') : m \in 1 .. Len(owner) \/ m = n BY <1>5
<1>10. \A i \in 1 .. Len(waiting'[u]) : i \in 1 .. Len(q) \/ i = Len(q) + 1 BY <1>8
<1>11. \A m \in 1 .. Len(owner) : m \in 1 .. Len(owner') /\ m < n BY <1>5
<1> HIDE DEF n
<1>12. Types' BY <1>4, <1>5, <1>7, <1>11 DEF Types
<1>13. NothingLost'
  <2>1. ASSUME NEW m \in 1 .. Len(owner), m \notin Decided
        PROVE  \E i \in 1 .. Len(waiting'[owner[m]]) : waiting'[owner[m]][i] = m
    <3>1. PICK i \in 1 .. Len(waiting[owner[m]]) : waiting[owner[m]][i] = m
      BY <1>1, <2>1 DEF NothingLost
    <3>2. owner[m] \in Users BY <1>2, <2>1
    <3>3. CASE owner[m] = u
      <4>1. i \in 1 .. Len(waiting'[u]) BY <1>8, <3>1, <3>3
      <4> QED BY <1>8, <3>1, <3>3, <4>1
    <3>4. CASE owner[m] # u BY <1>7, <3>1, <3>2, <3>4
    <3> QED BY <3>3, <3>4
  <2>2. \E i \in 1 .. Len(waiting'[u]) : waiting'[u][i] = n
    <3>1. Len(q) + 1 \in 1 .. Len(waiting'[u]) BY <1>8
    <3> QED BY <1>8, <3>1
  <2> QED BY <1>4, <1>5, <1>9, <2>1, <2>2 DEF NothingLost
<1>14. EldersFirst'
  <2> SUFFICES ASSUME NEW k \in Decided, NEW m \in 1 .. (k - 1), owner'[m] = owner'[k]
               PROVE  m \in Decided
    BY <1>4 DEF EldersFirst
  <2>1. k \in 1 .. Len(owner) /\ m \in 1 .. Len(owner) BY <1>4, <1>5
  <2>2. owner[m] = owner[k] BY <1>5, <2>1
  <2> QED BY <1>1, <2>2 DEF EldersFirst
<1>15. QueuesAscend'
  <2> SUFFICES ASSUME NEW v \in Users
               PROVE  /\ \A i \in 1 .. Len(waiting'[v]) :
                            waiting'[v][i] \in 1 .. Len(owner') /\ owner'[waiting'[v][i]] = v
                      /\ \A i, k \in 1 .. Len(waiting'[v]) :
                            i < k => waiting'[v][i] < waiting'[v][k]
    BY DEF QueuesAscend
  <2>1. \A i \in 1 .. Len(waiting[v]) :
           /\ waiting[v][i] \in 1 .. Len(owner) /\ owner[waiting[v][i]] = v
           /\ waiting[v][i] \in 1 .. Len(owner') /\ owner'[waiting[v][i]] = v
           /\ waiting[v][i] < n
    BY <1>1, <1>5, <1>11 DEF QueuesAscend
  <2>2. CASE v # u BY <1>1, <1>7, <2>1, <2>2 DEF QueuesAscend
  <2>3. CASE v = u
    <3>1. n \in 1 .. Len(owner') BY <1>5, <1>6 DEF n
    <3>2. ASSUME NEW i \in 1 .. Len(waiting'[v])
          PROVE  waiting'[v][i] \in 1 .. Len(owner') /\ owner'[waiting'[v][i]] = v
      <4>1. CASE i \in 1 .. Len(q) BY <1>8, <2>1, <2>3, <4>1
      <4>2. CASE i = Len(q) + 1
        <5>1. waiting'[v][i] = n BY <1>8, <2>3, <4>2
        <5> QED BY <1>5, <2>3, <3>1, <5>1
      <4> QED BY <1>10, <2>3, <4>1, <4>2
    <3>3. ASSUME NEW i \in 1 .. Len(waiting'[v]), NEW k \in 1 .. Len(waiting'[v]), i < k
          PROVE  waiting'[v][i] < waiting'[v][k]
      <4>1. i \in 1 .. Len(q) /\ (k \in 1 .. Len(q) \/ k = Len(q) + 1) BY <1>8, <2>3, <3>3
      <4>2. CASE k \in 1 .. Len(q) BY <1>1, <1>8, <2>3, <3>3, <4>1, <4>2 DEF QueuesAscend
      <4>3. CASE k = Len(q) + 1 BY <1>8, <2>1, <2>3, <4>1, <4>3
      <4> QED BY <4>1, <4>2, <4>3
    <3> QED BY <3>2, <3>3
  <2> QED BY <2>2, <2>3
<1> QED BY <1>12, <1>13, <1>14, <1>15 DEF UploadInv

\* What leaves a queue is decided on, so nothing is lost with it.
LEMMA ReleaseKeeps ==
    ASSUME UploadInv, NEW u \in Users, Release(u)
    PROVE  UploadInv'
<1>1. Types /\ NothingLost /\ EldersFirst /\ QueuesAscend BY DEF UploadInv
<1> DEFINE q == waiting[u]
<1>2. q \in Seq(Nat) /\ q # <<>> /\ waiting \in [Users -> Seq(Nat)] /\ owner \in Seq(Users)
  BY <1>1 DEF Types, Release
<1>3. owner' = owner /\ Decided' = Decided BY DEF Release, Decided
<1>4. waiting' = [waiting EXCEPT ![u] = Tail(q)] /\ Head(q) \in Decided BY DEF Release, Decided
<1>5. Tail(q) \in Seq(Nat) BY <1>2
<1>6. /\ waiting'[u] = Tail(q) /\ waiting' \in [Users -> Seq(Nat)]
      /\ \A v \in Users : v # u => waiting'[v] = waiting[v]
  BY <1>2, <1>4, <1>5
<1>7. /\ Len(q) \in Nat \ {0} /\ Head(q) = q[1] /\ Len(waiting'[u]) = Len(q) - 1
      /\ \A i \in 1 .. Len(q) - 1 : waiting'[u][i] = q[i + 1]
  BY <1>2, <1>6
<1>8. \A i \in 1 .. Len(waiting'[u]) : i + 1 \in 1 .. Len(q) /\ waiting'[u][i] = q[i + 1] BY <1>7
<1>9. Types' BY <1>1, <1>3, <1>6 DEF Types
<1>10. NothingLost'
  <2> SUFFICES ASSUME NEW n \in 1 .. Len(owner), n \notin Decided
               PROVE  \E i \in 1 .. Len(waiting'[owner[n]]) : waiting'[owner[n]][i] = n
    BY <1>3 DEF NothingLost
  <2>1. PICK i \in 1 .. Len(waiting[owner[n]]) : waiting[owner[n]][i] = n BY <1>1 DEF NothingLost
  <2>2. owner[n] \in Users BY <1>2
  <2>3. CASE owner[n] # u BY <1>6, <2>1, <2>2, <2>3
  <2>4. CASE owner[n] = u
    <3>1. i # 1 BY <1>4, <1>7, <2>1, <2>4
    <3>2. i - 1 \in 1 .. Len(waiting'[u]) /\ (i - 1) + 1 = i BY <1>7, <2>1, <2>4, <3>1
    <3> QED BY <1>8, <2>1, <2>4, <3>2
  <2> QED BY <2>3, <2>4
<1>11. EldersFirst' BY <1>1, <1>3 DEF EldersFirst
<1>12. QueuesAscend'
  <2> SUFFICES ASSUME NEW v \in Users
               PROVE  /\ \A i \in 1 .. Len(waiting'[v]) :
                            waiting'[v][i] \in 1 .. Len(owner) /\ owner[waiting'[v][i]] = v
                      /\ \A i, k \in 1 .. Len(waiting'[v]) :
                            i < k => waiting'[v][i] < waiting'[v][k]
    BY <1>3 DEF QueuesAscend
  <2>1. CASE v # u BY <1>1, <1>6, <2>1 DEF QueuesAscend
  <2>2. CASE v = u
    <3>1. ASSUME NEW i \in 1 .. Len(waiting'[v]), NEW k \in 1 .. Len(waiting'[v]), i < k
          PROVE  waiting'[v][i] < waiting'[v][k]
      <4>1. i + 1 < k + 1 BY <1>7, <2>2, <3>1
      <4> QED BY <1>1, <1>8, <2>2, <4>1 DEF QueuesAscend
    <3>2. \A i \in 1 .. Len(waiting'[v]) :
             waiting'[v][i] \in 1 .. Len(owner) /\ owner[waiting'[v][i]] = v
      BY <1>1, <1>8, <2>2 DEF QueuesAscend
    <3> QED BY <3>1, <3>2
  <2> QED BY <2>1, <2>2
<1> QED BY <1>9, <1>10, <1>11, <1>12 DEF UploadInv

\* The server decides on no write before its elder ones.
LEMMA DecideKeeps ==
    ASSUME UploadInv, NEW n \in DOMAIN owner, Decide(n)
    PROVE  UploadInv'
<1>1. Types /\ NothingLost /\ EldersFirst /\ QueuesAscend BY DEF UploadInv
<1>2. owner' = owner /\ waiting' = waiting /\ Decided' = Decided \cup {n} BY DEF Decide, Decided
<1>3. n \in 1 .. Len(owner) BY <1>1 DEF Types
<1>4. \A m \in 1 .. (n - 1) : owner[m] = owner[n] => m \in Decided BY DEF Decide, Decided
<1>5. Types' BY <1>1, <1>2, <1>3 DEF Types
<1>6. NothingLost' BY <1>1, <1>2 DEF NothingLost
<1>7. EldersFirst' BY <1>1, <1>2, <1>4 DEF EldersFirst
<1>8. QueuesAscend' BY <1>1, <1>2 DEF QueuesAscend
<1> QED BY <1>5, <1>6, <1>7, <1>8 DEF UploadInv

\* Every step of OrderedUpload keeps its invariant.
LEMMA UploadInvStep ==
    ASSUME UploadInv, [Next]_vars
    PROVE  UploadInv'
<1>1. CASE Next BY <1>1, MakeKeeps, ReleaseKeeps, DecideKeeps DEF Next
<1>2. CASE UNCHANGED vars
  BY <1>2 DEF vars, UploadInv, Types, NothingLost, EldersFirst, QueuesAscend, Decided
<1> QED BY <1>1, <1>2

\* In an ascending queue of a user whose elder writes are decided on first, the decided
\* writes are the front.
LEMMA DecidedFront == UploadInv => DecidedComeFirst
<1> SUFFICES ASSUME UploadInv, NEW u \in Users,
                    NEW i \in 1 .. Len(waiting[u]), NEW k \in 1 .. Len(waiting[u]),
                    i < k, waiting[u][k] \in Decided
             PROVE  waiting[u][i] \in Decided
  BY DEF DecidedComeFirst
<1>1. /\ waiting[u][i] \in 1 .. Len(owner) /\ waiting[u][k] \in 1 .. Len(owner)
      /\ owner[waiting[u][i]] = u /\ owner[waiting[u][k]] = u
      /\ waiting[u][i] < waiting[u][k]
  BY DEF UploadInv, QueuesAscend
<1>2. waiting[u][i] \in 1 .. (waiting[u][k] - 1) BY <1>1
<1> QED BY <1>1, <1>2 DEF UploadInv, EldersFirst

\* Whatever implements OrderedUpload loses no write, and has each user's writes decided on
\* from the oldest on.
THEOREM NothingIsLost == Spec => [](NothingLost /\ EldersFirst /\ DecidedComeFirst)
<1>1. UploadInv => NothingLost /\ EldersFirst /\ DecidedComeFirst BY DecidedFront DEF UploadInv
<1> QED BY <1>1, UploadInit, UploadInvStep, PTL DEF Spec, vars
=============================================================================
