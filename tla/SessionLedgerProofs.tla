------------------------ MODULE SessionLedgerProofs ------------------------
(***************************************************************************)
(* Session keeps the promise of Ledger, for every set of people and every  *)
(* bound.  Each step of Session is a step of Ledger or changes nothing of  *)
(* it.  For "one write at a time" every write must be in one place only,   *)
(* which is the invariant WritesApart.                                     *)
(***************************************************************************)
EXTENDS SessionProofs, FiniteSetTheorems

----------------------------------------------------------------------------
(* Queues as sets.                                                         *)

\* Writes of a queue that has grown by a job.
LEMMA WritesInAppend ==
    ASSUME NEW q \in Seq(Jobs), NEW e \in Jobs
    PROVE  WritesIn(Append(q, e)) = WritesIn(q) \cup (IF e.op = "write" THEN {e.write} ELSE {})
<1> DEFINE r == Append(q, e)
<1>1. /\ Len(q) \in Nat /\ Len(r) = Len(q) + 1 /\ r[Len(q) + 1] = e
      /\ \A i \in 1 .. Len(q) : r[i] = q[i]
  OBVIOUS
<1> HIDE DEF r
<1>2. 1 .. Len(r) = (1 .. Len(q)) \cup {Len(q) + 1} BY <1>1
<1>3. Len(q) + 1 \notin 1 .. Len(q) BY <1>1
<1>4. ASSUME NEW w PROVE w \in WritesIn(r) <=> w \in WritesIn(q) \/ (e.op = "write" /\ w = e.write)
  BY <1>1, <1>2 DEF WritesIn
<1>5. WritesIn(r) = WritesIn(q) \cup (IF e.op = "write" THEN {e.write} ELSE {}) BY <1>4
<1> QED BY <1>5 DEF r

\* Taking the first job off a queue takes at most its write off the writes.
LEMMA WritesInTail ==
    ASSUME NEW q \in Seq(Jobs), q # <<>>
    PROVE  WritesIn(q) =
             WritesIn(Tail(q)) \cup (IF Head(q).op = "write" THEN {Head(q).write} ELSE {})
<1> DEFINE r == Tail(q)
<1>1. /\ Len(q) \in Nat \ {0} /\ Len(r) = Len(q) - 1 /\ Head(q) = q[1]
      /\ \A i \in 1 .. Len(q) - 1 : r[i] = q[i + 1]
  OBVIOUS
<1> HIDE DEF r
<1>2. ASSUME NEW w PROVE w \in WritesIn(q) <=>
                         w \in WritesIn(r) \/ (Head(q).op = "write" /\ w = Head(q).write)
  <2>1. ASSUME w \in WritesIn(q) PROVE w \in WritesIn(r) \/ (Head(q).op = "write" /\ w = Head(q).write)
    <3>1. PICK i \in 1 .. Len(q) : q[i].op = "write" /\ w = q[i].write BY <2>1 DEF WritesIn
    <3>2. CASE i = 1 BY <1>1, <3>1, <3>2
    <3>3. CASE i # 1
      <4>1. i - 1 \in 1 .. Len(r) /\ r[i - 1] = q[i] BY <1>1, <3>1, <3>3
      <4> QED BY <3>1, <4>1 DEF WritesIn
    <3> QED BY <3>2, <3>3
  <2>2. ASSUME w \in WritesIn(r) PROVE w \in WritesIn(q)
    <3>1. PICK i \in 1 .. Len(r) : r[i].op = "write" /\ w = r[i].write BY <2>2 DEF WritesIn
    <3>2. i + 1 \in 1 .. Len(q) /\ q[i + 1] = r[i] BY <1>1, <3>1
    <3> QED BY <3>1, <3>2 DEF WritesIn
  <2>3. ASSUME Head(q).op = "write" PROVE Head(q).write \in WritesIn(q)
    <3>1. 1 \in 1 .. Len(q) /\ q[1].op = "write" BY <1>1, <2>3
    <3> QED BY <1>1, <3>1 DEF WritesIn
  <2> QED BY <2>1, <2>2, <2>3
<1>3. WritesIn(q) = WritesIn(r) \cup (IF Head(q).op = "write" THEN {Head(q).write} ELSE {}) BY <1>2
<1> QED BY <1>3 DEF r

\* The elements of a sequence that has grown by one, or lost its head.
LEMMA ElementsOfAppend ==
    ASSUME NEW S, NEW q \in Seq(S), NEW e \in S
    PROVE  ElementsOf(Append(q, e)) = ElementsOf(q) \cup {e}
<1> DEFINE r == Append(q, e)
<1>1. /\ Len(q) \in Nat /\ Len(r) = Len(q) + 1 /\ r[Len(q) + 1] = e
      /\ \A i \in 1 .. Len(q) : r[i] = q[i]
  OBVIOUS
<1> HIDE DEF r
<1>2. 1 .. Len(r) = (1 .. Len(q)) \cup {Len(q) + 1} BY <1>1
<1>3. ElementsOf(r) = ElementsOf(q) \cup {e} BY <1>1, <1>2 DEF ElementsOf
<1> QED BY <1>3 DEF r

\* The elements of a sequence are its head and those of its tail.
LEMMA ElementsOfTail ==
    ASSUME NEW S, NEW q \in Seq(S), q # <<>>
    PROVE  ElementsOf(q) = ElementsOf(Tail(q)) \cup {Head(q)}
<1> DEFINE r == Tail(q)
<1>1. /\ Len(q) \in Nat \ {0} /\ Len(r) = Len(q) - 1 /\ Head(q) = q[1]
      /\ \A i \in 1 .. Len(q) - 1 : r[i] = q[i + 1]
  OBVIOUS
<1> HIDE DEF r
<1>2. ASSUME NEW w PROVE w \in ElementsOf(q) <=> w \in ElementsOf(r) \/ w = Head(q)
  <2>1. ASSUME NEW i \in 1 .. Len(q) PROVE q[i] \in ElementsOf(r) \/ q[i] = Head(q)
    <3>1. CASE i = 1 BY <1>1, <3>1
    <3>2. CASE i # 1
      <4>1. i - 1 \in 1 .. Len(r) /\ r[i - 1] = q[i] BY <1>1, <2>1, <3>2
      <4> QED BY <4>1 DEF ElementsOf
    <3> QED BY <3>1, <3>2
  <2>2. ASSUME NEW i \in 1 .. Len(r) PROVE r[i] \in ElementsOf(q)
    <3>1. i + 1 \in 1 .. Len(q) /\ q[i + 1] = r[i] BY <1>1, <2>2
    <3> QED BY <3>1 DEF ElementsOf
  <2>3. Head(q) \in ElementsOf(q)
    <3>1. 1 \in 1 .. Len(q) BY <1>1
    <3> QED BY <1>1, <3>1 DEF ElementsOf
  <2> QED BY <2>1, <2>2, <2>3 DEF ElementsOf
<1>3. ElementsOf(r) \cup {Head(q)} = ElementsOf(q) BY <1>2
<1> QED BY <1>3 DEF r

----------------------------------------------------------------------------
(* Every write is in one place, and has a number that was given out.       *)

JobsApart(q) ==
    \A i, j \in 1 .. Len(q) :
        q[i].op = "write" /\ q[j].op = "write" /\ i # j => q[i].write.id # q[j].write.id

QueueApart(q) == \A i, j \in 1 .. Len(q) : i # j => q[i].id # q[j].id

WritesApart ==
    /\ \A w \in WaitingWrites \cup KeptWrites : w.id <= written
    /\ JobsApart(jobs)
    /\ \A u \in MaybeUser : QueueApart(outbox[u])
    /\ \A u, v \in MaybeUser : u # v =>
          \A w \in ElementsOf(outbox[u]), x \in ElementsOf(outbox[v]) : w.id # x.id
    /\ \A w \in WaitingWrites, x \in KeptWrites : w.id # x.id

\* A job appended with a new number, or without a write, stays apart.
LEMMA JobsApartAppend ==
    ASSUME NEW q \in Seq(Jobs), NEW e \in Jobs, JobsApart(q),
           e.op = "write" => \A w \in WritesIn(q) : w.id # e.write.id
    PROVE  JobsApart(Append(q, e))
<1> DEFINE r == Append(q, e)
<1>1. /\ Len(q) \in Nat /\ Len(r) = Len(q) + 1 /\ r[Len(q) + 1] = e
      /\ \A i \in 1 .. Len(q) : r[i] = q[i]
  OBVIOUS
<1> HIDE DEF r
<1>2. \A i \in 1 .. Len(r) : i \in 1 .. Len(q) \/ i = Len(q) + 1 BY <1>1
<1>3. \A i \in 1 .. Len(q) : q[i].op = "write" => q[i].write \in WritesIn(q) BY DEF WritesIn
<1>4. ASSUME NEW i \in 1 .. Len(r), NEW j \in 1 .. Len(r), i # j,
             r[i].op = "write", r[j].op = "write"
      PROVE  r[i].write.id # r[j].write.id
  <2>1. CASE i \in 1 .. Len(q) /\ j \in 1 .. Len(q) BY <1>1, <1>4, <2>1 DEF JobsApart
  <2>2. CASE i \in 1 .. Len(q) /\ j = Len(q) + 1 BY <1>1, <1>3, <1>4, <2>2
  <2>3. CASE i = Len(q) + 1 /\ j \in 1 .. Len(q) BY <1>1, <1>3, <1>4, <2>3
  <2> QED BY <1>2, <1>4, <2>1, <2>2, <2>3
<1>5. JobsApart(r) BY <1>4 DEF JobsApart
<1> QED BY <1>5 DEF r

\* Without its first job a queue stays apart, and apart from that job.
LEMMA JobsApartTail ==
    ASSUME NEW q \in Seq(Jobs), q # <<>>, JobsApart(q)
    PROVE  /\ JobsApart(Tail(q))
           /\ Head(q).op = "write" => \A w \in WritesIn(Tail(q)) : w.id # Head(q).write.id
<1> DEFINE r == Tail(q)
<1>1. /\ Len(q) \in Nat \ {0} /\ Len(r) = Len(q) - 1 /\ Head(q) = q[1]
      /\ \A i \in 1 .. Len(q) - 1 : r[i] = q[i + 1]
  OBVIOUS
<1> HIDE DEF r
<1>2. \A i \in 1 .. Len(r) : i + 1 \in 1 .. Len(q) /\ r[i] = q[i + 1] /\ i + 1 # 1 BY <1>1
<1>3. JobsApart(r)
  <2>1. ASSUME NEW i \in 1 .. Len(r), NEW j \in 1 .. Len(r), i # j,
               r[i].op = "write", r[j].op = "write"
        PROVE  r[i].write.id # r[j].write.id
    <3>1. i + 1 # j + 1 BY <1>1, <2>1
    <3> QED BY <1>2, <2>1, <3>1 DEF JobsApart
  <2> QED BY <2>1 DEF JobsApart
<1>4. ASSUME Head(q).op = "write", NEW w \in WritesIn(r) PROVE w.id # Head(q).write.id
  <2>1. PICK i \in 1 .. Len(r) : r[i].op = "write" /\ w = r[i].write BY <1>4 DEF WritesIn
  <2>2. 1 \in 1 .. Len(q) BY <1>1
  <2> QED BY <1>1, <1>2, <1>4, <2>1, <2>2 DEF JobsApart
<1> QED BY <1>3, <1>4 DEF r

\* A queue on disk stays apart when a write with a new number is appended.
LEMMA QueueApartAppend ==
    ASSUME NEW q \in Seq(Writes), NEW e \in Writes, QueueApart(q),
           \A w \in ElementsOf(q) : w.id # e.id
    PROVE  QueueApart(Append(q, e))
<1> DEFINE r == Append(q, e)
<1>1. /\ Len(q) \in Nat /\ Len(r) = Len(q) + 1 /\ r[Len(q) + 1] = e
      /\ \A i \in 1 .. Len(q) : r[i] = q[i]
  OBVIOUS
<1> HIDE DEF r
<1>2. \A i \in 1 .. Len(r) : i \in 1 .. Len(q) \/ i = Len(q) + 1 BY <1>1
<1>3. \A i \in 1 .. Len(q) : q[i] \in ElementsOf(q) BY DEF ElementsOf
<1>4. ASSUME NEW i \in 1 .. Len(r), NEW j \in 1 .. Len(r), i # j PROVE r[i].id # r[j].id
  <2>1. CASE i \in 1 .. Len(q) /\ j \in 1 .. Len(q) BY <1>1, <1>4, <2>1 DEF QueueApart
  <2>2. CASE i \in 1 .. Len(q) /\ j = Len(q) + 1 BY <1>1, <1>3, <1>4, <2>2
  <2>3. CASE i = Len(q) + 1 /\ j \in 1 .. Len(q) BY <1>1, <1>3, <1>4, <2>3
  <2> QED BY <1>2, <1>4, <2>1, <2>2, <2>3
<1>5. QueueApart(r) BY <1>4 DEF QueueApart
<1> QED BY <1>5 DEF r

\* Without its head a queue stays apart, and apart from that head.
LEMMA QueueApartTail ==
    ASSUME NEW q \in Seq(Writes), q # <<>>, QueueApart(q)
    PROVE  /\ QueueApart(Tail(q))
           /\ \A w \in ElementsOf(Tail(q)) : w.id # Head(q).id
<1> DEFINE r == Tail(q)
<1>1. /\ Len(q) \in Nat \ {0} /\ Len(r) = Len(q) - 1 /\ Head(q) = q[1]
      /\ \A i \in 1 .. Len(q) - 1 : r[i] = q[i + 1]
  OBVIOUS
<1> HIDE DEF r
<1>2. \A i \in 1 .. Len(r) : i + 1 \in 1 .. Len(q) /\ r[i] = q[i + 1] /\ i + 1 # 1 BY <1>1
<1>3. QueueApart(r)
  <2>1. ASSUME NEW i \in 1 .. Len(r), NEW j \in 1 .. Len(r), i # j PROVE r[i].id # r[j].id
    <3>1. i + 1 # j + 1 BY <1>1, <2>1
    <3> QED BY <1>2, <2>1, <3>1 DEF QueueApart
  <2> QED BY <2>1 DEF QueueApart
<1>4. ASSUME NEW w \in ElementsOf(r) PROVE w.id # Head(q).id
  <2>1. PICK i \in 1 .. Len(r) : w = r[i] BY <1>4 DEF ElementsOf
  <2>2. 1 \in 1 .. Len(q) BY <1>1
  <2> QED BY <1>1, <1>2, <2>1, <2>2 DEF QueueApart
<1> QED BY <1>3, <1>4 DEF r

----------------------------------------------------------------------------
(* What a step can do to the queues and the server's documents.            *)

docs == <<profiles, filed, rejected>>

Hands(kind, data) ==
    /\ currentUser # Nobody
    /\ Enqueue(kind, data)
    /\ UNCHANGED <<fsUser, outbox, docs>>

Idle == UNCHANGED <<client, jobs, fsUser, outbox, docs, written>>
Loses ==
    /\ jobs' = <<>> /\ client' = FALSE /\ modal' = "none"
    /\ UNCHANGED <<outbox, docs, written>>
Notifies ==
    /\ client /\ UNCHANGED <<client, fsUser>>
    /\ \E u \in MaybeUser : jobs' = Append(jobs, [op |-> "user", user |-> u])
    /\ UNCHANGED <<outbox, docs, written>>
HandsOver == \E kind \in {"profile", "form"}, data \in Users : Hands(kind, data)

\* Every step is idle, hands a write over, loses the worker queue, queues a user change,
\* or is one of Firestore's own.
LEMMA StepKinds ==
    ASSUME TypeOK, [Next]_vars
    PROVE  Idle \/ Loses \/ Notifies \/ HandsOver \/ FirestoreSteps
<1>1. CASE Kill \/ Launch \/ SignedOutByForce
  BY <1>1 DEF Kill, Launch, SignedOutByForce, Halt, Idle, Loses, docs, fs, servers, counters
<1>2. CASE Taps
  <2>1. ASSUME NEW p \in Persons, Register(p) PROVE Idle \/ HandsOver
    <3>1. EmailUser(p) \in Users BY DEF EmailUser, Users
    <3> QED BY <2>1, <3>1 DEF Register, SaveUser, HandsOver, Hands, Idle, docs, servers
  <2>2. CASE Submit
    <3>1. keychain \in Users BY <2>2 DEF Submit, TypeOK, StoreTypes, MaybeUser
    <3> QED BY <2>2, <3>1 DEF Submit, HandsOver, Hands, docs, servers
  <2>3. CASE RegisterCrash \/ \E chosen \in BOOLEAN : SubmitCrash(chosen)
    BY <2>3 DEF RegisterCrash, SubmitCrash, Halt, Loses, docs, servers, counters
  <2>4. CASE RegisterInvalid \/ OpenSignIn \/ SignInBack \/ SignIn \/ SubmitUnsaved \/ ClosePopup
    BY <2>4 DEF RegisterInvalid, OpenSignIn, SignInBack, SignIn, SubmitUnsaved, ClosePopup, Idle,
                docs, fs, servers, counters
  <2>5. ASSUME NEW c \in Controllers, PressFacebook(c) PROVE Idle
    BY <2>5 DEF PressFacebook, Idle, docs, fs, servers
  <2> QED BY <1>2, <2>1, <2>2, <2>3, <2>4, <2>5 DEF Taps
<1>3. CASE FacebookEnds
  BY <1>3 DEF FacebookEnds, FacebookRefused, FacebookWithoutToken, FacebookGranted, Idle, docs, fs,
              servers, counters
<1>4. ASSUME NEW c \in Controllers, TimerFires(c) PROVE Idle
  BY <1>4 DEF TimerFires, Idle, docs, fs, servers, counters
<1>5. CASE AuthSteps
  BY <1>5 DEF AuthSteps, ServerAccepts, ServerFails, AuthApplies, AuthFails, Idle, docs, fs,
              servers, counters
<1>6. CASE GraphSteps
  <2>1. PICK g \in graph : GraphRepliesLogin(g) \/ GraphCrash(g) BY <1>6 DEF GraphSteps
  <2>2. CASE GraphRepliesLogin(g)
    <3>1. FacebookUser(g.who) \in Users BY DEF TypeOK, AuthTypes, Graphs, FacebookUser, Users
    <3> QED BY <2>2, <3>1 DEF GraphRepliesLogin, SaveUser, HandsOver, Hands, Idle, docs, servers
  <2>3. CASE GraphCrash(g) BY <2>3 DEF GraphCrash, Halt, Loses, docs, servers, counters
  <2> QED BY <2>1, <2>2, <2>3
<1>7. CASE DeliverNotice
  <2>1. Head(notices) \in MaybeUser BY <1>7 DEF DeliverNotice, TypeOK, AuthTypes
  <2> QED BY <1>7, <2>1 DEF DeliverNotice, Notifies, Idle, docs, servers, counters
<1>8. CASE UNCHANGED vars BY <1>8 DEF vars, Idle, docs, fs, servers, counters
<1> QED BY <1>1, <1>2, <1>3, <1>4, <1>5, <1>6, <1>7, <1>8 DEF Next

\* A write that is handed over is the only new one, and its number is the next.
LEMMA HandOverWrites ==
    ASSUME TypeOK, NEW kind \in {"profile", "form"}, NEW data \in Users, Hands(kind, data), NEW w,
           w = [id |-> written + 1, kind |-> kind, owner |-> currentUser, data |-> data]
    PROVE  /\ w \in Writes /\ currentUser \in Users
           /\ Started \in Seq(Jobs) /\ [op |-> "write", write |-> w] \in Jobs
           /\ jobs' = Append(Started, [op |-> "write", write |-> w])
           /\ WritesIn(Started) = WaitingWrites
           /\ JobsApart(jobs) => JobsApart(Started)
           /\ WaitingWrites' = WaitingWrites \cup {w}
<1>1. currentUser \in Users BY DEF Hands, TypeOK, AuthTypes, MaybeUser
<1>2. w \in Writes BY <1>1 DEF TypeOK, CounterTypes, Writes
<1>3. [op |-> "write", write |-> w] \in Jobs BY <1>2 DEF Jobs
<1>4. jobs' = Append(Started, [op |-> "write", write |-> w]) BY DEF Hands, Enqueue
<1> DEFINE first == [op |-> "user", user |-> Provider]
<1>5. first \in Jobs /\ first.op # "write" BY ProviderType DEF Jobs
<1>6. jobs \in Seq(Jobs) /\ Started = (IF client THEN jobs ELSE Append(jobs, first))
  BY DEF TypeOK, FirestoreTypes, Started
<1> HIDE DEF first
<1>7. /\ Started \in Seq(Jobs) /\ WritesIn(Started) = WaitingWrites
      /\ JobsApart(jobs) => JobsApart(Started)
  <2>1. CASE client BY <1>6, <2>1 DEF WaitingWrites
  <2>2. CASE ~client
    <3>1. WritesIn(Append(jobs, first)) = WritesIn(jobs) BY <1>5, <1>6, WritesInAppend
    <3>2. JobsApart(jobs) => JobsApart(Append(jobs, first)) BY <1>5, <1>6, JobsApartAppend
    <3> QED BY <1>5, <1>6, <2>2, <3>1, <3>2 DEF WaitingWrites
  <2> QED BY <2>1, <2>2
<1>8. WritesIn(jobs') = WritesIn(Started) \cup {w}
  <2> DEFINE last == [op |-> "write", write |-> w]
  <2>1. last.op = "write" /\ last.write = w /\ last \in Jobs /\ jobs' = Append(Started, last)
    BY <1>3, <1>4
  <2> HIDE DEF last
  <2> QED BY <1>7, <2>1, WritesInAppend
<1>9. WaitingWrites' = WaitingWrites \cup {w} BY <1>7, <1>8 DEF WaitingWrites
<1> QED BY <1>1, <1>2, <1>3, <1>4, <1>7, <1>9

\* Queueing a user change adds no write.
LEMMA NotifiesWrites ==
    ASSUME TypeOK, Notifies
    PROVE  WaitingWrites' = WaitingWrites /\ (JobsApart(jobs) => JobsApart(jobs'))
<1>1. PICK u \in MaybeUser : jobs' = Append(jobs, [op |-> "user", user |-> u]) BY DEF Notifies
<1> DEFINE e == [op |-> "user", user |-> u]
<1>2. e \in Jobs /\ e.op # "write" /\ jobs' = Append(jobs, e) BY <1>1 DEF Jobs, MaybeUser
<1>3. jobs \in Seq(Jobs) BY DEF TypeOK, FirestoreTypes
<1> HIDE DEF e
<1> QED BY <1>2, <1>3, WritesInAppend, JobsApartAppend DEF WaitingWrites

\* The worker's first job is a user change, or a write that goes to the open queue.
LEMMA UserJobWrites ==
    ASSUME TypeOK, RunUserJob
    PROVE  WaitingWrites' = WaitingWrites /\ (JobsApart(jobs) => JobsApart(jobs'))
<1>1. jobs \in Seq(Jobs) /\ jobs # <<>> /\ jobs' = Tail(jobs) /\ Head(jobs).op # "write"
  BY DEF RunUserJob, TypeOK, FirestoreTypes
<1> QED BY <1>1, WritesInTail, JobsApartTail DEF WaitingWrites

\* The first job of a launch opens a queue, so that no write is run before one is open.
QueueOpens == client /\ fsUser = Offline => jobs # <<>> /\ Head(jobs).op = "user"

\* Every step leaves a queue opened before the first write.
LEMMA QueueOpensStep ==
    ASSUME TypeOK, Follows, QueueOpens, [Next]_vars
    PROVE  QueueOpens'
<1>1. CASE Idle \/ Loses BY <1>1 DEF Idle, Loses, QueueOpens
<1>2. CASE Notifies
  <2>1. PICK u \in MaybeUser : jobs' = Append(jobs, [op |-> "user", user |-> u])
    BY <1>2 DEF Notifies
  <2> DEFINE e == [op |-> "user", user |-> u]
  <2>2. e \in Jobs /\ jobs' = Append(jobs, e) /\ jobs \in Seq(Jobs)
    BY <2>1 DEF Jobs, MaybeUser, TypeOK, FirestoreTypes
  <2> HIDE DEF e
  <2>3. jobs # <<>> => jobs' # <<>> /\ Head(jobs') = Head(jobs) BY <2>2, AppendKeepsHead
  <2> QED BY <1>2, <2>3 DEF Notifies, QueueOpens
<1>3. CASE HandsOver
  <2>1. PICK kind \in {"profile", "form"}, data \in Users : Hands(kind, data)
    BY <1>3 DEF HandsOver
  <2> DEFINE w == [id |-> written + 1, kind |-> kind, owner |-> currentUser, data |-> data]
             e == [op |-> "write", write |-> w]
             first == [op |-> "user", user |-> Provider]
  <2>2. Started \in Seq(Jobs) /\ e \in Jobs /\ jobs' = Append(Started, e) BY <2>1, HandOverWrites
  <2>3. first \in Jobs /\ first.op = "user" BY ProviderType DEF Jobs
  <2>4. jobs \in Seq(Jobs) /\ Started = (IF client THEN jobs ELSE Append(jobs, first))
    BY DEF TypeOK, FirestoreTypes, Started
  <2>5. fsUser' = fsUser /\ (~client => jobs = <<>>) BY <2>1 DEF Hands, Follows, ClientStarts
  <2> HIDE DEF e, first
  <2>6. fsUser = Offline => Started # <<>> /\ Head(Started).op = "user"
    <3>1. CASE client BY <2>4, <3>1 DEF QueueOpens
    <3>2. CASE ~client BY <2>3, <2>4, <2>5, <3>2
    <3> QED BY <3>1, <3>2
  <2>7. Started # <<>> => jobs' # <<>> /\ Head(jobs') = Head(Started) BY <2>2, AppendKeepsHead
  <2> QED BY <2>5, <2>6, <2>7 DEF QueueOpens
<1>4. CASE RunUserJob
  <2>1. Head(jobs) \in Jobs BY <1>4 DEF RunUserJob, TypeOK, FirestoreTypes
  <2>2. fsUser' \in MaybeUser BY <1>4, <2>1 DEF RunUserJob, Jobs
  <2> QED BY <2>2, SentinelAssumption DEF QueueOpens, MaybeUser, Users
<1>5. CASE RunWriteJob
  <2>1. client BY <1>5 DEF RunWriteJob, Follows, ClientStarts
  <2> QED BY <1>5, <2>1 DEF RunWriteJob, QueueOpens
<1>6. CASE ServerCommits \/ ServerRejects \/ TakeAnswer
  BY <1>6 DEF ServerCommits, ServerRejects, TakeAnswer, QueueOpens
<1> QED BY <1>1, <1>2, <1>3, <1>4, <1>5, <1>6, StepKinds DEF FirestoreSteps

\* The worker's first job, when it is a write: it leaves the worker queue for the open one.
LEMMA WriteJobWrites ==
    ASSUME TypeOK, Follows, QueueOpens, RunWriteJob, NEW w, w = Head(jobs).write
    PROVE  /\ w \in Writes /\ fsUser \in MaybeUser /\ w \in WaitingWrites
           /\ WaitingWrites = WaitingWrites' \cup {w}
           /\ JobsApart(jobs) => JobsApart(jobs') /\ \A x \in WaitingWrites' : x.id # w.id
           /\ outbox[fsUser] \in Seq(Writes)
           /\ outbox'[fsUser] = Append(outbox[fsUser], w)
           /\ \A u \in MaybeUser : u # fsUser => outbox'[u] = outbox[u]
           /\ ElementsOf(outbox'[fsUser]) = ElementsOf(outbox[fsUser]) \cup {w}
           /\ KeptWrites' = KeptWrites \cup {w}
<1>1. jobs \in Seq(Jobs) /\ jobs # <<>> /\ jobs' = Tail(jobs) /\ Head(jobs).op = "write"
  BY DEF RunWriteJob, TypeOK, FirestoreTypes
<1>2. Head(jobs) \in Jobs BY <1>1
<1>3. w \in Writes BY <1>1, <1>2 DEF Jobs
<1>4. WaitingWrites = WaitingWrites' \cup {w} BY <1>1, WritesInTail DEF WaitingWrites
<1>5. JobsApart(jobs) => JobsApart(jobs') /\ \A x \in WaitingWrites' : x.id # w.id
  BY <1>1, JobsApartTail DEF WaitingWrites
<1>6. fsUser \in MaybeUser
  <2>1. client BY <1>1 DEF Follows, ClientStarts
  <2>2. fsUser # Offline BY <1>1, <2>1 DEF QueueOpens
  <2> QED BY <2>2, OpenQueue
<1>7. outbox \in [MaybeUser -> Seq(Writes)] BY DEF TypeOK, FirestoreTypes
<1>8. outbox' = [outbox EXCEPT ![fsUser] = Append(outbox[fsUser], w)] BY DEF RunWriteJob
<1>9. /\ outbox'[fsUser] = Append(outbox[fsUser], w)
      /\ \A u \in MaybeUser : u # fsUser => outbox'[u] = outbox[u]
  BY <1>6, <1>7, <1>8
<1>10. ElementsOf(outbox'[fsUser]) = ElementsOf(outbox[fsUser]) \cup {w}
  BY <1>3, <1>6, <1>7, <1>9, ElementsOfAppend
<1>11. KeptWrites' = KeptWrites \cup {w} BY <1>6, <1>9, <1>10 DEF KeptWrites
<1> QED BY <1>3, <1>4, <1>5, <1>6, <1>7, <1>9, <1>10, <1>11

\* The head of the open queue leaves it.
LEMMA TakeAnswerWrites ==
    ASSUME TypeOK, AnswerIsForHead, TakeAnswer, NEW w, w = Head(outbox[fsUser])
    PROVE  /\ fsUser \in MaybeUser /\ outbox[fsUser] \in Seq(Writes) /\ outbox[fsUser] # <<>>
           /\ outbox'[fsUser] = Tail(outbox[fsUser])
           /\ \A u \in MaybeUser : u # fsUser => outbox'[u] = outbox[u]
           /\ ElementsOf(outbox[fsUser]) = ElementsOf(outbox'[fsUser]) \cup {w}
           /\ Settled(w) /\ w \in KeptWrites
           /\ KeptWrites = KeptWrites' \cup {w}
<1>1. /\ fsUser \in MaybeUser /\ outbox[fsUser] \in Seq(Writes) /\ outbox[fsUser] # <<>>
      /\ Settled(w) /\ outbox' = [outbox EXCEPT ![fsUser] = Tail(outbox[fsUser])]
  BY OpenQueue DEF TakeAnswer, AnswerIsForHead
<1>2. outbox \in [MaybeUser -> Seq(Writes)] BY DEF TypeOK, FirestoreTypes
<1>3. /\ outbox'[fsUser] = Tail(outbox[fsUser])
      /\ \A u \in MaybeUser : u # fsUser => outbox'[u] = outbox[u]
  BY <1>1, <1>2
<1>4. ElementsOf(outbox[fsUser]) = ElementsOf(outbox'[fsUser]) \cup {w}
  BY <1>1, <1>3, ElementsOfTail
<1>5. KeptWrites = KeptWrites' \cup {w} /\ w \in KeptWrites BY <1>1, <1>3, <1>4 DEF KeptWrites
<1> QED BY <1>1, <1>3, <1>4, <1>5

----------------------------------------------------------------------------
(* Every write stays in one place.                                         *)

\* What is in somebody's queue is kept.
LEMMA KeptElements ==
    ASSUME NEW u \in MaybeUser, NEW w \in ElementsOf(outbox[u]) PROVE w \in KeptWrites
BY DEF KeptWrites

\* Every step leaves each write in one place.
LEMMA ApartStep ==
    ASSUME TypeOK, AnswerIsForHead, Follows, QueueOpens, WritesApart, [Next]_vars
    PROVE  WritesApart'
<1>0. \A w \in WaitingWrites \cup KeptWrites : w.id <= written BY DEF WritesApart
<1>1. CASE Idle
  BY <1>1 DEF Idle, WritesApart, WaitingWrites, KeptWrites
<1>2. CASE Loses
  <2>1. WaitingWrites' = {} /\ JobsApart(jobs') BY <1>2 DEF Loses, WaitingWrites, WritesIn, JobsApart
  <2>2. KeptWrites' = KeptWrites BY <1>2 DEF Loses, KeptWrites
  <2> QED BY <1>2, <2>1, <2>2 DEF Loses, WritesApart
<1>3. CASE Notifies
  <2>1. WaitingWrites' = WaitingWrites /\ JobsApart(jobs') BY <1>3, NotifiesWrites DEF WritesApart
  <2>2. KeptWrites' = KeptWrites BY <1>3 DEF Notifies, KeptWrites
  <2> QED BY <1>3, <2>1, <2>2 DEF Notifies, WritesApart
<1>4. CASE HandsOver
  <2>1. PICK kind \in {"profile", "form"}, data \in Users : Hands(kind, data)
    BY <1>4 DEF HandsOver
  <2> DEFINE w == [id |-> written + 1, kind |-> kind, owner |-> currentUser, data |-> data]
             e == [op |-> "write", write |-> w]
  <2>2. /\ Started \in Seq(Jobs) /\ e \in Jobs /\ jobs' = Append(Started, e)
        /\ WritesIn(Started) = WaitingWrites /\ JobsApart(Started)
        /\ WaitingWrites' = WaitingWrites \cup {w} /\ w \in Writes
    BY <2>1, HandOverWrites DEF WritesApart
  <2>3. /\ w.id = written + 1 /\ written' = written + 1 /\ written \in Nat
        /\ e.write = w /\ outbox' = outbox
    BY <2>1 DEF Hands, Enqueue, TypeOK, CounterTypes
  <2> HIDE DEF w, e
  <2>4. \A x \in WaitingWrites \cup KeptWrites : x \in Writes
    <3>1. \A x \in WaitingWrites : x \in Writes
      BY DEF WaitingWrites, WritesIn, TypeOK, FirestoreTypes, Jobs
    <3>2. \A x \in KeptWrites : x \in Writes
      BY DEF KeptWrites, ElementsOf, TypeOK, FirestoreTypes
    <3> QED BY <3>1, <3>2
  <2>5. \A x \in WaitingWrites \cup KeptWrites : x.id \in Nat BY <2>4 DEF Writes
  <2>6. \A x \in WaitingWrites \cup KeptWrites : x.id # w.id /\ x.id <= written + 1
    <3>1. \A x \in WaitingWrites \cup KeptWrites : x.id <= written BY DEF WritesApart
    <3> QED BY <2>3, <2>5, <3>1
  <2>7. JobsApart(jobs') BY <2>2, <2>3, <2>6, JobsApartAppend
  <2>8. KeptWrites' = KeptWrites BY <2>3 DEF KeptWrites
  <2>9. \A x \in WaitingWrites' \cup KeptWrites' : x.id <= written'
    BY <2>2, <2>3, <2>6, <2>8
  <2>10. \A x \in WaitingWrites', y \in KeptWrites' : x.id # y.id
    BY <2>2, <2>6, <2>8 DEF WritesApart
  <2> QED BY <2>3, <2>7, <2>9, <2>10 DEF WritesApart
<1>5. CASE RunUserJob
  <2>1. WaitingWrites' = WaitingWrites /\ JobsApart(jobs') BY <1>5, UserJobWrites DEF WritesApart
  <2>2. outbox' = outbox /\ written' = written BY <1>5 DEF RunUserJob, counters
  <2>3. KeptWrites' = KeptWrites BY <2>2 DEF KeptWrites
  <2> QED BY <2>1, <2>2, <2>3 DEF WritesApart
<1>6. CASE RunWriteJob
  <2> DEFINE w == Head(jobs).write
  <2>1. /\ w \in Writes /\ fsUser \in MaybeUser /\ w \in WaitingWrites
        /\ WaitingWrites = WaitingWrites' \cup {w}
        /\ JobsApart(jobs') /\ \A x \in WaitingWrites' : x.id # w.id
        /\ outbox[fsUser] \in Seq(Writes)
        /\ outbox'[fsUser] = Append(outbox[fsUser], w)
        /\ \A u \in MaybeUser : u # fsUser => outbox'[u] = outbox[u]
        /\ ElementsOf(outbox'[fsUser]) = ElementsOf(outbox[fsUser]) \cup {w}
        /\ KeptWrites' = KeptWrites \cup {w}
    BY <1>6, WriteJobWrites DEF WritesApart
  <2>2. written' = written BY <1>6 DEF RunWriteJob, counters
  <2> HIDE DEF w
  <2>3. \A x \in KeptWrites : x.id # w.id BY <2>1 DEF WritesApart
  <2>4. \A u \in MaybeUser : \A x \in ElementsOf(outbox[u]) : x.id # w.id BY <2>3, KeptElements
  <2>5. \A u \in MaybeUser : QueueApart(outbox'[u])
    <3>1. QueueApart(Append(outbox[fsUser], w)) BY <2>1, <2>4, QueueApartAppend DEF WritesApart
    <3> QED BY <2>1, <3>1 DEF WritesApart
  <2>6. \A u, v \in MaybeUser : u # v =>
           \A x \in ElementsOf(outbox'[u]), y \in ElementsOf(outbox'[v]) : x.id # y.id
    <3>1. \A u \in MaybeUser : \A x \in ElementsOf(outbox'[u]) :
             x \in ElementsOf(outbox[u]) \/ (u = fsUser /\ x = w)
      BY <2>1
    <3> QED BY <2>4, <3>1 DEF WritesApart
  <2>7. \A x \in WaitingWrites' \cup KeptWrites' : x.id <= written' BY <2>1, <2>2 DEF WritesApart
  <2>8. \A x \in WaitingWrites', y \in KeptWrites' : x.id # y.id BY <2>1 DEF WritesApart
  <2> QED BY <2>1, <2>5, <2>6, <2>7, <2>8 DEF WritesApart
<1>7. CASE ServerCommits \/ ServerRejects
  <2>1. UNCHANGED <<jobs, outbox, written>> BY <1>7 DEF ServerCommits, ServerRejects, counters
  <2> QED BY <2>1 DEF WritesApart, WaitingWrites, KeptWrites
<1>8. CASE TakeAnswer
  <2> DEFINE w == Head(outbox[fsUser])
  <2>1. /\ fsUser \in MaybeUser /\ outbox[fsUser] \in Seq(Writes) /\ outbox[fsUser] # <<>>
        /\ outbox'[fsUser] = Tail(outbox[fsUser])
        /\ \A u \in MaybeUser : u # fsUser => outbox'[u] = outbox[u]
        /\ ElementsOf(outbox[fsUser]) = ElementsOf(outbox'[fsUser]) \cup {w}
        /\ KeptWrites = KeptWrites' \cup {w}
    BY <1>8, TakeAnswerWrites
  <2>2. UNCHANGED <<jobs, written>> BY <1>8 DEF TakeAnswer, counters
  <2> HIDE DEF w
  <2>3. WaitingWrites' = WaitingWrites /\ JobsApart(jobs') BY <2>2 DEF WaitingWrites, WritesApart
  <2>4. \A u \in MaybeUser : QueueApart(outbox'[u])
    <3>1. QueueApart(Tail(outbox[fsUser])) BY <2>1, QueueApartTail DEF WritesApart
    <3> QED BY <2>1, <3>1 DEF WritesApart
  <2>5. \A u \in MaybeUser : \A x \in ElementsOf(outbox'[u]) : x \in ElementsOf(outbox[u]) BY <2>1
  <2>6. \A u, v \in MaybeUser : u # v =>
           \A x \in ElementsOf(outbox'[u]), y \in ElementsOf(outbox'[v]) : x.id # y.id
    BY <2>5 DEF WritesApart
  <2> QED BY <2>1, <2>2, <2>3, <2>4, <2>6 DEF WritesApart
<1> QED BY <1>1, <1>2, <1>3, <1>4, <1>5, <1>6, <1>7, <1>8, StepKinds DEF FirestoreSteps

----------------------------------------------------------------------------
(* Every step of Session is one of Ledger, or changes nothing of it.       *)

\* Kind by kind: the step of Ledger that a step of Session is.
LEMMA LedgerStep ==
    ASSUME TypeOK, AnswerIsForHead, Follows, QueueOpens, WritesApart, [Next]_vars
    PROVE  Promise!Next \/ UNCHANGED Promise!ledger
<1> USE DEF docs
<1>1. CASE Idle BY <1>1 DEF Idle, Promise!ledger, WaitingWrites, KeptWrites
<1>2. CASE Loses
  <2>1. WaitingWrites' = {} /\ KeptWrites' = KeptWrites
    BY <1>2 DEF Loses, WaitingWrites, WritesIn, KeptWrites
  <2> QED BY <1>2, <2>1 DEF Loses, Promise!Next, Promise!Crash
<1>3. CASE Notifies
  <2>1. WaitingWrites' = WaitingWrites BY <1>3, NotifiesWrites
  <2>2. KeptWrites' = KeptWrites BY <1>3 DEF Notifies, KeptWrites
  <2> QED BY <1>3, <2>1, <2>2 DEF Notifies, Promise!ledger
<1>4. CASE HandsOver
  <2>1. PICK kind \in {"profile", "form"}, data \in Users : Hands(kind, data)
    BY <1>4 DEF HandsOver
  <2>2. /\ currentUser \in Users /\ written' = written + 1 /\ UNCHANGED docs
        /\ WaitingWrites' = WaitingWrites \cup
              {[id |-> written', kind |-> kind, owner |-> currentUser, data |-> data]}
    BY <2>1, HandOverWrites DEF Hands, Enqueue
  <2>3. KeptWrites' = KeptWrites BY <2>1 DEF Hands, KeptWrites
  <2>4. Promise!HandOver(kind, currentUser, data) BY <2>2, <2>3 DEF Promise!HandOver
  <2> QED BY <2>2, <2>4 DEF Promise!Next
<1>5. CASE RunUserJob
  <2>1. WaitingWrites' = WaitingWrites BY <1>5, UserJobWrites
  <2>2. KeptWrites' = KeptWrites BY <1>5 DEF RunUserJob, KeptWrites
  <2> QED BY <1>5, <2>1, <2>2 DEF RunUserJob, Promise!ledger, servers, counters
<1>6. CASE RunWriteJob
  <2> DEFINE w == Head(jobs).write
  <2>1. /\ w \in WaitingWrites /\ WaitingWrites = WaitingWrites' \cup {w}
        /\ \A x \in WaitingWrites' : x.id # w.id
        /\ KeptWrites' = KeptWrites \cup {w}
    BY <1>6, WriteJobWrites DEF WritesApart
  <2> HIDE DEF w
  <2>2. WaitingWrites' = WaitingWrites \ {w} BY <2>1
  <2>3. Promise!Keep(w) BY <1>6, <2>1, <2>2 DEF RunWriteJob, Promise!Keep, servers, counters
  <2> QED BY <2>1, <2>3 DEF Promise!Next
<1>7. CASE ServerCommits
  <2> DEFINE w == Head(outbox[fsUser])
  <2>1. w \in KeptWrites
    <3>1. fsUser \in MaybeUser /\ outbox[fsUser] \in Seq(Writes) /\ outbox[fsUser] # <<>>
      BY <1>7, OpenQueue DEF ServerCommits, Sending
    <3>2. 1 \in 1 .. Len(outbox[fsUser]) /\ w = outbox[fsUser][1] BY <3>1
    <3> QED BY <3>1, <3>2 DEF KeptWrites, ElementsOf
  <2>2. /\ UNCHANGED <<jobs, outbox, rejected, written>>
        /\ \/ /\ w.kind = "profile"
              /\ profiles' = [profiles EXCEPT ![w.owner] = w.data]
              /\ UNCHANGED filed
           \/ /\ w.kind = "form"
              /\ filed' = filed \cup {w}
              /\ UNCHANGED profiles
    BY <1>7 DEF ServerCommits, counters
  <2>3. WaitingWrites' = WaitingWrites /\ KeptWrites' = KeptWrites
    BY <2>2 DEF WaitingWrites, KeptWrites
  <2> HIDE DEF w
  <2>4. Promise!Store(w) BY <2>1, <2>2, <2>3 DEF Promise!Store
  <2> QED BY <2>1, <2>4 DEF Promise!Next
<1>8. CASE ServerRejects
  <2> DEFINE w == Head(outbox[fsUser])
  <2>1. w \in KeptWrites
    <3>1. fsUser \in MaybeUser /\ outbox[fsUser] \in Seq(Writes) /\ outbox[fsUser] # <<>>
      BY <1>8, OpenQueue DEF ServerRejects, Sending
    <3>2. 1 \in 1 .. Len(outbox[fsUser]) /\ w = outbox[fsUser][1] BY <3>1
    <3> QED BY <3>1, <3>2 DEF KeptWrites, ElementsOf
  <2>2. UNCHANGED <<jobs, outbox, filed, profiles, written>> /\ rejected' = rejected \cup {w.id}
    BY <1>8 DEF ServerRejects, counters
  <2>3. WaitingWrites' = WaitingWrites /\ KeptWrites' = KeptWrites
    BY <2>2 DEF WaitingWrites, KeptWrites
  <2> HIDE DEF w
  <2>4. Promise!Refuse(w) BY <2>1, <2>2, <2>3 DEF Promise!Refuse
  <2> QED BY <2>1, <2>4 DEF Promise!Next
<1>9. CASE TakeAnswer
  <2> DEFINE w == Head(outbox[fsUser])
  <2>1. /\ fsUser \in MaybeUser /\ outbox[fsUser] \in Seq(Writes) /\ outbox[fsUser] # <<>>
        /\ outbox'[fsUser] = Tail(outbox[fsUser])
        /\ \A u \in MaybeUser : u # fsUser => outbox'[u] = outbox[u]
        /\ KeptWrites = KeptWrites' \cup {w} /\ w \in KeptWrites /\ Settled(w)
    BY <1>9, TakeAnswerWrites
  <2>2. UNCHANGED <<jobs, filed, profiles, rejected, written>>
    BY <1>9 DEF TakeAnswer, servers, counters
  <2>3. WaitingWrites' = WaitingWrites BY <2>2 DEF WaitingWrites
  <2>4. \A x \in ElementsOf(outbox'[fsUser]) : x.id # w.id
    BY <2>1, QueueApartTail DEF WritesApart
  <2>5. w \in ElementsOf(outbox[fsUser])
    <3>1. 1 \in 1 .. Len(outbox[fsUser]) /\ w = outbox[fsUser][1] BY <2>1
    <3> QED BY <3>1 DEF ElementsOf
  <2> HIDE DEF w
  <2>6. \A u \in MaybeUser : u # fsUser => \A x \in ElementsOf(outbox'[u]) : x.id # w.id
    BY <2>1, <2>5 DEF WritesApart
  <2>7. w \notin KeptWrites' BY <2>4, <2>6 DEF KeptWrites
  <2>8. KeptWrites' = KeptWrites \ {w} BY <2>1, <2>7
  <2>9. Promise!GiveUp(w)
    BY <2>1, <2>2, <2>3, <2>8 DEF Promise!GiveUp, Promise!Decided, Settled
  <2> QED BY <2>1, <2>9 DEF Promise!Next
<1> QED BY <1>1, <1>2, <1>3, <1>4, <1>5, <1>6, <1>7, <1>8, <1>9, StepKinds DEF FirestoreSteps

----------------------------------------------------------------------------
(* The report that the popup announces.                                    *)

\* AnnouncedReportExists with the kind of the write: of a report that has left its queue
\* it is the report itself that the server holds.
AnnouncedHeld ==
    modal = "popup" /\ announced # 0 =>
        \/ announced \in rejected
        \/ \E w \in filed \cup WaitingWrites \cup KeptWrites :
              w.id = announced /\ w.kind = "form"

\* The popup stays as it is, goes away, comes up for nothing, or comes up by Submit.
LEMMA PopupKinds ==
    ASSUME [Next]_vars
    PROVE  \/ modal' # "popup" \/ announced' = 0 \/ Submit
           \/ modal' = modal /\ announced' = announced
<1>1. CASE Kill \/ Launch \/ SignedOutByForce
  BY <1>1 DEF Kill, Launch, SignedOutByForce, Halt, ui
<1>2. CASE Taps
  BY <1>2 DEF Taps, RegisterInvalid, RegisterCrash, OpenSignIn, SignInBack, SignIn, Register,
              PressFacebook, SubmitUnsaved, ClosePopup, SubmitCrash, Halt
<1>3. CASE FacebookEnds
  BY <1>3 DEF FacebookEnds, FacebookRefused, FacebookWithoutToken, FacebookGranted
<1>4. CASE \E c \in Controllers : TimerFires(c) BY <1>4 DEF TimerFires
<1>5. CASE AuthSteps
  BY <1>5 DEF AuthSteps, ServerAccepts, ServerFails, AuthApplies, AuthFails, ui
<1>6. CASE GraphSteps BY <1>6 DEF GraphSteps, GraphRepliesLogin, GraphCrash, Halt
<1>7. CASE DeliverNotice BY <1>7 DEF DeliverNotice, ui
<1>8. CASE FirestoreSteps
  BY <1>8 DEF FirestoreSteps, RunUserJob, RunWriteJob, ServerCommits, ServerRejects, TakeAnswer, ui
<1>9. CASE UNCHANGED vars BY <1>9 DEF vars, ui
<1> QED BY <1>1, <1>2, <1>3, <1>4, <1>5, <1>6, <1>7, <1>8, <1>9 DEF Next

\* The server's refusals are never taken back.
LEMMA RejectedGrows ==
    ASSUME TypeOK, [Next]_vars
    PROVE  rejected \subseteq rejected'
<1>1. CASE Idle \/ Loses \/ Notifies \/ HandsOver
  BY <1>1 DEF Idle, Loses, Notifies, HandsOver, Hands, docs
<1>2. CASE FirestoreSteps
  BY <1>2 DEF FirestoreSteps, RunUserJob, RunWriteJob, ServerCommits, ServerRejects, TakeAnswer,
              servers
<1> QED BY <1>1, <1>2, StepKinds

\* Every step keeps the announced report: the popup covers the form, so only Submit
\* announces another, and only an answer takes the announced one off its queue.
LEMMA AnnouncedStep ==
    ASSUME TypeOK, AnswerIsForHead, Follows, QueueOpens, AnnouncedHeld, [Next]_vars
    PROVE  AnnouncedHeld'
<1> USE DEF docs
<1>1. CASE Submit
  <2>1. keychain \in Users /\ Hands("form", keychain) /\ announced' = written + 1
    BY <1>1 DEF Submit, Hands, Enqueue, TypeOK, StoreTypes, MaybeUser, servers
  <2> DEFINE w == [id |-> written + 1, kind |-> "form", owner |-> currentUser, data |-> keychain]
  <2>2. WaitingWrites' = WaitingWrites \cup {w} BY <2>1, HandOverWrites
  <2>3. w.id = announced' /\ w.kind = "form" BY <2>1
  <2> HIDE DEF w
  <2>4. w \in filed' \cup WaitingWrites' \cup KeptWrites' BY <2>2
  <2> QED BY <2>3, <2>4 DEF AnnouncedHeld
<1>2. CASE modal' = modal /\ announced' = announced
  <2>1. CASE modal # "popup" \/ announced = 0 BY <1>2, <2>1 DEF AnnouncedHeld
  <2>2. CASE modal = "popup" /\ announced \in rejected
    <3>1. rejected \subseteq rejected' BY RejectedGrows
    <3> QED BY <1>2, <2>2, <3>1 DEF AnnouncedHeld
  <2>3. ASSUME modal = "popup", NEW w \in filed \cup WaitingWrites \cup KeptWrites,
               w.id = announced, w.kind = "form"
        PROVE  AnnouncedHeld'
    <3>1. CASE Idle
      <4>1. filed' = filed /\ WaitingWrites' = WaitingWrites /\ KeptWrites' = KeptWrites
        BY <3>1 DEF Idle, WaitingWrites, KeptWrites
      <4> QED BY <1>2, <2>3, <4>1 DEF AnnouncedHeld
    <3>2. CASE Loses BY <3>2 DEF Loses, AnnouncedHeld
    <3>3. CASE Notifies
      <4>1. filed' = filed /\ WaitingWrites' = WaitingWrites /\ KeptWrites' = KeptWrites
        BY <3>3, NotifiesWrites DEF Notifies, KeptWrites
      <4> QED BY <1>2, <2>3, <4>1 DEF AnnouncedHeld
    <3>4. CASE HandsOver
      <4>1. PICK kind \in {"profile", "form"}, data \in Users : Hands(kind, data)
        BY <3>4 DEF HandsOver
      <4>2. WaitingWrites \subseteq WaitingWrites' BY <4>1, HandOverWrites
      <4>3. filed' = filed /\ KeptWrites' = KeptWrites BY <4>1 DEF Hands, KeptWrites
      <4> QED BY <1>2, <2>3, <4>2, <4>3 DEF AnnouncedHeld
    <3>5. CASE RunUserJob
      <4>1. filed' = filed /\ WaitingWrites' = WaitingWrites /\ KeptWrites' = KeptWrites
        BY <3>5, UserJobWrites DEF RunUserJob, KeptWrites, servers
      <4> QED BY <1>2, <2>3, <4>1 DEF AnnouncedHeld
    <3>6. CASE RunWriteJob
      <4> DEFINE x == Head(jobs).write
      <4>1. WaitingWrites = WaitingWrites' \cup {x} /\ KeptWrites' = KeptWrites \cup {x}
        BY <3>6, WriteJobWrites
      <4>2. filed' = filed BY <3>6 DEF RunWriteJob, servers
      <4> HIDE DEF x
      <4>3. w \in filed' \cup WaitingWrites' \cup KeptWrites' BY <2>3, <4>1, <4>2
      <4> QED BY <1>2, <2>3, <4>3 DEF AnnouncedHeld
    <3>7. CASE ServerCommits \/ ServerRejects
      <4>1. filed \subseteq filed' /\ UNCHANGED <<jobs, outbox>>
        BY <3>7 DEF ServerCommits, ServerRejects
      <4>2. WaitingWrites' = WaitingWrites /\ KeptWrites' = KeptWrites
        BY <4>1 DEF WaitingWrites, KeptWrites
      <4> QED BY <1>2, <2>3, <4>1, <4>2 DEF AnnouncedHeld
    <3>8. CASE TakeAnswer
      <4> DEFINE x == Head(outbox[fsUser])
      <4>1. KeptWrites = KeptWrites' \cup {x} /\ Settled(x) BY <3>8, TakeAnswerWrites
      <4>2. UNCHANGED <<jobs, filed, rejected>> BY <3>8 DEF TakeAnswer, servers
      <4>3. WaitingWrites' = WaitingWrites BY <4>2 DEF WaitingWrites
      <4> HIDE DEF x
      <4>4. CASE w = x BY <1>2, <2>3, <4>1, <4>2, <4>4 DEF Settled, AnnouncedHeld
      <4>5. CASE w # x
        <5>1. w \in filed' \cup WaitingWrites' \cup KeptWrites' BY <2>3, <4>1, <4>2, <4>3, <4>5
        <5> QED BY <1>2, <2>3, <5>1 DEF AnnouncedHeld
      <4> QED BY <4>4, <4>5
    <3> QED BY <3>1, <3>2, <3>3, <3>4, <3>5, <3>6, <3>7, <3>8, StepKinds DEF FirestoreSteps
  <2> QED BY <2>1, <2>2, <2>3 DEF AnnouncedHeld
<1> QED BY <1>1, <1>2, PopupKinds DEF AnnouncedHeld

----------------------------------------------------------------------------
(* Together.                                                               *)

Inv ==
    /\ TypeOK /\ AnswerIsForHead
    /\ DeadRemembersNobody /\ Follows
    /\ QueueOpens /\ WritesApart /\ AnnouncedHeld

\* The inductive invariant of this module.
LEMMA InvHolds == Spec => []Inv
<1>1. Init => Inv
  <2>1. Init => DeadRemembersNobody /\ Follows
    BY DEF Init, DeadRemembersNobody, Follows, ClientStarts, FirestoreFollowsAuth,
           ProviderFollowsAuth, WorkerFollowsProvider, QueueLeadsTo
  <2>2. Init => QueueOpens BY DEF Init, QueueOpens
  <2>3. Init => WritesApart
    BY DEF Init, WritesApart, WaitingWrites, KeptWrites, WritesIn, ElementsOf, JobsApart, QueueApart
  <2>4. Init => AnnouncedHeld BY DEF Init, AnnouncedHeld
  <2> QED BY <2>1, <2>2, <2>3, <2>4, InitInv DEF Inv
<1>2. Inv /\ [Next]_vars => Inv'
  <2> SUFFICES ASSUME Inv, [Next]_vars PROVE Inv' OBVIOUS
  <2>1. TypeOK' /\ AnswerIsForHead' BY FirestoreStepInv, OtherStepInv DEF Inv
  <2> QED BY <2>1, DeadStep, FollowsStep, QueueOpensStep, ApartStep, AnnouncedStep DEF Inv
<1> QED BY <1>1, <1>2, PTL DEF Spec

\* Session implements Ledger: each write goes from memory to disk to the server's
\* decision, and only a crash loses those that are not on disk yet.
THEOREM SessionKeepsPromise == Spec => KeepsPromise
<1>1. Init => Promise!Init
  BY DEF Init, Promise!Init, WaitingWrites, KeptWrites, WritesIn, ElementsOf
<1>2. Inv /\ [Next]_vars => [Promise!Next]_Promise!ledger
  BY LedgerStep DEF Inv
<1> QED BY <1>1, <1>2, InvHolds, PTL DEF Spec, KeepsPromise, Promise!Spec

\* A report that the popup announces as written is queued, stored or refused, whatever
\* goes on behind the popup.
THEOREM AnnouncedReportsExist == Spec => []AnnouncedReportExists
<1>1. Inv => AnnouncedReportExists
  <2> SUFFICES ASSUME Inv, modal = "popup", announced # 0, announced \notin rejected,
                      ~ \E w \in filed : w.id = announced
               PROVE  \/ \E i \in 1 .. Len(jobs) :
                            jobs[i].op = "write" /\ jobs[i].write.id = announced
                      \/ \E u \in MaybeUser : \E i \in 1 .. Len(outbox[u]) :
                            outbox[u][i].id = announced
    BY DEF AnnouncedReportExists
  <2>1. PICK w \in WaitingWrites \cup KeptWrites : w.id = announced
    BY DEF Inv, AnnouncedHeld
  <2> QED BY <2>1 DEF WaitingWrites, WritesIn, KeptWrites, ElementsOf
<1> QED BY <1>1, InvHolds, PTL

----------------------------------------------------------------------------
(* The writes reach the disk in the order in which they were entered.  It  *)
(* is inductive together with WritesApart, which bounds every number by    *)
(* that of the last write.                                                 *)

JobsInOrder(q) ==
    \A i, k \in 1 .. Len(q) :
        q[i].op = "write" /\ q[k].op = "write" /\ i < k => q[i].write.id < q[k].write.id

QueueInOrder(q) == \A i, k \in 1 .. Len(q) : i < k => q[i].id < q[k].id

\* QueuesInOrder, in the terms of the lemmas.
LEMMA InOrder ==
    QueuesInOrder <=> /\ JobsInOrder(jobs)
                      /\ \A u \in MaybeUser : QueueInOrder(outbox[u])
                      /\ \A w \in WaitingWrites, x \in KeptWrites : x.id < w.id
BY DEF QueuesInOrder, JobsInOrder, QueueInOrder

\* A job appended without a write, or with a later one, is in order.
LEMMA JobsInOrderAppend ==
    ASSUME NEW q \in Seq(Jobs), NEW e \in Jobs, JobsInOrder(q),
           e.op = "write" => \A w \in WritesIn(q) : w.id < e.write.id
    PROVE  JobsInOrder(Append(q, e))
<1> DEFINE r == Append(q, e)
<1>1. /\ Len(q) \in Nat /\ Len(r) = Len(q) + 1 /\ r[Len(q) + 1] = e
      /\ \A i \in 1 .. Len(q) : r[i] = q[i]
  OBVIOUS
<1> HIDE DEF r
<1>2. \A i \in 1 .. Len(q) : q[i].op = "write" => q[i].write \in WritesIn(q) BY DEF WritesIn
<1>3. ASSUME NEW i \in 1 .. Len(r), NEW k \in 1 .. Len(r), i < k,
             r[i].op = "write", r[k].op = "write"
      PROVE  r[i].write.id < r[k].write.id
  <2>1. i \in 1 .. Len(q) /\ (k \in 1 .. Len(q) \/ k = Len(q) + 1) BY <1>1, <1>3
  <2>2. CASE k \in 1 .. Len(q) BY <1>1, <1>3, <2>1, <2>2 DEF JobsInOrder
  <2>3. CASE k = Len(q) + 1 BY <1>1, <1>2, <1>3, <2>1, <2>3
  <2> QED BY <2>1, <2>2, <2>3
<1>4. JobsInOrder(r) BY <1>3 DEF JobsInOrder
<1> QED BY <1>4 DEF r

\* Without its first job a queue is in order, and behind that job.
LEMMA JobsInOrderTail ==
    ASSUME NEW q \in Seq(Jobs), q # <<>>, JobsInOrder(q)
    PROVE  /\ JobsInOrder(Tail(q))
           /\ Head(q).op = "write" => \A w \in WritesIn(Tail(q)) : Head(q).write.id < w.id
<1> DEFINE r == Tail(q)
<1>1. /\ Len(q) \in Nat \ {0} /\ Len(r) = Len(q) - 1 /\ Head(q) = q[1]
      /\ \A i \in 1 .. Len(q) - 1 : r[i] = q[i + 1]
  OBVIOUS
<1> HIDE DEF r
<1>2. \A i \in 1 .. Len(r) : i + 1 \in 1 .. Len(q) /\ r[i] = q[i + 1] /\ 1 < i + 1 BY <1>1
<1>3. JobsInOrder(r)
  <2>1. ASSUME NEW i \in 1 .. Len(r), NEW k \in 1 .. Len(r), i < k,
               r[i].op = "write", r[k].op = "write"
        PROVE  r[i].write.id < r[k].write.id
    <3>1. i + 1 < k + 1 BY <1>1, <2>1
    <3> QED BY <1>2, <2>1, <3>1 DEF JobsInOrder
  <2> QED BY <2>1 DEF JobsInOrder
<1>4. ASSUME Head(q).op = "write", NEW w \in WritesIn(r) PROVE Head(q).write.id < w.id
  <2>1. PICK i \in 1 .. Len(r) : r[i].op = "write" /\ w = r[i].write BY <1>4 DEF WritesIn
  <2>2. 1 \in 1 .. Len(q) BY <1>1
  <2> QED BY <1>1, <1>2, <1>4, <2>1, <2>2 DEF JobsInOrder
<1> QED BY <1>3, <1>4 DEF r

\* A queue on disk is in order when a later write is appended.
LEMMA QueueInOrderAppend ==
    ASSUME NEW q \in Seq(Writes), NEW e \in Writes, QueueInOrder(q),
           \A w \in ElementsOf(q) : w.id < e.id
    PROVE  QueueInOrder(Append(q, e))
<1> DEFINE r == Append(q, e)
<1>1. /\ Len(q) \in Nat /\ Len(r) = Len(q) + 1 /\ r[Len(q) + 1] = e
      /\ \A i \in 1 .. Len(q) : r[i] = q[i]
  OBVIOUS
<1> HIDE DEF r
<1>2. \A i \in 1 .. Len(q) : q[i] \in ElementsOf(q) BY DEF ElementsOf
<1>3. ASSUME NEW i \in 1 .. Len(r), NEW k \in 1 .. Len(r), i < k PROVE r[i].id < r[k].id
  <2>1. i \in 1 .. Len(q) /\ (k \in 1 .. Len(q) \/ k = Len(q) + 1) BY <1>1, <1>3
  <2>2. CASE k \in 1 .. Len(q) BY <1>1, <1>3, <2>1, <2>2 DEF QueueInOrder
  <2>3. CASE k = Len(q) + 1 BY <1>1, <1>2, <1>3, <2>1, <2>3
  <2> QED BY <2>1, <2>2, <2>3
<1>4. QueueInOrder(r) BY <1>3 DEF QueueInOrder
<1> QED BY <1>4 DEF r

\* Without its head a queue on disk is in order.
LEMMA QueueInOrderTail ==
    ASSUME NEW q \in Seq(Writes), q # <<>>, QueueInOrder(q)
    PROVE  QueueInOrder(Tail(q))
<1> DEFINE r == Tail(q)
<1>1. /\ Len(q) \in Nat \ {0} /\ Len(r) = Len(q) - 1
      /\ \A i \in 1 .. Len(q) - 1 : r[i] = q[i + 1]
  OBVIOUS
<1> HIDE DEF r
<1>2. \A i \in 1 .. Len(r) : i + 1 \in 1 .. Len(q) /\ r[i] = q[i + 1] BY <1>1
<1>3. ASSUME NEW i \in 1 .. Len(r), NEW k \in 1 .. Len(r), i < k PROVE r[i].id < r[k].id
  <2>1. i + 1 < k + 1 BY <1>1, <1>3
  <2> QED BY <1>2, <1>3, <2>1 DEF QueueInOrder
<1>4. QueueInOrder(r) BY <1>3 DEF QueueInOrder
<1> QED BY <1>4 DEF r

\* Every write that waits or is kept has a number.
LEMMA WriteNumbers ==
    ASSUME TypeOK
    PROVE  \A w \in WaitingWrites \cup KeptWrites : w.id \in Nat
<1>1. \A w \in WaitingWrites : w \in Writes
  BY DEF WaitingWrites, WritesIn, TypeOK, FirestoreTypes, Jobs
<1>2. \A w \in KeptWrites : w \in Writes BY DEF KeptWrites, ElementsOf, TypeOK, FirestoreTypes
<1> QED BY <1>1, <1>2 DEF Writes

\* Every step leaves the writes in order.
LEMMA OrderStep ==
    ASSUME Inv, QueuesInOrder, [Next]_vars
    PROVE  QueuesInOrder'
<1>0. TypeOK /\ AnswerIsForHead /\ Follows /\ QueueOpens /\ WritesApart BY DEF Inv
<1>1. /\ JobsInOrder(jobs) /\ \A u \in MaybeUser : QueueInOrder(outbox[u])
      /\ \A w \in WaitingWrites, x \in KeptWrites : x.id < w.id
  BY InOrder
<1> SUFFICES /\ JobsInOrder(jobs') /\ \A u \in MaybeUser : QueueInOrder(outbox'[u])
             /\ \A w \in WaitingWrites', x \in KeptWrites' : x.id < w.id
  BY DEF QueuesInOrder, JobsInOrder, QueueInOrder
<1>2. CASE Idle \/ ServerCommits \/ ServerRejects
  <2>1. jobs' = jobs /\ outbox' = outbox BY <1>2 DEF Idle, ServerCommits, ServerRejects
  <2> QED BY <1>1, <2>1 DEF WaitingWrites, KeptWrites
<1>3. CASE Loses
  <2>1. jobs' = <<>> /\ outbox' = outbox BY <1>3 DEF Loses
  <2>2. WaitingWrites' = {} /\ JobsInOrder(jobs') BY <2>1 DEF WaitingWrites, WritesIn, JobsInOrder
  <2> QED BY <1>1, <2>1, <2>2
<1>4. CASE Notifies
  <2>1. PICK u \in MaybeUser : jobs' = Append(jobs, [op |-> "user", user |-> u])
    BY <1>4 DEF Notifies
  <2> DEFINE e == [op |-> "user", user |-> u]
  <2>2. e \in Jobs /\ e.op # "write" /\ jobs' = Append(jobs, e) BY <2>1 DEF Jobs, MaybeUser
  <2>3. jobs \in Seq(Jobs) BY <1>0 DEF TypeOK, FirestoreTypes
  <2> HIDE DEF e
  <2>4. JobsInOrder(jobs') BY <1>1, <2>2, <2>3, JobsInOrderAppend
  <2>5. WaitingWrites' = WaitingWrites BY <1>0, <1>4, NotifiesWrites
  <2>6. outbox' = outbox /\ KeptWrites' = KeptWrites BY <1>4 DEF Notifies, KeptWrites
  <2> QED BY <1>1, <2>4, <2>5, <2>6
<1>5. CASE HandsOver
  <2>1. PICK kind \in {"profile", "form"}, data \in Users : Hands(kind, data)
    BY <1>5 DEF HandsOver
  <2> DEFINE w == [id |-> written + 1, kind |-> kind, owner |-> currentUser, data |-> data]
             e == [op |-> "write", write |-> w]
             first == [op |-> "user", user |-> Provider]
  <2>2. /\ Started \in Seq(Jobs) /\ e \in Jobs /\ jobs' = Append(Started, e)
        /\ WritesIn(Started) = WaitingWrites /\ WaitingWrites' = WaitingWrites \cup {w}
    BY <1>0, <2>1, HandOverWrites
  <2>3. w.id = written + 1 /\ written \in Nat /\ e.write = w /\ outbox' = outbox
    BY <1>0, <2>1 DEF Hands, TypeOK, CounterTypes
  <2>4. first \in Jobs /\ first.op # "write" BY <1>0, ProviderType DEF Jobs
  <2>5. jobs \in Seq(Jobs) /\ Started = (IF client THEN jobs ELSE Append(jobs, first))
    BY <1>0 DEF TypeOK, FirestoreTypes, Started
  <2> HIDE DEF w, e, first
  <2>6. JobsInOrder(Started) BY <1>1, <2>4, <2>5, JobsInOrderAppend
  <2>7. \A x \in WaitingWrites \cup KeptWrites : x.id < w.id
    <3>1. \A x \in WaitingWrites \cup KeptWrites : x.id \in Nat /\ x.id <= written
      BY <1>0, WriteNumbers DEF WritesApart
    <3> QED BY <2>3, <3>1
  <2>8. JobsInOrder(jobs') BY <2>2, <2>3, <2>6, <2>7, JobsInOrderAppend
  <2>9. KeptWrites' = KeptWrites BY <2>3 DEF KeptWrites
  <2> QED BY <1>1, <2>2, <2>3, <2>7, <2>8, <2>9
<1>6. CASE RunUserJob
  <2>1. jobs \in Seq(Jobs) /\ jobs # <<>> /\ jobs' = Tail(jobs) /\ outbox' = outbox
    BY <1>0, <1>6 DEF RunUserJob, TypeOK, FirestoreTypes
  <2>2. JobsInOrder(jobs') BY <1>1, <2>1, JobsInOrderTail
  <2>3. WaitingWrites' = WaitingWrites BY <1>0, <1>6, UserJobWrites
  <2>4. KeptWrites' = KeptWrites BY <2>1 DEF KeptWrites
  <2> QED BY <1>1, <2>1, <2>2, <2>3, <2>4
<1>7. CASE RunWriteJob
  <2> DEFINE w == Head(jobs).write
  <2>1. /\ w \in Writes /\ fsUser \in MaybeUser /\ w \in WaitingWrites
        /\ WaitingWrites = WaitingWrites' \cup {w}
        /\ outbox[fsUser] \in Seq(Writes) /\ outbox'[fsUser] = Append(outbox[fsUser], w)
        /\ \A u \in MaybeUser : u # fsUser => outbox'[u] = outbox[u]
        /\ KeptWrites' = KeptWrites \cup {w}
    BY <1>0, <1>7, WriteJobWrites
  <2>2. jobs \in Seq(Jobs) /\ jobs # <<>> /\ jobs' = Tail(jobs) /\ Head(jobs).op = "write"
    BY <1>0, <1>7 DEF RunWriteJob, TypeOK, FirestoreTypes
  <2>3. JobsInOrder(jobs') /\ \A x \in WaitingWrites' : w.id < x.id
    BY <1>1, <2>2, JobsInOrderTail DEF WaitingWrites
  <2> HIDE DEF w
  <2>4. \A x \in ElementsOf(outbox[fsUser]) : x.id < w.id BY <1>1, <2>1, KeptElements
  <2>5. QueueInOrder(outbox'[fsUser]) BY <1>1, <2>1, <2>4, QueueInOrderAppend
  <2>6. \A u \in MaybeUser : QueueInOrder(outbox'[u]) BY <1>1, <2>1, <2>5
  <2> QED BY <1>1, <2>1, <2>3, <2>6
<1>8. CASE TakeAnswer
  <2> DEFINE w == Head(outbox[fsUser])
  <2>1. /\ fsUser \in MaybeUser /\ outbox[fsUser] \in Seq(Writes) /\ outbox[fsUser] # <<>>
        /\ outbox'[fsUser] = Tail(outbox[fsUser])
        /\ \A u \in MaybeUser : u # fsUser => outbox'[u] = outbox[u]
        /\ KeptWrites = KeptWrites' \cup {w}
    BY <1>0, <1>8, TakeAnswerWrites
  <2>2. jobs' = jobs /\ WaitingWrites' = WaitingWrites BY <1>8 DEF TakeAnswer, WaitingWrites
  <2> HIDE DEF w
  <2>3. QueueInOrder(outbox'[fsUser]) BY <1>1, <2>1, QueueInOrderTail
  <2>4. \A u \in MaybeUser : QueueInOrder(outbox'[u]) BY <1>1, <2>1, <2>3
  <2> QED BY <1>1, <2>1, <2>2, <2>4
<1> QED BY <1>0, <1>2, <1>3, <1>4, <1>5, <1>6, <1>7, <1>8, StepKinds DEF FirestoreSteps

\* Through every interleaving of users, launches and queue changes the writes reach the
\* queues on disk in the order in which they were entered, and none twice.
THEOREM WritesStayInOrder == Spec => []QueuesInOrder
<1>1. Init => QueuesInOrder
  BY DEF Init, QueuesInOrder, WaitingWrites, WritesIn
<1>2. Inv /\ QueuesInOrder /\ [Next]_vars => QueuesInOrder' BY OrderStep
<1> QED BY <1>1, <1>2, InvHolds, PTL DEF Spec

\* No two writes on the phone have the same number, and every number was given out: each
\* write is in one place only, the worker queue or one user's queue on disk.
THEOREM WritesAreApart == Spec => []WritesApart
BY InvHolds, PTL DEF Inv

----------------------------------------------------------------------------
(* No report is filed twice.  What is counted is every report that the     *)
(* phone or the database holds: it grows with a press of Submit only.      *)

Entered == filed \cup {w \in WaitingWrites \cup KeptWrites : w.kind = "form"}

EnteredOnce == IsFiniteSet(Entered) /\ Cardinality(Entered) <= reports

\* A write is handed over by Submit, as a report, or as a profile; no step takes a press
\* of Submit back.
LEMMA HandOverKinds ==
    ASSUME TypeOK, [Next]_vars
    PROVE  \/ written' = written /\ reports' \in {reports, reports + 1}
           \/ reports' = reports /\ \E data \in Users : Hands("profile", data)
           \/ reports' = reports + 1 /\ \E data \in Users : Hands("form", data)
<1>0. reports \in Nat BY DEF TypeOK, CounterTypes
<1>1. CASE Kill \/ Launch \/ RegisterCrash \/ \E chosen \in BOOLEAN : SubmitCrash(chosen)
  BY <1>0, <1>1 DEF Kill, Launch, RegisterCrash, SubmitCrash, counters
<1>2. CASE Taps
  <2>1. ASSUME NEW p \in Persons, Register(p)
        PROVE  \/ written' = written /\ reports' \in {reports, reports + 1}
               \/ reports' = reports /\ \E data \in Users : Hands("profile", data)
    <3>1. EmailUser(p) \in Users BY DEF EmailUser, Users
    <3>2. SaveUser(EmailUser(p)) /\ reports' = reports BY <2>1 DEF Register
    <3>3. CASE currentUser = Nobody BY <1>0, <3>2, <3>3 DEF SaveUser
    <3>4. CASE currentUser # Nobody
      <4>1. Hands("profile", EmailUser(p))
        BY <2>1, <3>2, <3>4 DEF SaveUser, Hands, Register, docs, servers
      <4> QED BY <3>1, <3>2, <4>1
    <3> QED BY <3>3, <3>4
  <2>2. CASE Submit
    <3>1. keychain \in Users BY <2>2 DEF Submit, TypeOK, StoreTypes, MaybeUser
    <3>2. Hands("form", keychain) /\ reports' = reports + 1
      BY <2>2 DEF Submit, Hands, docs, servers
    <3> QED BY <3>1, <3>2
  <2>3. CASE SubmitUnsaved BY <1>0, <2>3 DEF SubmitUnsaved
  <2>4. CASE RegisterInvalid \/ OpenSignIn \/ SignInBack \/ SignIn \/ ClosePopup
    BY <1>0, <2>4 DEF RegisterInvalid, OpenSignIn, SignInBack, SignIn, ClosePopup, counters
  <2>5. ASSUME NEW c \in Controllers, PressFacebook(c) PROVE written' = written /\ reports' \in {reports, reports + 1}
    BY <1>0, <2>5 DEF PressFacebook
  <2> QED BY <1>1, <1>2, <2>1, <2>2, <2>3, <2>4, <2>5 DEF Taps
<1>3. CASE FacebookEnds
  BY <1>0, <1>3 DEF FacebookEnds, FacebookRefused, FacebookWithoutToken, FacebookGranted, counters
<1>4. ASSUME NEW c \in Controllers, TimerFires(c) PROVE written' = written /\ reports' \in {reports, reports + 1}
  BY <1>0, <1>4 DEF TimerFires, counters
<1>5. CASE AuthSteps
  BY <1>0, <1>5 DEF AuthSteps, ServerAccepts, ServerFails, AuthApplies, AuthFails, counters
<1>6. CASE GraphSteps
  <2>1. PICK g \in graph : GraphRepliesLogin(g) \/ GraphCrash(g) BY <1>6 DEF GraphSteps
  <2>2. CASE GraphRepliesLogin(g)
    <3>1. FacebookUser(g.who) \in Users BY DEF TypeOK, AuthTypes, Graphs, FacebookUser, Users
    <3>2. SaveUser(FacebookUser(g.who)) /\ reports' = reports BY <2>2 DEF GraphRepliesLogin
    <3>3. CASE currentUser = Nobody BY <1>0, <3>2, <3>3 DEF SaveUser
    <3>4. CASE currentUser # Nobody
      <4>1. Hands("profile", FacebookUser(g.who))
        BY <2>2, <3>2, <3>4 DEF SaveUser, Hands, GraphRepliesLogin, docs, servers
      <4> QED BY <3>1, <3>2, <4>1
    <3> QED BY <3>3, <3>4
  <2>3. CASE GraphCrash(g) BY <1>0, <2>3 DEF GraphCrash, counters
  <2> QED BY <2>1, <2>2, <2>3
<1>7. CASE SignedOutByForce \/ DeliverNotice \/ FirestoreSteps
  BY <1>0, <1>7 DEF SignedOutByForce, DeliverNotice, FirestoreSteps, RunUserJob, RunWriteJob,
                    ServerCommits, ServerRejects, TakeAnswer, counters
<1>8. CASE UNCHANGED vars BY <1>0, <1>8 DEF vars, counters
<1> QED BY <1>1, <1>2, <1>3, <1>4, <1>5, <1>6, <1>7, <1>8 DEF Next

\* A step that hands nothing over brings no report in.
LEMMA NothingEntered ==
    ASSUME Inv, [Next]_vars, written' = written
    PROVE  Entered' \subseteq Entered
<1>0. TypeOK /\ AnswerIsForHead /\ Follows /\ QueueOpens /\ WritesApart BY DEF Inv
<1>1. CASE Idle \/ Loses
  <2>1. /\ WaitingWrites' \subseteq WaitingWrites
        /\ KeptWrites' = KeptWrites /\ filed' = filed
    BY <1>1 DEF Idle, Loses, WaitingWrites, WritesIn, KeptWrites, docs
  <2> QED BY <2>1 DEF Entered
<1>2. CASE Notifies
  <2>1. WaitingWrites' = WaitingWrites /\ KeptWrites' = KeptWrites /\ filed' = filed
    BY <1>0, <1>2, NotifiesWrites DEF Notifies, KeptWrites, docs
  <2> QED BY <2>1 DEF Entered
<1>3. CASE HandsOver
  <2>1. written' = written + 1 /\ written \in Nat
    BY <1>0, <1>3 DEF HandsOver, Hands, Enqueue, TypeOK, CounterTypes
  <2> QED BY <2>1
<1>4. CASE RunUserJob
  <2>1. WaitingWrites' = WaitingWrites /\ KeptWrites' = KeptWrites /\ filed' = filed
    BY <1>0, <1>4, UserJobWrites DEF RunUserJob, KeptWrites, servers
  <2> QED BY <2>1 DEF Entered
<1>5. CASE RunWriteJob
  <2>1. /\ WaitingWrites = WaitingWrites' \cup {Head(jobs).write}
        /\ KeptWrites' = KeptWrites \cup {Head(jobs).write}
    BY <1>0, <1>5, WriteJobWrites
  <2>2. filed' = filed BY <1>5 DEF RunWriteJob, servers
  <2> QED BY <2>1, <2>2 DEF Entered
<1>6. CASE ServerCommits
  <2> DEFINE w == Head(outbox[fsUser])
  <2>1. filed' = filed \/ (w.kind = "form" /\ filed' = filed \cup {w}) BY <1>6 DEF ServerCommits
  <2>2. w \in KeptWrites
    <3>1. fsUser \in MaybeUser /\ outbox[fsUser] \in Seq(Writes) /\ outbox[fsUser] # <<>>
      BY <1>0, <1>6, OpenQueue DEF ServerCommits, Sending
    <3>2. w \in ElementsOf(outbox[fsUser]) BY <3>1, ElementsOfTail
    <3> QED BY <3>1, <3>2, KeptElements
  <2>3. jobs' = jobs /\ outbox' = outbox BY <1>6 DEF ServerCommits
  <2> HIDE DEF w
  <2> QED BY <2>1, <2>2, <2>3 DEF Entered, WaitingWrites, KeptWrites
<1>7. CASE ServerRejects
  BY <1>7 DEF ServerRejects, Entered, WaitingWrites, KeptWrites
<1>8. CASE TakeAnswer
  <2>1. KeptWrites = KeptWrites' \cup {Head(outbox[fsUser])} BY <1>0, <1>8, TakeAnswerWrites
  <2>2. jobs' = jobs /\ filed' = filed BY <1>8 DEF TakeAnswer, servers
  <2> QED BY <2>1, <2>2 DEF Entered, WaitingWrites
<1> QED BY <1>0, <1>1, <1>2, <1>3, <1>4, <1>5, <1>6, <1>7, <1>8, StepKinds DEF FirestoreSteps

\* A step that hands a write over brings in that write, if it is a report.
LEMMA OneEntered ==
    ASSUME TypeOK, NEW kind \in {"profile", "form"}, NEW data \in Users, Hands(kind, data)
    PROVE  \E w : Entered' = Entered \cup (IF kind = "form" THEN {w} ELSE {})
<1> DEFINE w == [id |-> written + 1, kind |-> kind, owner |-> currentUser, data |-> data]
<1>1. WaitingWrites' = WaitingWrites \cup {w} BY HandOverWrites
<1>2. w.kind = kind /\ outbox' = outbox /\ filed' = filed BY DEF Hands, docs
<1> HIDE DEF w
<1>3. KeptWrites' = KeptWrites BY <1>2 DEF KeptWrites
<1>4. Entered' = Entered \cup (IF kind = "form" THEN {w} ELSE {}) BY <1>1, <1>2, <1>3 DEF Entered
<1> QED BY <1>4

\* Every step leaves no more reports than presses of Submit.
LEMMA EnteredStep ==
    ASSUME Inv, EnteredOnce, [Next]_vars
    PROVE  EnteredOnce'
<1>0. TypeOK /\ reports \in Nat BY DEF Inv, TypeOK, CounterTypes
<1>1. IsFiniteSet(Entered) /\ Cardinality(Entered) \in Nat /\ Cardinality(Entered) <= reports
  BY FS_CardinalityType DEF EnteredOnce
<1>2. CASE written' = written /\ reports' \in {reports, reports + 1}
  <2>1. Entered' \subseteq Entered BY <1>2, NothingEntered
  <2>2. /\ IsFiniteSet(Entered') /\ Cardinality(Entered') \in Nat
        /\ Cardinality(Entered') <= Cardinality(Entered)
    BY <1>1, <2>1, FS_Subset, FS_CardinalityType
  <2> QED BY <1>0, <1>1, <1>2, <2>2 DEF EnteredOnce
<1>3. ASSUME reports' = reports, NEW data \in Users, Hands("profile", data) PROVE EnteredOnce'
  <2>1. Entered' = Entered BY <1>0, <1>3, OneEntered
  <2> QED BY <1>1, <1>3, <2>1 DEF EnteredOnce
<1>4. ASSUME reports' = reports + 1, NEW data \in Users, Hands("form", data) PROVE EnteredOnce'
  <2>1. PICK w : Entered' = Entered \cup {w} BY <1>0, <1>4, OneEntered
  <2>2. IsFiniteSet(Entered') /\ Cardinality(Entered') <= Cardinality(Entered) + 1
    <3>1. /\ IsFiniteSet(Entered \cup {w})
          /\ Cardinality(Entered \cup {w}) =
               (IF w \in Entered THEN Cardinality(Entered) ELSE Cardinality(Entered) + 1)
      BY <1>1, FS_AddElement
    <3> QED BY <1>1, <2>1, <3>1
  <2>3. Cardinality(Entered') \in Nat BY <2>2, FS_CardinalityType
  <2> QED BY <1>0, <1>1, <1>4, <2>2, <2>3 DEF EnteredOnce
<1> QED BY <1>0, <1>2, <1>3, <1>4, HandOverKinds

\* However often a report is committed, there are never more of them in the database than
\* presses of Submit.
THEOREM ReportsAreFiledOnce == Spec => []NoReportTwice
<1>1. Init => EnteredOnce
  <2> SUFFICES ASSUME Init PROVE EnteredOnce OBVIOUS
  <2>1. Entered = {} BY DEF Init, Entered, WaitingWrites, WritesIn, KeptWrites, ElementsOf
  <2>2. reports = 0 BY DEF Init
  <2> QED BY <2>1, <2>2, FS_EmptySet DEF EnteredOnce
<1>2. Inv /\ EnteredOnce /\ [Next]_vars => EnteredOnce' BY EnteredStep
<1>3. Inv /\ EnteredOnce => NoReportTwice
  <2> SUFFICES ASSUME Inv, EnteredOnce PROVE NoReportTwice OBVIOUS
  <2>1. /\ IsFiniteSet(filed) /\ Cardinality(filed) \in Nat
        /\ Cardinality(Entered) \in Nat /\ Cardinality(filed) <= Cardinality(Entered)
    BY FS_Subset, FS_CardinalityType DEF EnteredOnce, Entered
  <2>2. reports \in Nat /\ Cardinality(Entered) <= reports
    BY DEF EnteredOnce, Inv, TypeOK, CounterTypes
  <2> QED BY <2>1, <2>2 DEF NoReportTwice
<1> QED BY <1>1, <1>2, <1>3, InvHolds, PTL DEF Spec

----------------------------------------------------------------------------
(* What the promise means for the documents: a number names one write,     *)
(* wherever it is.  It is a fact about Ledger, and so one about Session.   *)

AllWrites == WaitingWrites \cup KeptWrites \cup filed

OneWritePerNumber ==
    /\ \A w \in AllWrites : w.id \in 1 .. written
    /\ \A w, x \in AllWrites : w.id = x.id => w = x

\* Every step of Ledger keeps the numbers apart: only a hand-over brings a write in, with
\* the next number.
LEMMA LedgerNumbers ==
    ASSUME written \in Nat, OneWritePerNumber, Promise!Next
    PROVE  OneWritePerNumber'
<1>1. ASSUME NEW kind \in {"profile", "form"}, NEW owner \in Users, NEW data \in Users,
             Promise!HandOver(kind, owner, data)
      PROVE  OneWritePerNumber'
  <2> DEFINE w == [id |-> written + 1, kind |-> kind, owner |-> owner, data |-> data]
  <2>1. /\ WaitingWrites' = WaitingWrites \cup {w} /\ KeptWrites' = KeptWrites
        /\ filed' = filed /\ written' = written + 1
    BY <1>1 DEF Promise!HandOver
  <2>2. w.id = written + 1 OBVIOUS
  <2> HIDE DEF w
  <2>3. AllWrites' = AllWrites \cup {w} BY <2>1 DEF AllWrites
  <2>4. \A x \in AllWrites : x.id \in 1 .. written /\ x.id # w.id BY <2>2 DEF OneWritePerNumber
  <2>5. \A x \in AllWrites' : x.id \in 1 .. written' BY <2>1, <2>2, <2>3, <2>4
  <2>6. \A x, y \in AllWrites' : x.id = y.id => x = y BY <2>3, <2>4 DEF OneWritePerNumber
  <2> QED BY <2>5, <2>6 DEF OneWritePerNumber
<1>2. ASSUME AllWrites' \subseteq AllWrites, written' = written PROVE OneWritePerNumber'
  BY <1>2 DEF OneWritePerNumber
<1>3. ASSUME NEW w \in WaitingWrites, Promise!Keep(w) PROVE OneWritePerNumber'
  BY <1>2, <1>3 DEF Promise!Keep, AllWrites
<1>4. ASSUME NEW w \in KeptWrites, Promise!Store(w) \/ Promise!Refuse(w) \/ Promise!GiveUp(w)
      PROVE  OneWritePerNumber'
  BY <1>2, <1>4 DEF Promise!Store, Promise!Refuse, Promise!GiveUp, AllWrites
<1>5. CASE Promise!Crash BY <1>2, <1>5 DEF Promise!Crash, AllWrites
<1> QED BY <1>1, <1>3, <1>4, <1>5 DEF Promise!Next

\* A number names one write, wherever it is: a report that is committed again is the one
\* the database has, and no other write on the phone can be taken for it.
THEOREM NumbersNameOneWrite == Spec => []OneWritePerNumber
<1>1. Init => OneWritePerNumber
  BY DEF Init, OneWritePerNumber, AllWrites, WaitingWrites, WritesIn, KeptWrites, ElementsOf
<1>2. Inv /\ OneWritePerNumber /\ [Next]_vars => OneWritePerNumber'
  <2> SUFFICES ASSUME Inv, OneWritePerNumber, [Next]_vars PROVE OneWritePerNumber' OBVIOUS
  <2>1. written \in Nat BY DEF Inv, TypeOK, CounterTypes
  <2>2. Promise!Next \/ UNCHANGED Promise!ledger BY LedgerStep DEF Inv
  <2>3. UNCHANGED Promise!ledger => OneWritePerNumber'
    BY DEF Promise!ledger, OneWritePerNumber, AllWrites
  <2> QED BY <2>1, <2>2, <2>3, LedgerNumbers
<1> QED BY <1>1, <1>2, InvHolds, PTL DEF Spec
=============================================================================
