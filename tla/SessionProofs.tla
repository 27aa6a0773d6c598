--------------------------- MODULE SessionProofs ---------------------------
(***************************************************************************)
(* Theorems about Session, for every set of people and every bound.        *)
(***************************************************************************)
EXTENDS Session, TLAPS

----------------------------------------------------------------------------
(* Type correctness.                                                       *)

\* A group of variables that a step leaves alone keeps its types.
LEMMA StutterTypes ==
    ASSUME TypeOK
    PROVE  /\ UNCHANGED ui => UiTypes'
           /\ UNCHANGED auth => AuthTypes'
           /\ UNCHANGED stores => StoreTypes'
           /\ UNCHANGED fs => FirestoreTypes'
           /\ UNCHANGED servers => ServerTypes'
           /\ UNCHANGED counters => CounterTypes'
<1>1. UNCHANGED ui => UiTypes' BY DEF TypeOK, UiTypes, ui
<1>2. UNCHANGED auth => AuthTypes' BY DEF TypeOK, AuthTypes, auth
<1>3. UNCHANGED stores => StoreTypes' BY DEF TypeOK, StoreTypes, stores
<1>4. UNCHANGED fs => FirestoreTypes' BY DEF TypeOK, FirestoreTypes, fs
<1>5. UNCHANGED servers => ServerTypes' BY DEF TypeOK, ServerTypes, servers
<1>6. UNCHANGED counters => CounterTypes' BY DEF TypeOK, CounterTypes, counters
<1> QED BY <1>1, <1>2, <1>3, <1>4, <1>5, <1>6

\* The death of the process keeps the types.
LEMMA HaltTypes ==
    ASSUME TypeOK, Halt,
           UNCHANGED <<stores, outbox, servers, counters>>
    PROVE  TypeOK'
<1>1. UiTypes' BY DEF TypeOK, UiTypes, Halt, Controllers
<1>2. AuthTypes' BY DEF TypeOK, AuthTypes, Halt, MaybeUser
<1>4. FirestoreTypes'
  <2>1. jobs' \in Seq(Jobs) BY DEF Halt
  <2>2. outbox' \in [MaybeUser -> Seq(Writes)] BY DEF TypeOK, FirestoreTypes
  <2>3. provider' = Offline /\ client' = FALSE /\ fsUser' = Offline /\ acked' = FALSE BY DEF Halt
  <2> QED BY <2>1, <2>2, <2>3 DEF FirestoreTypes
<1> QED BY <1>1, <1>2, <1>4, StutterTypes DEF TypeOK

\* The credentials provider always holds a user that can be (or none was built).
LEMMA ProviderType ==
    ASSUME TypeOK
    PROVE  Provider \in MaybeUser
BY DEF TypeOK, AuthTypes, FirestoreTypes, Provider

\* A document handed to Firestore keeps the types of its queues.
LEMMA EnqueueTypes ==
    ASSUME TypeOK, NEW kind \in {"profile", "form"}, NEW data \in Users,
           currentUser # Nobody, Enqueue(kind, data)
    PROVE  provider' \in MaybeUser /\ client' = TRUE /\ jobs' \in Seq(Jobs) /\ written' \in Nat
<1>1. currentUser \in Users BY DEF TypeOK, AuthTypes, MaybeUser
<1>2. [op |-> "user", user |-> Provider] \in Jobs BY ProviderType DEF Jobs
<1>3. Started \in Seq(Jobs) BY <1>2 DEF TypeOK, FirestoreTypes, Started
<1>4. [id |-> written + 1, kind |-> kind, owner |-> currentUser, data |-> data] \in Writes
  BY <1>1 DEF TypeOK, CounterTypes, Writes
<1>5. jobs' \in Seq(Jobs) BY <1>3, <1>4 DEF Enqueue, Jobs
<1> QED BY <1>5, ProviderType DEF Enqueue, TypeOK, CounterTypes

\* saveUserIntoFirebaseDatabase keeps the types, with and without a user.
LEMMA SaveUserTypes ==
    ASSUME TypeOK, NEW u \in Users, SaveUser(u)
    PROVE  /\ provider' \in MaybeUser /\ client' \in BOOLEAN /\ jobs' \in Seq(Jobs)
           /\ written' \in Nat /\ timers' \in SUBSET Controllers
<1>1. CASE currentUser = Nobody
  <2>1. /\ provider' = Provider /\ timers' = timers \cup {"login"}
        /\ client' = client /\ jobs' = jobs /\ written' = written
    BY <1>1 DEF SaveUser
  <2> QED BY <2>1, ProviderType DEF TypeOK, UiTypes, FirestoreTypes, CounterTypes, Controllers
<1>2. CASE currentUser # Nobody
  <2>1. Enqueue("profile", u) /\ timers' = timers BY <1>2 DEF SaveUser
  <2>2. timers' \in SUBSET Controllers BY <2>1 DEF TypeOK, UiTypes
  <2> QED BY <1>2, <2>1, <2>2, EnqueueTypes
<1> QED BY <1>1, <1>2

\* The two requests of a Facebook login are a call and a /me request.
LEMMA SendCredentialTypes ==
    ASSUME TypeOK, NEW p \in Persons, dialog # "none", SendCredential(p)
    PROVE  calls' \in SUBSET Calls /\ graph' \in SUBSET Graphs /\ timers' = timers
<1>1. dialog \in Controllers BY DEF TypeOK, UiTypes
<1>2. FacebookUser(p) \in Users BY DEF FacebookUser, Users
<1>3. [id |-> presses, kind |-> "credential", user |-> FacebookUser(p),
       from |-> dialog, state |-> "sent", launch |-> launch] \in Calls
  BY <1>1, <1>2 DEF TypeOK, CounterTypes, Calls
<1>4. [id |-> presses, who |-> p, from |-> dialog] \in Graphs
  BY <1>1 DEF TypeOK, CounterTypes, Graphs
<1> QED BY <1>3, <1>4 DEF SendCredential, TypeOK, AuthTypes

\* What the user can press keeps the types.
LEMMA TapTypes ==
    ASSUME TypeOK, Taps
    PROVE  TypeOK'
<1>1. CASE RegisterInvalid
  <2>1. UiTypes' BY <1>1 DEF RegisterInvalid, TypeOK, UiTypes
  <2> QED BY <1>1, <2>1, StutterTypes DEF RegisterInvalid, TypeOK
<1>2. CASE RegisterCrash BY <1>2, HaltTypes DEF RegisterCrash
<1>3. CASE OpenSignIn
  <2>1. UiTypes' BY <1>3 DEF OpenSignIn, TypeOK, UiTypes, Controllers
  <2> QED BY <1>3, <2>1, StutterTypes DEF OpenSignIn, TypeOK
<1>4. CASE SignInBack
  <2>1. UiTypes' BY <1>4 DEF SignInBack, TypeOK, UiTypes
  <2> QED BY <1>4, <2>1, StutterTypes DEF SignInBack, TypeOK
<1>5. CASE SignIn
  <2>1. UiTypes' BY <1>5 DEF SignIn, TypeOK, UiTypes
  <2> QED BY <1>5, <2>1, StutterTypes DEF SignIn, TypeOK
<1>6. ASSUME NEW p \in Persons, Register(p) PROVE TypeOK'
  <2>1. EmailUser(p) \in Users BY DEF EmailUser, Users
  <2>2. SaveUser(EmailUser(p)) BY <1>6 DEF Register
  <2>3. UiTypes' BY <1>6, <2>1, <2>2, SaveUserTypes DEF Register, TypeOK, UiTypes
  <2>4. AuthTypes'
    <3>1. presses' \in Nat BY <1>6 DEF Register, TypeOK, CounterTypes
    <3>2. [id |-> presses', kind |-> "create", user |-> EmailUser(p), from |-> "login",
           state |-> "sent", launch |-> launch] \in Calls
      BY <2>1, <3>1 DEF TypeOK, CounterTypes, Calls, Controllers
    <3> QED BY <1>6, <3>2 DEF Register, TypeOK, AuthTypes
  <2>5. StoreTypes' BY <1>6, <2>1 DEF Register, TypeOK, StoreTypes, MaybeUser
  <2>6. FirestoreTypes' BY <1>6, <2>1, <2>2, SaveUserTypes DEF Register, TypeOK, FirestoreTypes
  <2>7. CounterTypes' BY <1>6, <2>1, <2>2, SaveUserTypes DEF Register, TypeOK, CounterTypes
  <2> QED BY <1>6, <2>3, <2>4, <2>5, <2>6, <2>7, StutterTypes DEF Register, TypeOK
<1>7. ASSUME NEW c \in Controllers, PressFacebook(c) PROVE TypeOK'
  <2>1. UiTypes' BY <1>7 DEF PressFacebook, TypeOK, UiTypes
  <2>2. CounterTypes' BY <1>7 DEF PressFacebook, TypeOK, CounterTypes
  <2> QED BY <1>7, <2>1, <2>2, StutterTypes DEF PressFacebook, TypeOK
<1>8. CASE SubmitUnsaved
  <2>1. UiTypes' BY <1>8 DEF SubmitUnsaved, TypeOK, UiTypes
  <2>2. CounterTypes' BY <1>8 DEF SubmitUnsaved, TypeOK, CounterTypes
  <2> QED BY <1>8, <2>1, <2>2, StutterTypes DEF SubmitUnsaved, TypeOK
<1>9. CASE Submit
  <2>1. currentUser # Nobody /\ Enqueue("form", keychain) /\ keychain \in Users
    BY <1>9 DEF Submit, TypeOK, StoreTypes, MaybeUser
  <2>2. /\ provider' \in MaybeUser /\ client' = TRUE /\ jobs' \in Seq(Jobs) /\ written' \in Nat
    BY <2>1, EnqueueTypes
  <2>3. UiTypes' BY <1>9, <2>2 DEF Submit, TypeOK, UiTypes
  <2>4. FirestoreTypes' BY <1>9, <2>2 DEF Submit, TypeOK, FirestoreTypes
  <2>5. CounterTypes' BY <1>9, <2>2 DEF Submit, TypeOK, CounterTypes
  <2> QED BY <1>9, <2>3, <2>4, <2>5, StutterTypes DEF Submit, TypeOK
<1>10. CASE ClosePopup
  <2>1. UiTypes' BY <1>10 DEF ClosePopup, TypeOK, UiTypes
  <2> QED BY <1>10, <2>1, StutterTypes DEF ClosePopup, TypeOK
<1>11. ASSUME NEW chosen \in BOOLEAN, SubmitCrash(chosen) PROVE TypeOK'
  BY <1>11, HaltTypes DEF SubmitCrash
<1> QED
  BY <1>1, <1>2, <1>3, <1>4, <1>5, <1>6, <1>7, <1>8, <1>9, <1>10, <1>11 DEF Taps

\* Every end of the Facebook dialog keeps the types.
LEMMA FacebookTypes ==
    ASSUME TypeOK, FacebookEnds
    PROVE  TypeOK'
<1>1. CASE FacebookRefused
  <2>1. UiTypes' BY <1>1 DEF FacebookRefused, TypeOK, UiTypes
  <2> QED BY <1>1, <2>1, StutterTypes DEF FacebookRefused, TypeOK
<1>2. CASE FacebookWithoutToken
  <2>1. calls' \in SUBSET Calls /\ graph' \in SUBSET Graphs /\ timers' = timers
    <3>1. CASE fbToken = NoOne BY <1>2, <3>1 DEF FacebookWithoutToken, TypeOK, AuthTypes
    <3>2. CASE fbToken # NoOne
      <4>1. fbToken \in Persons /\ SendCredential(fbToken) /\ dialog # "none"
        BY <1>2, <3>2 DEF FacebookWithoutToken, TypeOK, StoreTypes
      <4> QED BY <4>1, SendCredentialTypes
    <3> QED BY <3>1, <3>2
  <2>2. UiTypes' BY <1>2, <2>1 DEF FacebookWithoutToken, TypeOK, UiTypes
  <2>3. AuthTypes' BY <1>2, <2>1 DEF FacebookWithoutToken, TypeOK, AuthTypes
  <2> QED BY <1>2, <2>2, <2>3, StutterTypes DEF FacebookWithoutToken, TypeOK
<1>3. ASSUME NEW p \in Persons, FacebookGranted(p) PROVE TypeOK'
  <2>1. calls' \in SUBSET Calls /\ graph' \in SUBSET Graphs /\ timers' = timers
    BY <1>3, SendCredentialTypes DEF FacebookGranted
  <2>2. UiTypes' BY <1>3, <2>1 DEF FacebookGranted, TypeOK, UiTypes
  <2>3. AuthTypes' BY <1>3, <2>1 DEF FacebookGranted, TypeOK, AuthTypes
  <2>4. StoreTypes' BY <1>3 DEF FacebookGranted, TypeOK, StoreTypes
  <2> QED BY <1>3, <2>2, <2>3, <2>4, StutterTypes DEF FacebookGranted, TypeOK
<1> QED BY <1>1, <1>2, <1>3 DEF FacebookEnds

\* The identity server and FIRAuth keep the types.
LEMMA AuthStepTypes ==
    ASSUME TypeOK, AuthSteps
    PROVE  TypeOK'
<1> SUFFICES ASSUME NEW c \in calls,
                    ServerAccepts(c) \/ ServerFails(c) \/ AuthApplies(c) \/ AuthFails(c)
             PROVE  TypeOK'
  BY DEF AuthSteps
<1>1. c \in Calls /\ c.user \in Users /\ c.from \in Controllers
  BY DEF TypeOK, AuthTypes, Calls
<1>2. \A s \in {"ok", "error"} : Answered(c, s) \in SUBSET Calls
  BY <1>1 DEF Answered, TypeOK, AuthTypes, Calls
<1>3. CASE ServerAccepts(c)
  <2>1. AuthTypes' BY <1>2, <1>3 DEF ServerAccepts, TypeOK, AuthTypes
  <2>2. ServerTypes' BY <1>1, <1>3 DEF ServerAccepts, TypeOK, ServerTypes
  <2> QED BY <1>3, <2>1, <2>2, StutterTypes DEF ServerAccepts, TypeOK
<1>4. CASE ServerFails(c)
  <2>1. AuthTypes' BY <1>2, <1>4 DEF ServerFails, TypeOK, AuthTypes
  <2>2. ServerTypes' BY <1>1, <1>4 DEF ServerFails, TypeOK, ServerTypes
  <2> QED BY <1>4, <2>1, <2>2, StutterTypes DEF ServerFails, TypeOK
<1>5. CASE AuthApplies(c)
  <2>1. AuthTypes' BY <1>1, <1>5 DEF AuthApplies, TypeOK, AuthTypes, MaybeUser
  <2>2. StoreTypes' BY <1>1, <1>5 DEF AuthApplies, TypeOK, StoreTypes, MaybeUser
  <2> QED BY <1>5, <2>1, <2>2, StutterTypes DEF AuthApplies, TypeOK
<1>6. CASE AuthFails(c)
  <2>1. UiTypes' BY <1>1, <1>6 DEF AuthFails, TypeOK, UiTypes
  <2>2. AuthTypes' BY <1>6 DEF AuthFails, TypeOK, AuthTypes
  <2> QED BY <1>6, <2>1, <2>2, StutterTypes DEF AuthFails, TypeOK
<1> QED BY <1>3, <1>4, <1>5, <1>6

\* A forced sign-out keeps the types, whether or not the keychain lets the user go.
LEMMA SignOutTypes ==
    ASSUME TypeOK, SignedOutByForce
    PROVE  TypeOK'
<1>1. Nobody \in MaybeUser BY DEF MaybeUser
<1>2. AuthTypes' BY <1>1 DEF SignedOutByForce, TypeOK, AuthTypes
<1>3. StoreTypes' BY <1>1 DEF SignedOutByForce, TypeOK, StoreTypes
<1> QED BY <1>2, <1>3, StutterTypes DEF SignedOutByForce, TypeOK

\* Every answer of /me keeps the types.
LEMMA GraphStepTypes ==
    ASSUME TypeOK, GraphSteps
    PROVE  TypeOK'
<1> SUFFICES ASSUME NEW g \in graph, GraphRepliesLogin(g) \/ GraphCrash(g)
             PROVE  TypeOK'
  BY DEF GraphSteps
<1>1. FacebookUser(g.who) \in Users BY DEF TypeOK, AuthTypes, Graphs, FacebookUser, Users
<1>2. CASE GraphRepliesLogin(g)
  <2>1. SaveUser(FacebookUser(g.who)) BY <1>2 DEF GraphRepliesLogin
  <2>2. UiTypes' BY <1>1, <1>2, <2>1, SaveUserTypes DEF GraphRepliesLogin, TypeOK, UiTypes
  <2>3. AuthTypes' BY <1>2 DEF GraphRepliesLogin, TypeOK, AuthTypes
  <2>4. StoreTypes' BY <1>1, <1>2 DEF GraphRepliesLogin, TypeOK, StoreTypes, MaybeUser
  <2>5. FirestoreTypes'
    BY <1>1, <1>2, <2>1, SaveUserTypes DEF GraphRepliesLogin, TypeOK, FirestoreTypes
  <2>6. CounterTypes'
    BY <1>1, <1>2, <2>1, SaveUserTypes DEF GraphRepliesLogin, TypeOK, CounterTypes
  <2> QED BY <1>2, <2>2, <2>3, <2>4, <2>5, <2>6, StutterTypes DEF GraphRepliesLogin, TypeOK
<1>3. CASE GraphCrash(g) BY <1>3, HaltTypes DEF GraphCrash
<1> QED BY <1>2, <1>3

\* The delivery of a user change keeps the types.
LEMMA NoticeTypes ==
    ASSUME TypeOK, DeliverNotice
    PROVE  TypeOK'
<1> DEFINE u == Head(notices)
           heard == provider # Offline /\ u # provider
<1>1. u \in MaybeUser /\ notices' \in Seq(MaybeUser) BY DEF DeliverNotice, TypeOK, AuthTypes
<1>2. AuthTypes' BY <1>1 DEF DeliverNotice, TypeOK, AuthTypes
<1>3. [op |-> "user", user |-> u] \in Jobs BY <1>1 DEF Jobs
<1>4. /\ provider' = (IF heard THEN u ELSE provider)
      /\ jobs' = (IF heard /\ client THEN Append(jobs, [op |-> "user", user |-> u]) ELSE jobs)
  BY DEF DeliverNotice
<1> HIDE DEF u, heard
<1>5. FirestoreTypes'
  BY <1>1, <1>3, <1>4 DEF DeliverNotice, TypeOK, FirestoreTypes
<1> QED BY <1>2, <1>5, StutterTypes DEF DeliverNotice, TypeOK

----------------------------------------------------------------------------
(* An answer is taken only for the write it was given to.  The invariant   *)
(* is what makes removing the head of the open queue well-typed, so it is  *)
(* proved together with the types.                                         *)

\* A step that leaves Firestore's queue, streams and the server alone leaves the answer
\* under way for the head of the queue.
LEMMA AnswerKept ==
    ASSUME AnswerIsForHead, UNCHANGED <<fsUser, outbox, acked, profiles, filed, rejected>>
    PROVE  AnswerIsForHead'
BY DEF AnswerIsForHead, Settled

\* The user of an open queue is one of those who have a queue.
LEMMA OpenQueue ==
    ASSUME TypeOK, fsUser # Offline
    PROVE  fsUser \in MaybeUser /\ outbox[fsUser] \in Seq(Writes)
BY DEF TypeOK, FirestoreTypes

\* Appending to a queue that is not empty leaves its head alone.
LEMMA AppendKeepsHead ==
    ASSUME NEW S, NEW q \in Seq(S), q # <<>>, NEW e \in S
    PROVE  Append(q, e) # <<>> /\ Head(Append(q, e)) = Head(q)
OBVIOUS

\* The worker queue and the write stream preserve the types and AnswerIsForHead.
LEMMA FirestoreStepInv ==
    ASSUME TypeOK, AnswerIsForHead, FirestoreSteps
    PROVE  TypeOK' /\ AnswerIsForHead'
<1>1. CASE RunUserJob
  <2>1. Head(jobs) \in Jobs /\ Tail(jobs) \in Seq(Jobs)
    BY <1>1 DEF RunUserJob, TypeOK, FirestoreTypes
  <2>2. Head(jobs).user \in MaybeUser BY <1>1, <2>1 DEF RunUserJob, Jobs
  <2>3. FirestoreTypes' BY <1>1, <2>1, <2>2 DEF RunUserJob, TypeOK, FirestoreTypes
  <2>4. AnswerIsForHead' BY <1>1 DEF RunUserJob, AnswerIsForHead
  <2> QED BY <1>1, <2>3, <2>4, StutterTypes DEF RunUserJob, TypeOK
<1>2. CASE RunWriteJob
  <2>1. Head(jobs) \in Jobs /\ Tail(jobs) \in Seq(Jobs)
    BY <1>2 DEF RunWriteJob, TypeOK, FirestoreTypes
  <2>2. Head(jobs).write \in Writes BY <1>2, <2>1 DEF RunWriteJob, Jobs
  <2>3. outbox' = [outbox EXCEPT ![fsUser] = Append(@, Head(jobs).write)]
    BY <1>2 DEF RunWriteJob
  <2>4. outbox' \in [MaybeUser -> Seq(Writes)]
    <3>1. outbox \in [MaybeUser -> Seq(Writes)] BY DEF TypeOK, FirestoreTypes
    <3>2. \A u \in MaybeUser : Append(outbox[u], Head(jobs).write) \in Seq(Writes)
      BY <2>2, <3>1
    <3> QED BY <2>3, <3>1, <3>2
  <2>5. FirestoreTypes' BY <1>2, <2>1, <2>4 DEF RunWriteJob, TypeOK, FirestoreTypes
  <2>6. ASSUME acked PROVE /\ outbox'[fsUser] # <<>>
                           /\ Head(outbox'[fsUser]) = Head(outbox[fsUser])
    <3>1. outbox'[fsUser] = Append(outbox[fsUser], Head(jobs).write)
      BY <2>3, <2>6, OpenQueue DEF AnswerIsForHead, TypeOK, FirestoreTypes
    <3> QED BY <2>2, <2>6, <3>1, OpenQueue, AppendKeepsHead DEF AnswerIsForHead
  <2>7. AnswerIsForHead' BY <1>2, <2>6 DEF RunWriteJob, AnswerIsForHead, Settled, servers
  <2> QED BY <1>2, <2>5, <2>7, StutterTypes DEF RunWriteJob, TypeOK
<1>3. CASE ServerCommits
  <2> DEFINE w == Head(outbox[fsUser])
  <2>1. w \in Writes /\ fsUser # Offline /\ outbox[fsUser] # <<>>
    BY <1>3, OpenQueue DEF ServerCommits, Sending
  <2>2. \/ /\ w.kind = "profile" /\ filed' = filed
           /\ profiles' = [profiles EXCEPT ![w.owner] = w.data]
        \/ w.kind = "form" /\ filed' = filed \cup {w} /\ profiles' = profiles
    BY <1>3 DEF ServerCommits
  <2>3. fsUser' = fsUser /\ outbox' = outbox /\ accounts' = accounts /\ rejected' = rejected
    BY <1>3 DEF ServerCommits
  <2> HIDE DEF w
  <2>4. w.owner \in Users /\ w.data \in MaybeUser BY <2>1 DEF Writes, MaybeUser
  <2>5. ServerTypes'
    <3>1. profiles' \in [Users -> MaybeUser]
      <4>1. CASE profiles' = profiles BY <4>1 DEF TypeOK, ServerTypes
      <4>2. CASE profiles' = [profiles EXCEPT ![w.owner] = w.data]
        BY <2>4, <4>2 DEF TypeOK, ServerTypes
      <4> QED BY <2>2, <4>1, <4>2
    <3>2. filed' \in SUBSET Writes BY <2>1, <2>2 DEF TypeOK, ServerTypes
    <3> QED BY <2>3, <3>1, <3>2 DEF TypeOK, ServerTypes
  <2>6. \/ w.kind = "form" /\ w \in filed'
        \/ w.kind = "profile" /\ profiles'[w.owner] = w.data
    <3>1. profiles \in [Users -> MaybeUser] BY DEF TypeOK, ServerTypes
    <3>2. CASE w.kind = "form"
      <4>1. filed' = filed \cup {w} BY <2>2, <3>2
      <4> QED BY <3>2, <4>1
    <3>3. CASE w.kind = "profile"
      <4>1. profiles' = [profiles EXCEPT ![w.owner] = w.data] BY <2>2, <3>3
      <4>2. profiles'[w.owner] = w.data BY <2>4, <3>1, <4>1
      <4> QED BY <3>3, <4>2
    <3> QED BY <2>2, <3>2, <3>3
  <2>7. AnswerIsForHead' BY <2>1, <2>3, <2>6 DEF AnswerIsForHead, Settled, w
  <2>8. FirestoreTypes' BY <1>3 DEF ServerCommits, TypeOK, FirestoreTypes
  <2> QED BY <1>3, <2>5, <2>7, <2>8, StutterTypes DEF ServerCommits, TypeOK
<1>4. CASE ServerRejects
  <2>1. Head(outbox[fsUser]) \in Writes /\ fsUser # Offline /\ outbox[fsUser] # <<>>
    BY <1>4, OpenQueue DEF ServerRejects, Sending
  <2>2. Head(outbox[fsUser]).id \in Nat BY <2>1 DEF Writes
  <2>3. ServerTypes' BY <1>4, <2>2 DEF ServerRejects, TypeOK, ServerTypes
  <2>4. FirestoreTypes' BY <1>4 DEF ServerRejects, TypeOK, FirestoreTypes
  <2>5. AnswerIsForHead' BY <1>4, <2>1 DEF ServerRejects, AnswerIsForHead, Settled
  <2> QED BY <1>4, <2>3, <2>4, <2>5, StutterTypes DEF ServerRejects, TypeOK
<1>5. CASE TakeAnswer
  <2>1. fsUser \in MaybeUser /\ outbox[fsUser] \in Seq(Writes) /\ outbox[fsUser] # <<>>
    BY <1>5, OpenQueue DEF TakeAnswer, AnswerIsForHead
  <2>2. Tail(outbox[fsUser]) \in Seq(Writes) BY <2>1
  <2>3. outbox' \in [MaybeUser -> Seq(Writes)]
    BY <1>5, <2>2 DEF TakeAnswer, TypeOK, FirestoreTypes
  <2>4. FirestoreTypes' BY <1>5, <2>3 DEF TakeAnswer, TypeOK, FirestoreTypes
  <2>5. AnswerIsForHead' BY <1>5 DEF TakeAnswer, AnswerIsForHead
  <2> QED BY <1>5, <2>4, <2>5, StutterTypes DEF TakeAnswer, TypeOK
<1> QED BY <1>1, <1>2, <1>3, <1>4, <1>5 DEF FirestoreSteps

\* Every other step leaves the write stream alone, or ends the process.
LEMMA OtherStepInv ==
    ASSUME TypeOK, AnswerIsForHead, [Next]_vars, ~FirestoreSteps
    PROVE  TypeOK' /\ AnswerIsForHead'
<1>1. CASE Kill
  <2>1. Halt /\ UNCHANGED <<stores, outbox, servers, counters>>
    BY <1>1 DEF Kill
  <2> QED BY <2>1, HaltTypes DEF Halt, AnswerIsForHead
<1>2. CASE Launch
  <2>1. UiTypes' BY <1>2 DEF Launch, TypeOK, UiTypes
  <2>2. CounterTypes' BY <1>2 DEF Launch, TypeOK, CounterTypes
  <2>3. AnswerIsForHead' BY <1>2, AnswerKept DEF Launch, fs, servers
  <2>4. AuthTypes' BY <1>2 DEF Launch, TypeOK, AuthTypes, StoreTypes, MaybeUser
  <2> QED BY <1>2, <2>1, <2>2, <2>3, <2>4, StutterTypes DEF Launch, TypeOK
<1>3. CASE Taps
  <2>1. AnswerIsForHead' BY <1>3, AnswerKept
        DEF Taps, RegisterInvalid, RegisterCrash, OpenSignIn, SignInBack, SignIn, Register,
            PressFacebook, SubmitUnsaved, Submit, ClosePopup, SubmitCrash, Halt, fs, servers,
            AnswerIsForHead
  <2> QED BY <1>3, <2>1, TapTypes
<1>4. CASE FacebookEnds
  <2>1. AnswerIsForHead' BY <1>4, AnswerKept
        DEF FacebookEnds, FacebookRefused, FacebookWithoutToken, FacebookGranted, fs, servers
  <2> QED BY <1>4, <2>1, FacebookTypes
<1>5. ASSUME NEW c \in Controllers, TimerFires(c) PROVE TypeOK' /\ AnswerIsForHead'
  <2>1. UiTypes' BY <1>5 DEF TimerFires, TypeOK, UiTypes
  <2>2. AnswerIsForHead' BY <1>5, AnswerKept DEF TimerFires, fs, servers
  <2> QED BY <1>5, <2>1, <2>2, StutterTypes DEF TimerFires, TypeOK
<1>6. CASE AuthSteps
  <2>1. AnswerIsForHead' BY <1>6, AnswerKept
        DEF AuthSteps, ServerAccepts, ServerFails, AuthApplies, AuthFails, fs, servers
  <2> QED BY <1>6, <2>1, AuthStepTypes
<1>7. CASE GraphSteps
  <2>1. AnswerIsForHead' BY <1>7, AnswerKept
        DEF GraphSteps, GraphRepliesLogin, GraphCrash, Halt, servers, AnswerIsForHead
  <2> QED BY <1>7, <2>1, GraphStepTypes
<1>8. CASE DeliverNotice
  <2>1. AnswerIsForHead' BY <1>8, AnswerKept DEF DeliverNotice, servers
  <2> QED BY <1>8, <2>1, NoticeTypes
<1>9. CASE SignedOutByForce
  <2>1. AnswerIsForHead' BY <1>9, AnswerKept DEF SignedOutByForce, fs, servers
  <2> QED BY <1>9, <2>1, SignOutTypes
<1>10. CASE UNCHANGED vars
  <2>1. AnswerIsForHead' BY <1>10, AnswerKept DEF vars, fs, servers
  <2> QED BY <1>10, <2>1, StutterTypes DEF vars, TypeOK
<1> QED BY <1>1, <1>2, <1>3, <1>4, <1>5, <1>6, <1>7, <1>8, <1>9, <1>10 DEF Next

\* The first launch satisfies the inductive invariant.
LEMMA InitInv == Init => TypeOK /\ AnswerIsForHead
<1> SUFFICES ASSUME Init PROVE TypeOK /\ AnswerIsForHead
  OBVIOUS
<1>1. UiTypes BY DEF Init, UiTypes, Controllers
<1>2. AuthTypes BY DEF Init, AuthTypes, MaybeUser
<1>3. StoreTypes BY DEF Init, StoreTypes, MaybeUser
<1>4. FirestoreTypes
  <2>1. jobs \in Seq(Jobs) BY DEF Init
  <2>2. outbox \in [MaybeUser -> Seq(Writes)] BY DEF Init
  <2> QED BY <2>1, <2>2 DEF Init, FirestoreTypes
<1>5. ServerTypes BY DEF Init, ServerTypes, MaybeUser
<1>6. CounterTypes BY DEF Init, CounterTypes
<1> QED BY <1>1, <1>2, <1>3, <1>4, <1>5, <1>6 DEF TypeOK, AnswerIsForHead, Init

\* Every variable keeps its type, and an answer of the server is only ever taken for
\* the write it was given to.
THEOREM TypesAndAnswers == Spec => [](TypeOK /\ AnswerIsForHead)
<1>1. TypeOK /\ AnswerIsForHead /\ [Next]_vars => TypeOK' /\ AnswerIsForHead'
  BY FirestoreStepInv, OtherStepInv
<1> QED BY <1>1, InitInv, PTL DEF Spec

\* Every variable of the three queues, the screens and the servers keeps its type.
THEOREM TypesHold == Spec => []TypeOK
BY TypesAndAnswers, PTL

----------------------------------------------------------------------------
(* A queued write is never forgotten.                                      *)

\* The queues on disk change in two steps only.
LEMMA QueueChange ==
    ASSUME [Next]_vars
    PROVE  outbox' = outbox \/ RunWriteJob \/ TakeAnswer
<1>1. CASE AuthSteps
  BY <1>1 DEF AuthSteps, ServerAccepts, ServerFails, AuthApplies, AuthFails, fs
<1>2. CASE Taps
  BY <1>2 DEF Taps, RegisterInvalid, RegisterCrash, OpenSignIn, SignInBack, SignIn, Register,
              PressFacebook, SubmitUnsaved, Submit, ClosePopup, SubmitCrash, fs
<1>3. CASE FacebookEnds
  BY <1>3 DEF FacebookEnds, FacebookRefused, FacebookWithoutToken, FacebookGranted, fs
<1>4. CASE GraphSteps BY <1>4 DEF GraphSteps, GraphRepliesLogin, GraphCrash
<1>5. CASE FirestoreSteps
  BY <1>5 DEF FirestoreSteps, RunUserJob, ServerCommits, ServerRejects
<1>6. CASE Kill \/ Launch \/ SignedOutByForce \/ DeliverNotice
  BY <1>6 DEF Kill, Launch, SignedOutByForce, DeliverNotice, fs
<1>7. CASE \E c \in Controllers : TimerFires(c) BY <1>7 DEF TimerFires, fs
<1>8. CASE UNCHANGED vars BY <1>8 DEF vars, fs
<1> QED BY <1>1, <1>2, <1>3, <1>4, <1>5, <1>6, <1>7, <1>8 DEF Next

\* Whatever a step does, a write in a queue on disk stays there or has been settled.
LEMMA WriteStaysOrIsSettled ==
    ASSUME TypeOK, AnswerIsForHead, [Next]_vars,
           NEW u \in MaybeUser, NEW i \in 1 .. Len(outbox[u]), NEW w, w = outbox[u][i]
    PROVE  \/ \E j \in 1 .. Len(outbox'[u]) : outbox'[u][j] = w
           \/ w.id \in rejected'
           \/ w.kind = "form" /\ w \in filed'
           \/ w.kind = "profile" /\ profiles'[w.owner] = w.data
<1>1. outbox \in [MaybeUser -> Seq(Writes)] /\ outbox[u] \in Seq(Writes)
  BY DEF TypeOK, FirestoreTypes
<1>2. CASE outbox' = outbox BY <1>2
<1>3. CASE RunWriteJob
  <2>1. outbox' = [outbox EXCEPT ![fsUser] = Append(@, Head(jobs).write)]
    BY <1>3 DEF RunWriteJob
  <2>2. outbox'[u] = outbox[u] \/ outbox'[u] = Append(outbox[u], Head(jobs).write)
    BY <1>1, <2>1
  <2>3. i \in 1 .. Len(outbox'[u]) /\ outbox'[u][i] = w BY <1>1, <2>2
  <2> QED BY <2>3
<1>4. CASE TakeAnswer
  <2>1. outbox' = [outbox EXCEPT ![fsUser] = Tail(@)] /\ UNCHANGED servers
    BY <1>4 DEF TakeAnswer
  <2>2. CASE u # fsUser BY <1>1, <2>1, <2>2
  <2>3. CASE u = fsUser /\ i = 1
    <3>1. w = Head(outbox[fsUser]) BY <1>1, <2>3
    <3> QED BY <1>4, <2>1, <3>1 DEF TakeAnswer, AnswerIsForHead, Settled, servers
  <2>4. CASE u = fsUser /\ i # 1
    <3>1. outbox'[u] = Tail(outbox[u]) BY <1>1, <2>1, <2>4
    <3>2. i - 1 \in 1 .. Len(outbox'[u]) /\ outbox'[u][i - 1] = w BY <1>1, <2>4, <3>1
    <3> QED BY <3>2
  <2> QED BY <2>2, <2>3, <2>4
<1> QED BY <1>2, <1>3, <1>4, QueueChange

\* A write that reached a queue on disk leaves it only when the server has stored or
\* refused it.
THEOREM QueuedWritesSurvive == Spec => NoQueuedWriteForgotten
<1> DEFINE Kept ==
      \A u \in MaybeUser : \A i \in 1 .. Len(outbox[u]) :
         LET w == outbox[u][i]
         IN  \/ \E j \in 1 .. Len(outbox'[u]) : outbox'[u][j] = w
             \/ w.id \in rejected'
             \/ w.kind = "form" /\ w \in filed'
             \/ w.kind = "profile" /\ profiles'[w.owner] = w.data
<1>1. TypeOK /\ AnswerIsForHead /\ [Next]_vars => Kept
  BY WriteStaysOrIsSettled
<1>2. TypeOK /\ AnswerIsForHead /\ [Next]_vars => [Kept]_vars
  BY <1>1
<1> QED BY <1>2, TypesAndAnswers, PTL DEF Spec, NoQueuedWriteForgotten

----------------------------------------------------------------------------
(* Firestore follows FIRAuth.  What makes it inductive: before the client  *)
(* exists it has no work and no open queue, it never exists without a      *)
(* credentials provider, and while the process is dead nobody remembers a  *)
(* user: what the next launch loads, or fails to load, contradicts nothing.*)

ClientStarts ==
    /\ ~client => jobs = <<>> /\ fsUser = Offline
    /\ client => provider # Offline

DeadRemembersNobody == ~running => notices = <<>> /\ provider = Offline /\ ~client

Follows == ClientStarts /\ FirestoreFollowsAuth

\* A write queued behind the user job that opens its queue leaves Firestore on the way.
LEMMA EnqueueFollows ==
    ASSUME TypeOK, Follows, NEW kind, NEW data, Enqueue(kind, data),
           UNCHANGED <<currentUser, notices, fsUser>>
    PROVE  Follows'
<1>1. provider' = Provider /\ Provider \in MaybeUser /\ Provider # Offline
  BY ProviderType, SentinelAssumption DEF Enqueue, MaybeUser, Users
<1>2. ClientStarts' BY <1>1 DEF Enqueue, ClientStarts
<1>3. ProviderFollowsAuth'
  BY <1>1 DEF Follows, FirestoreFollowsAuth, ProviderFollowsAuth, Provider
<1>4. jobs \in Seq(Jobs) BY DEF TypeOK, FirestoreTypes
<1>5. PICK w : jobs' = Append(Started, [op |-> "write", write |-> w]) BY DEF Enqueue
<1>6. WorkerFollowsProvider'
  <2>1. CASE client
    <3>1. Started = jobs /\ provider' = provider
      BY <1>1, <2>1 DEF Started, Provider, Follows, ClientStarts
    <3>2. /\ Len(jobs') = Len(jobs) + 1 /\ jobs'[Len(jobs) + 1].op = "write"
          /\ \A j \in 1 .. Len(jobs) : jobs'[j] = jobs[j]
      BY <1>4, <1>5, <3>1
    <3> QED
      BY <1>4, <2>1, <3>1, <3>2
         DEF Follows, FirestoreFollowsAuth, WorkerFollowsProvider, QueueLeadsTo
  <2>2. CASE ~client
    <3> DEFINE first == [op |-> "user", user |-> Provider]
               second == [op |-> "write", write |-> w]
    <3>1. jobs' = Append(Append(<<>>, first), second)
      BY <1>5, <2>2 DEF Started, Follows, ClientStarts
    <3>3. first.op = "user" /\ first.user = provider' /\ second.op = "write" BY <1>1
    <3> HIDE DEF first, second
    <3>4. Len(jobs') = 2 /\ jobs'[1] = first /\ jobs'[2] = second BY <3>1
    <3>2. /\ 1 \in 1 .. Len(jobs')
          /\ jobs'[1].op = "user" /\ jobs'[1].user = provider'
          /\ \A j \in 1 + 1 .. Len(jobs') : jobs'[j].op = "write"
      BY <3>3, <3>4
    <3> QED BY <3>2 DEF WorkerFollowsProvider, QueueLeadsTo
  <2> QED BY <2>1, <2>2
<1> QED BY <1>2, <1>3, <1>6 DEF Follows, FirestoreFollowsAuth

\* saveUserIntoFirebaseDatabase does, whether or not it queues a write.
LEMMA SaveUserFollows ==
    ASSUME TypeOK, Follows, NEW u, SaveUser(u), UNCHANGED <<currentUser, notices, fsUser>>
    PROVE  Follows'
<1>1. CASE currentUser = Nobody
  <2>1. provider' = Provider /\ client' = client /\ jobs' = jobs BY <1>1 DEF SaveUser
  <2> QED BY <2>1, ProviderType, SentinelAssumption
          DEF Follows, ClientStarts, FirestoreFollowsAuth, ProviderFollowsAuth,
              WorkerFollowsProvider, QueueLeadsTo, Provider, MaybeUser, Users
<1>2. CASE currentUser # Nobody
  BY <1>2, EnqueueFollows DEF SaveUser
<1> QED BY <1>1, <1>2

\* The death of the process closes every queue, so there is nobody to follow.
LEMMA HaltFollows == Halt => Follows'
BY DEF Halt, Follows, ClientStarts, FirestoreFollowsAuth, ProviderFollowsAuth,
       WorkerFollowsProvider, QueueLeadsTo

\* A step that leaves the three queues and their users alone keeps the order.
LEMMA StutterFollows ==
    ASSUME Follows, UNCHANGED <<currentUser, notices, provider, client, jobs, fsUser>>
    PROVE  Follows'
BY DEF Follows, ClientStarts, FirestoreFollowsAuth, ProviderFollowsAuth, WorkerFollowsProvider,
       QueueLeadsTo

\* A sequence that is not empty has a positive length, and its tail one element less.
LEMMA NonEmptyLen ==
    ASSUME NEW S, NEW q \in Seq(S), q # <<>>
    PROVE  Len(q) \in Nat /\ (Len(q) = 1 \/ Len(q) > 1)
<1>1. Len(q) \in Nat OBVIOUS
<1>2. Len(q) # 0 OBVIOUS
<1>3. \A n \in Nat : n # 0 => n = 1 \/ n > 1 OBVIOUS
<1> QED BY <1>1, <1>2, <1>3

\* A user change delivered to the provider is passed on to the worker queue.
LEMMA NoticeFollows ==
    ASSUME TypeOK, Follows, DeliverNotice
    PROVE  Follows'
<1> DEFINE u == Head(notices)
           heard == provider # Offline /\ u # provider
<1>1. /\ provider' = (IF heard THEN u ELSE provider)
      /\ jobs' = (IF heard /\ client THEN Append(jobs, [op |-> "user", user |-> u]) ELSE jobs)
      /\ currentUser' = currentUser /\ client' = client /\ fsUser' = fsUser
      /\ notices' = Tail(notices)
  BY DEF DeliverNotice
<1>2. notices \in Seq(MaybeUser) /\ notices # <<>> /\ jobs \in Seq(Jobs) /\ u = notices[1]
  BY DEF DeliverNotice, TypeOK, AuthTypes, FirestoreTypes
<1>3. u \in MaybeUser BY DEF DeliverNotice, TypeOK, AuthTypes
<1> HIDE DEF u
<1>9. u # Offline BY <1>3, SentinelAssumption DEF MaybeUser, Users
<1>4. ClientStarts' BY <1>1, <1>9 DEF Follows, ClientStarts
<1>5. ProviderFollowsAuth'
  <2>1. CASE Len(notices) = 1
    <3>1. u = currentUser /\ notices' = <<>>
      BY <1>1, <1>2, <2>1 DEF Follows, FirestoreFollowsAuth, ProviderFollowsAuth
    <3> QED BY <1>1, <3>1 DEF ProviderFollowsAuth
  <2>2. CASE Len(notices) > 1
    <3>1. /\ Len(notices) \in Nat /\ Len(notices) > 1 /\ notices' \in Seq(MaybeUser)
          /\ Len(notices') = Len(notices) - 1
          /\ \A k \in 1 .. Len(notices) - 1 : notices'[k] = notices[k + 1]
      <4>1. notices' = Tail(notices) /\ notices \in Seq(MaybeUser) /\ notices # <<>>
        BY <1>1, <1>2
      <4>2. Len(notices) \in Nat BY <4>1, NonEmptyLen
      <4> QED BY <2>2, <4>1, <4>2
    <3>2. notices' # <<>> /\ notices'[Len(notices')] = notices[Len(notices)]
      <4>1. notices'[Len(notices) - 1] = notices[Len(notices) - 1 + 1] BY <3>1
      <4> QED BY <3>1, <4>1
    <3> QED BY <1>1, <1>2, <3>2 DEF Follows, FirestoreFollowsAuth, ProviderFollowsAuth
  <2> QED BY <1>2, <2>1, <2>2, NonEmptyLen
<1>6. WorkerFollowsProvider'
  <2>1. CASE heard /\ client
    <3>1. Len(jobs') = Len(jobs) + 1 /\ jobs'[Len(jobs) + 1] = [op |-> "user", user |-> u]
      BY <1>1, <1>2, <2>1
    <3>2. /\ Len(jobs') \in 1 .. Len(jobs')
          /\ jobs'[Len(jobs')].op = "user" /\ jobs'[Len(jobs')].user = provider'
          /\ \A j \in Len(jobs') + 1 .. Len(jobs') : jobs'[j].op = "write"
      BY <1>1, <1>2, <2>1, <3>1
    <3> QED BY <3>2 DEF WorkerFollowsProvider, QueueLeadsTo
  <2>2. CASE ~(heard /\ client)
    BY <1>1, <2>2 DEF Follows, FirestoreFollowsAuth, WorkerFollowsProvider, QueueLeadsTo
  <2> QED BY <2>1, <2>2
<1> QED BY <1>4, <1>5, <1>6 DEF Follows, FirestoreFollowsAuth

\* The worker takes its first job: the chain of user jobs keeps its end.
LEMMA JobFollows ==
    ASSUME TypeOK, Follows, RunUserJob \/ RunWriteJob
    PROVE  Follows'
<1>1. /\ jobs \in Seq(Jobs) /\ jobs # <<>> /\ jobs' = Tail(jobs) /\ Head(jobs) = jobs[1]
      /\ UNCHANGED <<provider, client, currentUser, notices>>
  BY DEF RunUserJob, RunWriteJob, TypeOK, FirestoreTypes, auth
<1>2. /\ Len(jobs') = Len(jobs) - 1
      /\ \A k \in 1 .. Len(jobs') : jobs'[k] = jobs[k + 1]
  BY <1>1
<1>3. client BY <1>1 DEF Follows, ClientStarts
<1>4. ClientStarts' /\ ProviderFollowsAuth'
  BY <1>1, <1>3 DEF Follows, ClientStarts, FirestoreFollowsAuth, ProviderFollowsAuth
<1>5. WorkerFollowsProvider'
  <2>1. CASE fsUser = provider /\ \A i \in 1 .. Len(jobs) : jobs[i].op = "write"
    <3>1. jobs[1].op = "write" BY <1>1, <2>1
    <3>2. fsUser' = fsUser BY <1>1, <3>1 DEF RunUserJob, RunWriteJob
    <3>3. \A k \in 1 .. Len(jobs') : jobs'[k].op = "write" BY <1>1, <1>2, <2>1
    <3> QED BY <1>1, <2>1, <3>2, <3>3 DEF WorkerFollowsProvider, QueueLeadsTo
  <2>2. ASSUME NEW i \in 1 .. Len(jobs), jobs[i].op = "user", jobs[i].user = provider,
               \A j \in i + 1 .. Len(jobs) : jobs[j].op = "write"
        PROVE  WorkerFollowsProvider'
    <3>1. CASE i = 1
      <4>1. fsUser' = provider BY <1>1, <2>2, <3>1 DEF RunUserJob, RunWriteJob
      <4>2. \A k \in 1 .. Len(jobs') : jobs'[k].op = "write" BY <1>1, <1>2, <2>2, <3>1
      <4> QED BY <1>1, <4>1, <4>2 DEF WorkerFollowsProvider, QueueLeadsTo
    <3>2. CASE i # 1
      <4>1. /\ i - 1 \in 1 .. Len(jobs') /\ jobs'[i - 1] = jobs[i]
            /\ \A j \in (i - 1) + 1 .. Len(jobs') : jobs'[j].op = "write"
        BY <1>1, <1>2, <2>2, <3>2
      <4> QED BY <1>1, <2>2, <4>1 DEF WorkerFollowsProvider, QueueLeadsTo
    <3> QED BY <3>1, <3>2
  <2> QED
    BY <1>3, <2>1, <2>2 DEF Follows, FirestoreFollowsAuth, WorkerFollowsProvider, QueueLeadsTo
<1> QED BY <1>4, <1>5 DEF Follows, FirestoreFollowsAuth

\* A new user of FIRAuth's, or that there is none any more, is announced in the same step.
LEMMA AnnouncedFollows ==
    ASSUME TypeOK, Follows, NEW u \in MaybeUser, currentUser' = u,
           notices' = Append(notices, u), UNCHANGED fs
    PROVE  Follows'
<1>1. notices \in Seq(MaybeUser) BY DEF TypeOK, AuthTypes
<1>2. notices' # <<>> /\ notices'[Len(notices')] = currentUser' BY <1>1
<1> QED BY <1>2 DEF fs, Follows, ClientStarts, FirestoreFollowsAuth, ProviderFollowsAuth,
                    WorkerFollowsProvider, QueueLeadsTo

\* Only a launch starts a process, and a dead one takes no other step than that.
LEMMA DeadStep ==
    ASSUME DeadRemembersNobody, [Next]_vars
    PROVE  DeadRemembersNobody'
<1>1. CASE AuthSteps
  BY <1>1 DEF AuthSteps, ServerAccepts, ServerFails, AuthApplies, AuthFails, fs, ui,
              DeadRemembersNobody
<1>2. CASE Taps
  BY <1>2 DEF Taps, RegisterInvalid, RegisterCrash, OpenSignIn, SignInBack, SignIn, Register,
              PressFacebook, SubmitUnsaved, Submit, ClosePopup, SubmitCrash, AtLogin, AtSignIn,
              AtForm, Halt, DeadRemembersNobody
<1>3. CASE FacebookEnds
  BY <1>3 DEF FacebookEnds, FacebookRefused, FacebookWithoutToken, FacebookGranted,
              DeadRemembersNobody
<1>4. CASE GraphSteps
  BY <1>4 DEF GraphSteps, GraphRepliesLogin, GraphCrash, Halt, DeadRemembersNobody
<1>5. CASE FirestoreSteps
  BY <1>5 DEF FirestoreSteps, RunUserJob, RunWriteJob, ServerCommits, ServerRejects, TakeAnswer,
              Sending, ui, DeadRemembersNobody
<1>6. CASE Kill \/ Launch BY <1>6 DEF Kill, Launch, Halt, DeadRemembersNobody
<1>7. CASE SignedOutByForce \/ DeliverNotice \/ \E c \in Controllers : TimerFires(c)
  BY <1>7 DEF SignedOutByForce, DeliverNotice, TimerFires, ui, DeadRemembersNobody
<1>8. CASE UNCHANGED vars BY <1>8 DEF vars, ui, auth, fs, DeadRemembersNobody
<1> QED BY <1>1, <1>2, <1>3, <1>4, <1>5, <1>6, <1>7, <1>8 DEF Next

\* Every step keeps Firestore on the way to FIRAuth's user.
LEMMA FollowsStep ==
    ASSUME TypeOK, DeadRemembersNobody, Follows, [Next]_vars
    PROVE  Follows'
<1>1. CASE Kill BY <1>1, HaltFollows DEF Kill
<1>2. CASE Launch
  BY <1>2 DEF Launch, fs, DeadRemembersNobody, Follows, ClientStarts, FirestoreFollowsAuth,
               ProviderFollowsAuth, WorkerFollowsProvider, QueueLeadsTo
<1>3. CASE Taps
  <2>1. ASSUME NEW p \in Persons, Register(p) PROVE Follows'
    BY <2>1, SaveUserFollows DEF Register
  <2>2. CASE Submit BY <2>2, EnqueueFollows DEF Submit, auth
  <2>3. CASE RegisterCrash \/ \E chosen \in BOOLEAN : SubmitCrash(chosen)
    BY <2>3, HaltFollows DEF RegisterCrash, SubmitCrash
  <2>4. CASE RegisterInvalid \/ OpenSignIn \/ SignInBack \/ SignIn \/ SubmitUnsaved \/ ClosePopup
    BY <2>4, StutterFollows DEF RegisterInvalid, OpenSignIn, SignInBack, SignIn, SubmitUnsaved,
                                ClosePopup, auth, fs
  <2>5. ASSUME NEW c \in Controllers, PressFacebook(c) PROVE Follows'
    BY <2>5, StutterFollows DEF PressFacebook, auth, fs
  <2> QED BY <1>3, <2>1, <2>2, <2>3, <2>4, <2>5 DEF Taps
<1>4. CASE FacebookEnds
  BY <1>4, StutterFollows
     DEF FacebookEnds, FacebookRefused, FacebookWithoutToken, FacebookGranted, auth, fs
<1>5. ASSUME NEW c \in Controllers, TimerFires(c) PROVE Follows'
  BY <1>5, StutterFollows DEF TimerFires, auth, fs
<1>6. CASE AuthSteps
  <2>1. PICK c \in calls : ServerAccepts(c) \/ ServerFails(c) \/ AuthApplies(c) \/ AuthFails(c)
    BY <1>6 DEF AuthSteps
  <2>2. CASE AuthApplies(c)
    <3>1. c.user \in MaybeUser BY DEF TypeOK, AuthTypes, Calls, MaybeUser
    <3> QED BY <2>2, <3>1, AnnouncedFollows DEF AuthApplies
  <2>3. CASE ServerAccepts(c) \/ ServerFails(c) \/ AuthFails(c)
    BY <2>3, StutterFollows DEF ServerAccepts, ServerFails, AuthFails, fs
  <2> QED BY <2>1, <2>2, <2>3
<1>7. CASE GraphSteps
  <2>1. PICK g \in graph : GraphRepliesLogin(g) \/ GraphCrash(g) BY <1>7 DEF GraphSteps
  <2>2. CASE GraphRepliesLogin(g) BY <2>2, SaveUserFollows DEF GraphRepliesLogin
  <2>3. CASE GraphCrash(g) BY <2>3, HaltFollows DEF GraphCrash
  <2> QED BY <2>1, <2>2, <2>3
<1>8. CASE DeliverNotice BY <1>8, NoticeFollows
<1>9. CASE SignedOutByForce
  <2>1. Nobody \in MaybeUser BY DEF MaybeUser
  <2> QED BY <1>9, <2>1, AnnouncedFollows DEF SignedOutByForce
<1>10. CASE FirestoreSteps
  <2>1. CASE RunUserJob \/ RunWriteJob BY <2>1, JobFollows
  <2>2. CASE ServerCommits \/ ServerRejects \/ TakeAnswer
    BY <2>2, StutterFollows DEF ServerCommits, ServerRejects, TakeAnswer, auth
  <2> QED BY <1>10, <2>1, <2>2 DEF FirestoreSteps
<1>11. CASE UNCHANGED vars BY <1>11, StutterFollows DEF vars, auth, fs
<1> QED
  BY <1>1, <1>2, <1>3, <1>4, <1>5, <1>6, <1>7, <1>8, <1>9, <1>10, <1>11 DEF Next

\* Firestore follows FIRAuth, and nobody is remembered while the process is dead.
LEMMA AlwaysFollows == Spec => [](DeadRemembersNobody /\ Follows)
<1>1. Init => DeadRemembersNobody /\ Follows
  BY DEF Init, DeadRemembersNobody, Follows, ClientStarts, FirestoreFollowsAuth,
         ProviderFollowsAuth, WorkerFollowsProvider, QueueLeadsTo
<1>2. /\ TypeOK /\ DeadRemembersNobody /\ Follows /\ [Next]_vars
      => DeadRemembersNobody' /\ Follows'
  BY DeadStep, FollowsStep
<1> QED BY <1>1, <1>2, TypesAndAnswers, PTL DEF Spec

\* Whatever sign-ins, forced sign-outs, crashes and launches happen, the user Firestore is
\* on its way to is FIRAuth's user.
THEOREM FirestoreOnTheWay == Spec => []FirestoreFollowsAuth
<1>1. Follows => FirestoreFollowsAuth BY DEF Follows
<1> QED BY <1>1, AlwaysFollows, PTL

\* Three steps of the app's main thread hand a write over, and each in the same way.
LEMMA WriteIsEnqueued ==
    ASSUME TypeOK, [Next]_vars, written' # written
    PROVE  /\ \E kind, data : Enqueue(kind, data)
           /\ UNCHANGED <<currentUser, notices, fsUser>>
<1>1. ASSUME NEW u, SaveUser(u) PROVE \E kind, data : Enqueue(kind, data)
  BY <1>1 DEF SaveUser
<1>2. CASE AuthSteps
  BY <1>2 DEF AuthSteps, ServerAccepts, ServerFails, AuthApplies, AuthFails, counters
<1>3. CASE Taps
  BY <1>1, <1>3
     DEF Taps, RegisterInvalid, RegisterCrash, OpenSignIn, SignInBack, SignIn, Register,
         PressFacebook, SubmitUnsaved, Submit, ClosePopup, SubmitCrash, counters, auth
<1>4. CASE FacebookEnds
  BY <1>4 DEF FacebookEnds, FacebookRefused, FacebookWithoutToken, FacebookGranted, counters
<1>5. CASE GraphSteps
  BY <1>1, <1>5 DEF GraphSteps, GraphRepliesLogin, GraphCrash, counters
<1>6. CASE FirestoreSteps
  BY <1>6 DEF FirestoreSteps, RunUserJob, RunWriteJob, ServerCommits, ServerRejects, TakeAnswer,
              counters
<1>7. CASE Kill \/ Launch \/ SignedOutByForce \/ DeliverNotice
  BY <1>7 DEF Kill, Launch, SignedOutByForce, DeliverNotice, counters
<1>8. CASE \E c \in Controllers : TimerFires(c) BY <1>8 DEF TimerFires, counters
<1>9. CASE UNCHANGED vars BY <1>9 DEF vars, counters
<1> QED BY <1>2, <1>3, <1>4, <1>5, <1>6, <1>7, <1>8, <1>9 DEF Next

\* With no change of user under way, the provider knows FIRAuth's user when the write is
\* handed over, and the worker queue leads to the provider's queue.
LEMMA EntersQueueOfOwner ==
    ASSUME TypeOK, Follows, [Next]_vars, written' # written, notices = <<>>
    PROVE  (QueueLeadsTo(jobs[Len(jobs)].write.owner))'
<1>1. PICK kind, data : Enqueue(kind, data) BY WriteIsEnqueued
<1>2. UNCHANGED <<currentUser, notices, fsUser>> BY WriteIsEnqueued
<1>3. Follows' BY <1>1, <1>2, EnqueueFollows
<1>4. client' /\ provider' # Offline BY <1>1, <1>3 DEF Enqueue, Follows, ClientStarts
<1>5. provider' = currentUser
  BY <1>2, <1>3, <1>4 DEF Follows, FirestoreFollowsAuth, ProviderFollowsAuth
<1>6. (QueueLeadsTo(provider))'
  BY <1>3, <1>4 DEF Follows, FirestoreFollowsAuth, WorkerFollowsProvider
<1>7. jobs'[Len(jobs')].write.owner = currentUser
  <2> DEFINE w == [id |-> written + 1, kind |-> kind, owner |-> currentUser, data |-> data]
             last == [op |-> "write", write |-> w]
             first == [op |-> "user", user |-> Provider]
  <2>1. last.write.owner = currentUser OBVIOUS
  <2>2. jobs' = Append(Started, last) BY <1>1 DEF Enqueue
  <2>3. Started = IF client THEN jobs ELSE Append(jobs, first) BY DEF Started
  <2>4. jobs \in Seq(Jobs) BY DEF TypeOK, FirestoreTypes
  <2> HIDE DEF last, first
  <2>5. Started \in Seq(Jobs \cup {first, last})
    <3>1. jobs \in Seq(Jobs \cup {first, last}) BY <2>4
    <3> QED BY <2>3, <3>1
  <2>6. Len(jobs') = Len(Started) + 1 /\ jobs'[Len(Started) + 1] = last BY <2>2, <2>5
  <2> QED BY <2>1, <2>6
<1> QED BY <1>5, <1>6, <1>7 DEF QueueLeadsTo

\* A write that is entered with no user change on the main queue goes to the queue of the
\* account it is addressed to.
THEOREM WritesEnterTheirQueue == Spec => EntersOwnQueue
<1>1. /\ TypeOK /\ Follows /\ [Next]_vars
      => [written' # written /\ notices = <<>> =>
            (QueueLeadsTo(jobs[Len(jobs)].write.owner))']_vars
  BY EntersQueueOfOwner
<1> QED BY <1>1, AlwaysFollows, TypesAndAnswers, PTL DEF Spec, EntersOwnQueue

----------------------------------------------------------------------------
(* Every document is addressed to an account.                              *)

\* A document is addressed to FIRAuth's user, who has an account.
LEMMA EnqueueAccounts ==
    ASSUME TypeOK, WritesHaveAccounts, NEW kind, NEW data, Enqueue(kind, data),
           currentUser # Nobody, accounts' = accounts
    PROVE  \A i \in 1 .. Len(jobs') : jobs'[i].op = "write" => jobs'[i].write.owner \in accounts'
<1> DEFINE w == [id |-> written + 1, kind |-> kind, owner |-> currentUser, data |-> data]
           last == [op |-> "write", write |-> w]
           first == [op |-> "user", user |-> Provider]
<1>1. jobs \in Seq(Jobs) BY DEF TypeOK, FirestoreTypes
<1>2. currentUser \in accounts BY DEF WritesHaveAccounts, UserHasAccount
<1>3. last.write.owner \in accounts /\ first.op = "user" BY <1>2
<1>4. jobs' = Append(Started, last) BY DEF Enqueue
<1>5. Started = IF client THEN jobs ELSE Append(jobs, first) BY DEF Started
<1> HIDE DEF last, first
<1>6. /\ Len(Started) \in Nat
      /\ \A i \in 1 .. Len(Started) :
           Started[i].op = "write" => Started[i].write.owner \in accounts
  <2>1. CASE client BY <1>1, <1>5, <2>1 DEF WritesHaveAccounts
  <2>2. CASE ~client
    <3>1. /\ Len(jobs) \in Nat /\ Len(Started) = Len(jobs) + 1
          /\ Started[Len(jobs) + 1] = first
          /\ \A i \in 1 .. Len(jobs) : Started[i] = jobs[i]
      BY <1>1, <1>5, <2>2
    <3> QED BY <1>3, <3>1 DEF WritesHaveAccounts
  <2> QED BY <2>1, <2>2
<1>7. /\ Len(jobs') = Len(Started) + 1 /\ jobs'[Len(Started) + 1] = last
      /\ \A i \in 1 .. Len(Started) : jobs'[i] = Started[i]
  <2>1. Started \in Seq(Jobs \cup {first})
    <3>1. jobs \in Seq(Jobs \cup {first}) BY <1>1
    <3> QED BY <1>5, <3>1
  <2> QED BY <1>4, <2>1
<1> QED BY <1>3, <1>6, <1>7

\* A step that leaves users, queues and documents alone keeps their accounts.
LEMMA StutterAccounts ==
    ASSUME WritesHaveAccounts, accounts \subseteq accounts', UserHasAccount',
           UNCHANGED <<jobs, outbox, profiles, filed>>
    PROVE  WritesHaveAccounts'
BY DEF WritesHaveAccounts

\* The death of the process leaves only requests that are still out.
LEMMA HaltAccounts ==
    ASSUME WritesHaveAccounts, Halt, UNCHANGED <<stores, outbox, servers, counters>>
    PROVE  WritesHaveAccounts'
<1>1. UserHasAccount' BY DEF WritesHaveAccounts, UserHasAccount, Halt, servers, stores
<1>2. jobs' = <<>> BY DEF Halt
<1> QED BY <1>1, <1>2 DEF WritesHaveAccounts, servers

\* A step that only sends requests, or drops them.
LEMMA RequestAccounts ==
    ASSUME WritesHaveAccounts, UNCHANGED <<currentUser, savedUser, jobs, outbox, servers>>,
           \A c \in calls' : c \in calls \/ c.state # "ok"
    PROVE  WritesHaveAccounts'
BY DEF WritesHaveAccounts, UserHasAccount, servers

\* saveUserIntoFirebaseDatabase writes for a user who has an account, or not at all.
LEMMA SaveUserAccounts ==
    ASSUME TypeOK, WritesHaveAccounts, NEW u, SaveUser(u),
           UNCHANGED <<currentUser, savedUser, outbox, servers>>,
           \A c \in calls' : c \in calls \/ c.state # "ok"
    PROVE  WritesHaveAccounts'
<1>1. UserHasAccount' BY DEF WritesHaveAccounts, UserHasAccount, servers
<1>2. CASE currentUser = Nobody
  BY <1>1, <1>2 DEF SaveUser, WritesHaveAccounts, servers
<1>3. CASE currentUser # Nobody
  <2>1. \A i \in 1 .. Len(jobs') : jobs'[i].op = "write" => jobs'[i].write.owner \in accounts'
    BY <1>3, EnqueueAccounts DEF SaveUser, servers
  <2> QED BY <1>1, <2>1 DEF WritesHaveAccounts, servers
<1> QED BY <1>2, <1>3

\* FIRAuth only sets a user whose account the server has created.
LEMMA AuthStepAccounts ==
    ASSUME TypeOK, WritesHaveAccounts, AuthSteps
    PROVE  WritesHaveAccounts'
<1>1. PICK c \in calls : ServerAccepts(c) \/ ServerFails(c) \/ AuthApplies(c) \/ AuthFails(c)
  BY DEF AuthSteps
<1>2. CASE ServerAccepts(c)
  <2>1. c.user \in accounts' /\ accounts \subseteq accounts' BY <1>2 DEF ServerAccepts
  <2>2. \A d \in calls' : d \in calls \/ d.user = c.user
    BY <1>2 DEF ServerAccepts, Answered, TypeOK, AuthTypes, Calls
  <2>3. UserHasAccount'
    BY <1>2, <2>1, <2>2 DEF ServerAccepts, WritesHaveAccounts, UserHasAccount, stores
  <2> QED BY <1>2, <2>1, <2>3, StutterAccounts DEF ServerAccepts, fs
<1>3. CASE ServerFails(c)
  <2>1. accounts \subseteq accounts' BY <1>3 DEF ServerFails
  <2>2. \A d \in calls' : d \in calls \/ d.state = "error"
    BY <1>3 DEF ServerFails, Answered, TypeOK, AuthTypes, Calls
  <2>3. UserHasAccount'
    BY <1>3, <2>1, <2>2 DEF ServerFails, WritesHaveAccounts, UserHasAccount, stores
  <2> QED BY <1>3, <2>1, <2>3, StutterAccounts DEF ServerFails, fs
<1>4. CASE AuthApplies(c)
  <2>1. UserHasAccount'
    BY <1>4 DEF AuthApplies, WritesHaveAccounts, UserHasAccount, servers
  <2> QED BY <1>4, <2>1, StutterAccounts DEF AuthApplies, fs, servers
<1>5. CASE AuthFails(c)
  BY <1>5, RequestAccounts DEF AuthFails, fs, stores
<1> QED BY <1>1, <1>2, <1>3, <1>4, <1>5

\* Writes keep their owner on the way from the worker queue to the server.
LEMMA FirestoreStepAccounts ==
    ASSUME TypeOK, AnswerIsForHead, WritesHaveAccounts, FirestoreSteps
    PROVE  WritesHaveAccounts'
<1>1. outbox \in [MaybeUser -> Seq(Writes)] /\ jobs \in Seq(Jobs)
  BY DEF TypeOK, FirestoreTypes
<1>2. UserHasAccount'
  BY DEF FirestoreSteps, RunUserJob, RunWriteJob, ServerCommits, ServerRejects, TakeAnswer, auth,
         stores, servers, WritesHaveAccounts, UserHasAccount
<1>3. CASE RunUserJob \/ RunWriteJob
  <2>1. jobs # <<>> /\ jobs' = Tail(jobs) /\ UNCHANGED servers
    BY <1>3 DEF RunUserJob, RunWriteJob
  <2>2. \A i \in 1 .. Len(jobs') : jobs'[i].op = "write" => jobs'[i].write.owner \in accounts
    <3>1. Len(jobs') = Len(jobs) - 1 /\ \A i \in 1 .. Len(jobs') : jobs'[i] = jobs[i + 1]
      BY <1>1, <2>1
    <3> QED BY <1>1, <3>1 DEF WritesHaveAccounts
  <2>3. \A u \in MaybeUser : \A i \in 1 .. Len(outbox'[u]) : outbox'[u][i].owner \in accounts
    <3>1. CASE RunUserJob BY <3>1 DEF RunUserJob, WritesHaveAccounts
    <3>2. CASE RunWriteJob
      <4> DEFINE w == Head(jobs).write
      <4>1. outbox' = [outbox EXCEPT ![fsUser] = Append(@, w)] BY <3>2 DEF RunWriteJob
      <4>2. Head(jobs) = jobs[1] /\ 1 \in 1 .. Len(jobs) BY <1>1, <2>1
      <4>3. w.owner \in accounts BY <3>2, <4>2 DEF RunWriteJob, WritesHaveAccounts
      <4>4. w \in Writes
        <5>1. Head(jobs) \in Jobs BY <1>1, <2>1
        <5> QED BY <3>2, <5>1 DEF RunWriteJob, Jobs
      <4> HIDE DEF w
      <4>5. ASSUME NEW u \in MaybeUser, NEW i \in 1 .. Len(outbox'[u])
            PROVE  outbox'[u][i].owner \in accounts
        <5>1. outbox[u] \in Seq(Writes) BY <1>1
        <5>2. CASE outbox'[u] = outbox[u] BY <4>5, <5>2 DEF WritesHaveAccounts
        <5>3. CASE outbox'[u] = Append(outbox[u], w)
          <6>1. /\ Len(outbox[u]) \in Nat /\ Len(outbox'[u]) = Len(outbox[u]) + 1
                /\ outbox'[u][Len(outbox[u]) + 1] = w
                /\ \A k \in 1 .. Len(outbox[u]) : outbox'[u][k] = outbox[u][k]
            BY <4>4, <5>1, <5>3
          <6> QED BY <4>3, <4>5, <6>1 DEF WritesHaveAccounts
        <5> QED BY <1>1, <4>1, <5>2, <5>3
      <4> QED BY <4>5
    <3> QED BY <1>3, <3>1, <3>2
  <2> QED BY <1>2, <2>1, <2>2, <2>3 DEF WritesHaveAccounts, servers
<1>4. CASE ServerCommits
  <2> DEFINE w == Head(outbox[fsUser])
  <2>1. /\ fsUser \in MaybeUser /\ outbox[fsUser] \in Seq(Writes) /\ outbox[fsUser] # <<>>
    BY <1>4, OpenQueue DEF ServerCommits, Sending
  <2>2. w = outbox[fsUser][1] /\ 1 \in 1 .. Len(outbox[fsUser]) BY <2>1
  <2>3. w.owner \in accounts BY <2>1, <2>2 DEF WritesHaveAccounts
  <2>4. \/ filed' = filed /\ profiles' = [profiles EXCEPT ![w.owner] = w.data]
        \/ filed' = filed \cup {w} /\ profiles' = profiles
    BY <1>4 DEF ServerCommits
  <2>5. UNCHANGED <<jobs, outbox, accounts>> BY <1>4 DEF ServerCommits
  <2> HIDE DEF w
  <2>6. \A u \in Users : profiles'[u] # Nobody => u \in accounts
    BY <2>3, <2>4 DEF WritesHaveAccounts, TypeOK, ServerTypes
  <2>7. \A v \in filed' : v.owner \in accounts
    BY <2>3, <2>4 DEF WritesHaveAccounts
  <2> QED BY <1>2, <2>5, <2>6, <2>7 DEF WritesHaveAccounts
<1>5. CASE ServerRejects
  BY <1>2, <1>5, StutterAccounts DEF ServerRejects
<1>6. CASE TakeAnswer
  <2>1. /\ fsUser \in MaybeUser /\ outbox[fsUser] \in Seq(Writes) /\ outbox[fsUser] # <<>>
        /\ outbox' = [outbox EXCEPT ![fsUser] = Tail(@)]
    BY <1>6, OpenQueue DEF TakeAnswer, AnswerIsForHead
  <2>2. /\ Len(Tail(outbox[fsUser])) = Len(outbox[fsUser]) - 1
        /\ \A i \in 1 .. Len(Tail(outbox[fsUser])) :
             i + 1 \in 1 .. Len(outbox[fsUser]) /\ Tail(outbox[fsUser])[i] = outbox[fsUser][i + 1]
    BY <2>1
  <2>3. \A i \in 1 .. Len(Tail(outbox[fsUser])) : Tail(outbox[fsUser])[i].owner \in accounts
    BY <2>1, <2>2 DEF WritesHaveAccounts
  <2>4. \A u \in MaybeUser : \A i \in 1 .. Len(outbox'[u]) : outbox'[u][i].owner \in accounts
    BY <1>1, <2>1, <2>3 DEF WritesHaveAccounts
  <2> QED BY <1>2, <1>6, <2>4 DEF TakeAnswer, WritesHaveAccounts, servers
<1> QED BY <1>3, <1>4, <1>5, <1>6 DEF FirestoreSteps

\* Every step keeps documents addressed to accounts.
LEMMA AccountsStep ==
    ASSUME TypeOK, AnswerIsForHead, WritesHaveAccounts, [Next]_vars
    PROVE  WritesHaveAccounts'
<1>1. CASE Kill BY <1>1, HaltAccounts DEF Kill
<1>2. CASE Launch
  <2>1. UserHasAccount'
    BY <1>2 DEF Launch, WritesHaveAccounts, UserHasAccount, stores, servers
  <2> QED BY <1>2, <2>1, StutterAccounts DEF Launch, fs, servers
<1>3. CASE Taps
  <2>1. ASSUME NEW p \in Persons, Register(p) PROVE WritesHaveAccounts'
    BY <2>1, SaveUserAccounts DEF Register
  <2>2. CASE Submit
    <3>1. Enqueue("form", keychain) /\ currentUser # Nobody
          /\ UNCHANGED <<currentUser, savedUser, calls, outbox, servers>>
      BY <2>2 DEF Submit, auth, stores
    <3>2. \A i \in 1 .. Len(jobs') : jobs'[i].op = "write" => jobs'[i].write.owner \in accounts'
      BY <3>1, EnqueueAccounts DEF servers
    <3> QED BY <3>1, <3>2 DEF WritesHaveAccounts, UserHasAccount, servers
  <2>3. CASE RegisterCrash \/ \E chosen \in BOOLEAN : SubmitCrash(chosen)
    BY <2>3, HaltAccounts DEF RegisterCrash, SubmitCrash
  <2>4. CASE RegisterInvalid \/ OpenSignIn \/ SignInBack \/ SignIn \/ SubmitUnsaved \/ ClosePopup
    BY <2>4, RequestAccounts DEF RegisterInvalid, OpenSignIn, SignInBack, SignIn, SubmitUnsaved,
                                 ClosePopup, auth, stores, fs
  <2>5. ASSUME NEW c \in Controllers, PressFacebook(c) PROVE WritesHaveAccounts'
    BY <2>5, RequestAccounts DEF PressFacebook, auth, stores, fs
  <2> QED BY <1>3, <2>1, <2>2, <2>3, <2>4, <2>5 DEF Taps
<1>4. CASE FacebookEnds
  BY <1>4, RequestAccounts
     DEF FacebookEnds, FacebookRefused, FacebookWithoutToken, FacebookGranted, SendCredential,
         auth, stores, fs
<1>5. ASSUME NEW c \in Controllers, TimerFires(c) PROVE WritesHaveAccounts'
  BY <1>5, RequestAccounts DEF TimerFires, auth, stores, fs
<1>6. CASE AuthSteps BY <1>6, AuthStepAccounts
<1>7. CASE GraphSteps
  <2>1. PICK g \in graph : GraphRepliesLogin(g) \/ GraphCrash(g) BY <1>7 DEF GraphSteps
  <2>2. CASE GraphRepliesLogin(g) BY <2>2, SaveUserAccounts DEF GraphRepliesLogin
  <2>3. CASE GraphCrash(g) BY <2>3, HaltAccounts DEF GraphCrash
  <2> QED BY <2>1, <2>2, <2>3
<1>8. CASE DeliverNotice
  <2>1. UserHasAccount'
    BY <1>8 DEF DeliverNotice, WritesHaveAccounts, UserHasAccount, servers, stores
  <2>2. jobs' = jobs \/ jobs' = Append(jobs, [op |-> "user", user |-> Head(notices)])
    BY <1>8 DEF DeliverNotice
  <2>3. \A i \in 1 .. Len(jobs') : jobs'[i].op = "write" => jobs'[i].write.owner \in accounts
    <3>1. CASE jobs' = jobs BY <3>1 DEF WritesHaveAccounts
    <3>2. CASE jobs' = Append(jobs, [op |-> "user", user |-> Head(notices)])
      <4>1. jobs \in Seq(Jobs) BY DEF TypeOK, FirestoreTypes
      <4>2. /\ Len(jobs) \in Nat /\ Len(jobs') = Len(jobs) + 1
            /\ jobs'[Len(jobs) + 1].op = "user"
            /\ \A i \in 1 .. Len(jobs) : jobs'[i] = jobs[i]
        BY <3>2, <4>1
      <4> QED BY <4>2 DEF WritesHaveAccounts
    <3> QED BY <2>2, <3>1, <3>2
  <2> QED BY <1>8, <2>1, <2>3 DEF DeliverNotice, WritesHaveAccounts, servers
<1>9. CASE FirestoreSteps BY <1>9, FirestoreStepAccounts
<1>10. CASE SignedOutByForce
  <2>1. UserHasAccount'
    BY <1>10 DEF SignedOutByForce, WritesHaveAccounts, UserHasAccount, servers
  <2> QED BY <1>10, <2>1, StutterAccounts DEF SignedOutByForce, fs, servers
<1>11. CASE UNCHANGED vars BY <1>11, RequestAccounts DEF vars, auth, stores, fs
<1> QED
  BY <1>1, <1>2, <1>3, <1>4, <1>5, <1>6, <1>7, <1>8, <1>9, <1>10, <1>11 DEF Next

\* No document is ever addressed to an account that does not exist.
THEOREM DocumentsHaveAccounts == Spec => []WritesHaveAccounts
<1>1. Init => WritesHaveAccounts BY DEF Init, WritesHaveAccounts, UserHasAccount
<1>2. TypeOK /\ AnswerIsForHead /\ WritesHaveAccounts /\ [Next]_vars => WritesHaveAccounts'
  BY AccountsStep
<1> QED BY <1>1, <1>2, TypesAndAnswers, PTL DEF Spec

----------------------------------------------------------------------------
(* The progress window has an end.  ProgressWindowHasAnEnd is not          *)
(* inductive: a window left up while no token was cached (WindowsEnd, its  *)
(* second case) would be without an end as soon as a token came.  None     *)
(* does, because such a window lies in front of every button that opens    *)
(* the Facebook dialog (WindowsInFront).                                   *)

WindowsInFront ==
    root = "login" =>
        /\ hud["login"] = "shown" => modal = "none"
        /\ hud["signIn"] = "shown" => modal = "signIn"

Ending(c) == dialog = c \/ c \in timers \/ \E g \in graph : g.from = c

WindowsEnd ==
    root = "login" =>
        \A c \in Controllers :
            hud[c] = "shown" => Ending(c) \/ (dialog = "none" /\ fbToken = NoOne)

Windows == WindowsInFront /\ WindowsEnd

\* A step that leaves the screens, the dialog, the token and the /me requests alone, and
\* cancels no dismissal, leaves the windows as they were.
LEMMA StutterWindows ==
    ASSUME Windows, UNCHANGED <<root, modal, dialog, hud, graph, fbToken>>,
           \A c \in Controllers : c \in timers => c \in timers'
    PROVE  Windows'
BY DEF Windows, WindowsInFront, WindowsEnd, Ending

\* There is no window once the process is dead, and none over the login screens once
\* the form is the root.
LEMMA NoWindows ==
    ASSUME Halt \/ root' = "form"
    PROVE  Windows'
BY DEF Halt, Windows, WindowsInFront, WindowsEnd, Controllers

\* The buttons of the login screens.
LEMMA ScreenWindows ==
    ASSUME TypeOK, Windows, OpenSignIn \/ SignInBack \/ SignIn \/ ClosePopup \/ SubmitUnsaved
    PROVE  Windows'
<1>1. CASE root # "login"
  <2>1. root' = root BY DEF OpenSignIn, SignInBack, SignIn, ClosePopup, SubmitUnsaved
  <2> QED BY <1>1, <2>1 DEF Windows, WindowsInFront, WindowsEnd
<1>2. CASE root = "login"
  <2>1. CASE OpenSignIn
    <3>1. /\ hud["login"] = "hidden" /\ hud' = [hud EXCEPT !["signIn"] = "hidden"]
          /\ hud \in [Controllers -> {"hidden", "shown"}]
      BY <2>1 DEF OpenSignIn, AtLogin, TypeOK, UiTypes
    <3>2. \A c \in Controllers : hud'[c] = "hidden" BY <3>1 DEF Controllers
    <3> QED BY <3>2 DEF Windows, WindowsInFront, WindowsEnd, Controllers
  <2>2. CASE SignInBack \/ SignIn
    <3>1. modal = "signIn" /\ hud["signIn"] = "hidden"
          /\ UNCHANGED <<root, dialog, hud, timers, graph, fbToken>>
      BY <2>2 DEF SignInBack, SignIn, AtSignIn, auth, stores
    <3>2. \A c \in Controllers : hud'[c] # "shown"
      BY <1>2, <3>1 DEF Windows, WindowsInFront, Controllers
    <3> QED BY <3>2 DEF Windows, WindowsInFront, WindowsEnd, Controllers
  <2>3. CASE ClosePopup
    <3>1. modal = "popup" /\ UNCHANGED <<root, dialog, hud, timers, graph, fbToken>>
      BY <2>3 DEF ClosePopup, auth, stores
    <3>2. \A c \in Controllers : hud'[c] # "shown"
      BY <1>2, <3>1 DEF Windows, WindowsInFront, Controllers
    <3> QED BY <3>2 DEF Windows, WindowsInFront, WindowsEnd, Controllers
  <2>4. CASE SubmitUnsaved BY <1>2, <2>4 DEF SubmitUnsaved, AtForm
  <2> QED BY <2>1, <2>2, <2>3, <2>4
<1> QED BY <1>1, <1>2

\* A press of Facebook's button opens a window with the dialog behind it.  No other
\* window is up: it would have covered the button.
LEMMA PressWindows ==
    ASSUME TypeOK, Windows, NEW c \in Controllers, PressFacebook(c)
    PROVE  Windows'
<1>1. /\ hud' = [hud EXCEPT ![c] = "shown"] /\ dialog' = c /\ UNCHANGED <<root, modal>>
      /\ hud \in [Controllers -> {"hidden", "shown"}]
  BY DEF PressFacebook, TypeOK, UiTypes
<1>2. hud'[c] = "shown" /\ \A d \in Controllers : d # c => hud'[d] = hud[d] BY <1>1
<1>3. (c = "login" /\ modal = "none") \/ (c = "signIn" /\ modal = "signIn")
  BY DEF PressFacebook, AtLogin, AtSignIn, Controllers
<1>4. root' = "login" => \A d \in Controllers : hud'[d] = "shown" => d = c
  BY <1>1, <1>2, <1>3 DEF Windows, WindowsInFront, Controllers
<1>5. WindowsInFront' BY <1>1, <1>3, <1>4 DEF WindowsInFront, Controllers
<1>6. WindowsEnd' BY <1>1, <1>4 DEF WindowsEnd, Ending
<1> QED BY <1>5, <1>6 DEF Windows

\* However the dialog ends: a dismissal, two requests, or no token at all.
LEMMA DialogWindows ==
    ASSUME TypeOK, Windows, FacebookEnds
    PROVE  Windows'
<1>1. dialog # "none" /\ dialog' = "none" /\ UNCHANGED <<root, modal, hud>>
  BY DEF FacebookEnds, FacebookRefused, FacebookWithoutToken, FacebookGranted
<1>2. /\ \A c \in Controllers : c \in timers => c \in timers'
      /\ \A g \in graph : g \in graph'
  BY DEF FacebookEnds, FacebookRefused, FacebookWithoutToken, FacebookGranted, SendCredential, auth
<1>3. \/ dialog \in timers'
      \/ \E g \in graph' : g.from = dialog
      \/ fbToken' = NoOne
  <2>1. ASSUME NEW p, SendCredential(p) PROVE \E g \in graph' : g.from = dialog
    <3>1. [id |-> presses, who |-> p, from |-> dialog] \in graph' BY <2>1 DEF SendCredential
    <3> QED BY <3>1
  <2>2. CASE FacebookRefused BY <2>2 DEF FacebookRefused
  <2>3. CASE FacebookWithoutToken BY <2>1, <2>3 DEF FacebookWithoutToken, stores
  <2>4. ASSUME NEW p \in Persons, FacebookGranted(p) PROVE \E g \in graph' : g.from = dialog
    BY <2>1, <2>4 DEF FacebookGranted
  <2> QED BY <2>2, <2>3, <2>4 DEF FacebookEnds
<1>4. WindowsInFront' BY <1>1 DEF Windows, WindowsInFront
<1>5. WindowsEnd'
  <2> SUFFICES ASSUME root = "login", NEW c \in Controllers, hud[c] = "shown"
               PROVE  Ending(c)' \/ fbToken' = NoOne
    BY <1>1 DEF WindowsEnd
  <2>1. Ending(c) BY <1>1 DEF Windows, WindowsEnd
  <2>2. CASE dialog = c BY <1>3, <2>2 DEF Ending
  <2>3. CASE dialog # c BY <1>2, <2>1, <2>3 DEF Ending
  <2> QED BY <2>2, <2>3
<1> QED BY <1>4, <1>5 DEF Windows

\* Every step leaves each window with an end, or with nobody logged in behind it.
LEMMA WindowsStep ==
    ASSUME TypeOK, Windows, [Next]_vars
    PROVE  Windows'
<1>1. CASE Kill BY <1>1, NoWindows DEF Kill
<1>2. CASE Launch BY <1>2, StutterWindows DEF Launch, auth, stores
<1>3. CASE Taps
  <2>1. CASE RegisterInvalid \/ \E p \in Persons : Register(p)
    BY <2>1, NoWindows DEF RegisterInvalid, Register
  <2>2. CASE RegisterCrash \/ \E chosen \in BOOLEAN : SubmitCrash(chosen)
    BY <2>2, NoWindows DEF RegisterCrash, SubmitCrash
  <2>3. CASE Submit BY <2>3, NoWindows DEF Submit, AtForm
  <2> QED BY <1>3, <2>1, <2>2, <2>3, ScreenWindows, PressWindows DEF Taps
<1>4. CASE FacebookEnds BY <1>4, DialogWindows
<1>5. ASSUME NEW c \in Controllers, TimerFires(c) PROVE Windows'
  <2>1. /\ timers' = timers \ {c} /\ hud' = [hud EXCEPT ![c] = "hidden"]
        /\ hud \in [Controllers -> {"hidden", "shown"}]
        /\ UNCHANGED <<root, modal, dialog, graph, fbToken>>
    BY <1>5 DEF TimerFires, auth, stores, TypeOK, UiTypes
  <2>2. \A d \in Controllers : hud'[d] = "shown" => d # c /\ hud[d] = "shown" BY <2>1
  <2>3. WindowsInFront' BY <2>1, <2>2 DEF Windows, WindowsInFront, Controllers
  <2>4. WindowsEnd' BY <2>1, <2>2 DEF Windows, WindowsEnd, Ending
  <2> QED BY <2>3, <2>4 DEF Windows
<1>6. CASE AuthSteps
  BY <1>6, StutterWindows DEF AuthSteps, ServerAccepts, ServerFails, AuthApplies, AuthFails, ui,
                              stores
<1>7. CASE GraphSteps BY <1>7, NoWindows DEF GraphSteps, GraphRepliesLogin, GraphCrash
<1>8. CASE DeliverNotice BY <1>8, StutterWindows DEF DeliverNotice, ui, stores
<1>9. CASE SignedOutByForce BY <1>9, StutterWindows DEF SignedOutByForce, ui
<1>10. CASE FirestoreSteps
  BY <1>10, StutterWindows DEF FirestoreSteps, RunUserJob, RunWriteJob, ServerCommits,
                              ServerRejects, TakeAnswer, ui, auth, stores
<1>11. CASE UNCHANGED vars BY <1>11, StutterWindows DEF vars, ui, auth, stores
<1> QED
  BY <1>1, <1>2, <1>3, <1>4, <1>5, <1>6, <1>7, <1>8, <1>9, <1>10, <1>11 DEF Next

\* With a token cached, a progress window over the login screens always has something
\* under way that takes it away.
THEOREM WindowsHaveAnEnd == Spec => []ProgressWindowHasAnEnd
<1>1. Init => Windows BY DEF Init, Windows, WindowsInFront, WindowsEnd, Controllers
<1>2. TypeOK /\ Windows /\ [Next]_vars => Windows' BY WindowsStep
<1>3. Windows => ProgressWindowHasAnEnd
  BY DEF Windows, WindowsEnd, Ending, ProgressWindowHasAnEnd
<1> QED BY <1>1, <1>2, <1>3, TypesHold, PTL DEF Spec
=============================================================================
