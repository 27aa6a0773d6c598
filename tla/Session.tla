------------------------------ MODULE Session ------------------------------
(***************************************************************************)
(* Who is using the app, and where what they enter ends up.                *)
(*                                                                         *)
(* LoginController (register, Facebook), SignInController, the submit path *)
(* of FormTableController, and the three services behind them: FIRAuth     *)
(* with its work queue, its user and the copy of him in the system         *)
(* keychain, the Firestore client with its worker queue and its per-user   *)
(* queue of mutations, and the Facebook login manager with its cached      *)
(* access token.                                                           *)
(*                                                                         *)
(* Four things run concurrently here: the user's taps and the callbacks    *)
(* on the main queue, FIRAuth's work queue, Firestore's worker queue, and  *)
(* the servers.  The process can be killed between any two of their steps. *)
(***************************************************************************)
EXTENDS Naturals, Sequences, FiniteSets

CONSTANTS
    Persons,      \* the people who take the phone into their hands
    NoOne,        \* "no Facebook token"
    Nobody,       \* "no user": nil in FIRAuth, the unauthenticated Firestore user
    Offline,      \* the Firestore client has not been started in this launch
    MaxPresses,   \* bound on the presses that start a registration or a Facebook login
    MaxReports,   \* bound on the presses of Submit
    MaxLaunches   \* bound on the launches of the app

ASSUME SentinelAssumption ==
    /\ NoOne \notin Persons
    /\ Nobody \notin [via : {"email", "facebook"}, who : Persons]
    /\ Offline \notin [via : {"email", "facebook"}, who : Persons] \cup {Nobody}

ASSUME BoundAssumption ==
    MaxPresses \in Nat /\ MaxReports \in Nat /\ MaxLaunches \in Nat

\* An account, and also the identity it carries: name, password and e-mail are
\* told apart only by whose they are and which provider gave them.
Users == [via : {"email", "facebook"}, who : Persons]
MaybeUser == Users \cup {Nobody}

EmailUser(p) == [via |-> "email", who |-> p]
FacebookUser(p) == [via |-> "facebook", who |-> p]

\* A Firestore document on its way: users/<owner> (a profile) or
\* users/<owner>/Forms/<id> (a report).  data is the identity written in it.
Writes == [id : Nat, kind : {"profile", "form"}, owner : Users, data : Users]

\* What is queued on Firestore's worker queue.
Jobs == [op : {"user"}, user : MaybeUser] \cup [op : {"write"}, write : Writes]

Controllers == {"login", "signIn"}

Calls == [id : Nat, kind : {"create", "credential"}, user : Users,
          from : Controllers, state : {"sent", "ok", "error"}, launch : Nat]

Graphs == [id : Nat, who : Persons, from : Controllers]

VARIABLES
    \* the screens
    running,      \* the process is alive
    root,         \* the navigation stack: LoginController, or the form alone
    modal,        \* what is presented over it ("bareForm": the form over SignIn)
    dialog,       \* whose Facebook dialog is open
    hud,          \* the progress window of each controller
    timers,       \* controllers with a delayed dismissal of their window pending
    announced,    \* the report the success popup speaks of (0: none was written)
    \* FIRAuth and Facebook on the phone
    currentUser,  \* FIRAuth's user, in memory
    savedUser,    \* the user in the system keychain, whom the next launch loads
    calls,        \* sign-up and sign-in requests, from the press to the callback
    graph,        \* Facebook /me requests
    notices,      \* user-change notifications posted to the main queue
    fbToken,      \* Facebook's cached access token
    keychain,     \* the app's own keychain entries "name", "password", "email"
    \* the Firestore client
    provider,     \* the user its credentials provider knows
    client,       \* the client exists (the first collection() of the launch)
    jobs,         \* its worker queue
    fsUser,       \* the user whose mutation queue is open
    outbox,       \* the mutation queues on disk, one per user
    acked,        \* the server's answer to the head of the open queue is back
    \* the servers
    accounts, profiles, filed, rejected,
    \* counters
    presses, written, reports, launch

ui == <<running, root, modal, dialog, hud, timers, announced>>
auth == <<currentUser, calls, graph, notices>>
stores == <<savedUser, fbToken, keychain>>
fs == <<provider, client, jobs, fsUser, outbox, acked>>
servers == <<accounts, profiles, filed, rejected>>
counters == <<presses, written, reports, launch>>
vars == <<ui, auth, stores, fs, servers, counters>>

UiTypes ==
    /\ running \in BOOLEAN
    /\ root \in {"login", "form"}
    /\ modal \in {"none", "signIn", "bareForm", "popup"}
    /\ dialog \in Controllers \cup {"none"}
    /\ hud \in [Controllers -> {"hidden", "shown"}]
    /\ timers \in SUBSET Controllers
    /\ announced \in Nat
AuthTypes ==
    /\ currentUser \in MaybeUser
    /\ calls \in SUBSET Calls
    /\ graph \in SUBSET Graphs
    /\ notices \in Seq(MaybeUser)
StoreTypes ==
    /\ savedUser \in MaybeUser
    /\ fbToken \in Persons \cup {NoOne}
    /\ keychain \in MaybeUser
FirestoreTypes ==
    /\ provider \in MaybeUser \cup {Offline}
    /\ client \in BOOLEAN
    /\ jobs \in Seq(Jobs)
    /\ fsUser \in MaybeUser \cup {Offline}
    /\ outbox \in [MaybeUser -> Seq(Writes)]
    /\ acked \in BOOLEAN
ServerTypes ==
    /\ accounts \in SUBSET Users
    /\ profiles \in [Users -> MaybeUser]
    /\ filed \in SUBSET Writes
    /\ rejected \in SUBSET Nat
CounterTypes == presses \in Nat /\ written \in Nat /\ reports \in Nat /\ launch \in Nat

\* The type invariant.
TypeOK == UiTypes /\ AuthTypes /\ StoreTypes /\ FirestoreTypes /\ ServerTypes /\ CounterTypes

----------------------------------------------------------------------------
(* Launch and death of the process.                                        *)

\* Every launch starts at LoginController, whoever FIRAuth remembers.
Init ==
    /\ running = TRUE /\ launch = 1
    /\ root = "login" /\ modal = "none" /\ dialog = "none"
    /\ hud = [c \in Controllers |-> "hidden"] /\ timers = {} /\ announced = 0
    /\ calls = {} /\ graph = {} /\ notices = <<>>
    /\ provider = Offline /\ client = FALSE /\ jobs = <<>> /\ fsUser = Offline
    /\ acked = FALSE
    /\ currentUser = Nobody /\ savedUser = Nobody /\ fbToken = NoOne /\ keychain = Nobody
    /\ outbox = [u \in MaybeUser |-> <<>>]
    /\ accounts = {} /\ profiles = [u \in Users |-> Nobody]
    /\ filed = {} /\ rejected = {}
    /\ presses = 0 /\ written = 0 /\ reports = 0

\* The process dies.  What FIRAuth and Facebook saved, the app's keychain and
\* Firestore's queues stay; a request that is out still reaches its server.
Halt ==
    /\ running' = FALSE
    /\ root' = "login" /\ modal' = "none" /\ dialog' = "none"
    /\ hud' = [c \in Controllers |-> "hidden"] /\ timers' = {} /\ announced' = 0
    /\ currentUser' = Nobody
    /\ calls' = {c \in calls : c.state = "sent"} /\ graph' = {} /\ notices' = <<>>
    /\ provider' = Offline /\ client' = FALSE /\ jobs' = <<>> /\ fsUser' = Offline
    /\ acked' = FALSE

Kill ==
    /\ running
    /\ Halt
    /\ UNCHANGED <<stores, outbox, servers, counters>>

\* FIRAuth loads the saved user before anything can be tapped, so nobody listens yet
\* to the change.  A keychain that cannot be read leaves no user, and the saved one saved.
Launch ==
    /\ ~running /\ launch < MaxLaunches
    /\ running' = TRUE /\ launch' = launch + 1
    /\ currentUser' \in {savedUser, Nobody}
    /\ UNCHANGED <<root, modal, dialog, hud, timers, announced, calls, graph, notices,
                   stores, fs, servers, presses, written, reports>>

----------------------------------------------------------------------------
(* Firestore, as the app's main thread sees it.                            *)

\* Mutant of Provider: the credentials provider is not built on first use.
ProviderAsItIs == provider

\* Mutant of Started: the client starts unauthenticated, whoever the provider knows.
StartedForNobody ==
    IF client THEN jobs ELSE Append(jobs, [op |-> "user", user |-> Nobody])

\* Firestore.firestore(): the first use builds the credentials provider with
\* FIRAuth's user of that moment.
Provider == IF provider = Offline THEN currentUser ELSE provider

\* collection(..)...setData / addDocument: the first use in a launch creates
\* the client, whose first job is to open the provider's user's queue.
Started == IF client THEN jobs ELSE Append(jobs, [op |-> "user", user |-> Provider])
Enqueue(kind, data) ==
    /\ provider' = Provider
    /\ client' = TRUE
    /\ written' = written + 1
    /\ jobs' = Append(Started,
                  [op |-> "write",
                   write |-> [id |-> written + 1, kind |-> kind, owner |-> currentUser,
                              data |-> data]])

\* saveUserIntoFirebaseDatabase of LoginController with self.user = u.
SaveUser(u) ==
    \/ /\ currentUser = Nobody
       /\ provider' = Provider
       /\ timers' = timers \cup {"login"}
       /\ UNCHANGED <<client, jobs, written>>
    \/ /\ currentUser # Nobody
       /\ Enqueue("profile", u)
       /\ UNCHANGED timers

----------------------------------------------------------------------------
(* LoginController and SignInController.                                   *)

AtLogin == running /\ root = "login" /\ modal = "none" /\ dialog = "none" /\ hud["login"] = "hidden"
AtSignIn == running /\ modal = "signIn" /\ dialog = "none" /\ hud["signIn"] = "hidden"
AtForm == running /\ root = "form" /\ modal = "none" /\ dialog = "none"

\* REGISTER with fields that fail the validation: an alert, and the segue to the
\* form goes ahead all the same.
RegisterInvalid ==
    /\ AtLogin
    /\ root' = "form"
    /\ UNCHANGED <<running, modal, dialog, hud, timers, announced, auth, stores, fs,
                   servers, counters>>

\* REGISTER with valid fields.  The keychain and the profile are written at once,
\* before FIRAuth has answered.
Register(p) ==
    /\ AtLogin /\ presses < MaxPresses
    /\ presses' = presses + 1
    /\ calls' = calls \cup {[id |-> presses', kind |-> "create", user |-> EmailUser(p),
                             from |-> "login", state |-> "sent", launch |-> launch]}
    /\ keychain' = EmailUser(p)
    /\ SaveUser(EmailUser(p))
    /\ root' = "form"
    /\ UNCHANGED <<running, modal, dialog, hud, announced, currentUser, graph, notices,
                   savedUser, fbToken, fsUser, outbox, acked, servers, reports, launch>>

\* REGISTER with a telephone number that isNumber accepts and Int() does not
\* (too long, or digits of another script): Int(..)! traps.
RegisterCrash ==
    /\ AtLogin
    /\ Halt
    /\ UNCHANGED <<stores, outbox, servers, counters>>

OpenSignIn ==
    /\ AtLogin
    /\ modal' = "signIn"
    /\ hud' = [hud EXCEPT !["signIn"] = "hidden"]
    /\ timers' = timers \ {"signIn"}
    /\ UNCHANGED <<running, root, dialog, announced, auth, stores, fs, servers, counters>>

SignInBack ==
    /\ AtSignIn
    /\ modal' = "none"
    /\ UNCHANGED <<running, root, dialog, hud, timers, announced, auth, stores, fs,
                   servers, counters>>

\* SIGN IN.  The segue's destination is the form itself and not a navigation
\* controller, so the body of prepare(for:) is skipped whatever was typed; the
\* form appears over SignIn, without a navigation bar.
SignIn ==
    /\ AtSignIn
    /\ modal' = "bareForm"
    /\ UNCHANGED <<running, root, dialog, hud, timers, announced, auth, stores, fs,
                   servers, counters>>

PressFacebook(c) ==
    /\ IF c = "login" THEN AtLogin ELSE AtSignIn
    /\ presses < MaxPresses
    /\ presses' = presses + 1
    /\ hud' = [hud EXCEPT ![c] = "shown"]
    /\ dialog' = c
    /\ UNCHANGED <<running, root, modal, timers, announced, auth, stores, fs, servers,
                   written, reports, launch>>

\* With a token in hand the login handler starts two requests side by side.
SendCredential(p) ==
    /\ calls' = calls \cup {[id |-> presses, kind |-> "credential", user |-> FacebookUser(p),
                             from |-> dialog, state |-> "sent", launch |-> launch]}
    /\ graph' = graph \cup {[id |-> presses, who |-> p, from |-> dialog]}
    /\ UNCHANGED timers

\* Mutant of FacebookRefused: the error does not dismiss the window.
FacebookRefusedSilently ==
    /\ running /\ dialog # "none"
    /\ dialog' = "none"
    /\ UNCHANGED <<running, root, modal, hud, timers, announced, auth, stores, fs, servers,
                   counters>>

\* The dialog ends with an error, or (LoginController only) is cancelled.
FacebookRefused ==
    /\ running /\ dialog # "none"
    /\ dialog' = "none"
    /\ timers' = timers \cup {dialog}
    /\ UNCHANGED <<running, root, modal, hud, announced, auth, stores, fs, servers, counters>>

\* It ends without a new token and without an error: every permission declined, or
\* cancelled under SignInController, which does not ask.  A token cached from an
\* earlier login is used; with none the handler returns and leaves its window up.
FacebookWithoutToken ==
    /\ running /\ dialog # "none"
    /\ dialog' = "none"
    /\ \/ /\ fbToken = NoOne
          /\ UNCHANGED <<calls, graph, timers>>
       \/ /\ fbToken # NoOne
          /\ SendCredential(fbToken)
    /\ UNCHANGED <<running, root, modal, hud, announced, currentUser, notices, stores, fs,
                   servers, counters>>

\* It ends with a token of p's.  The login manager refuses a token of another
\* user while one is cached (FacebookRefused).
FacebookGranted(p) ==
    /\ running /\ dialog # "none"
    /\ fbToken \in {NoOne, p}
    /\ fbToken' = p
    /\ dialog' = "none"
    /\ SendCredential(p)
    /\ UNCHANGED <<running, root, modal, hud, announced, currentUser, notices, savedUser,
                   keychain, fs, servers, counters>>

\* dismiss(afterDelay:) comes due.
TimerFires(c) ==
    /\ running /\ c \in timers
    /\ timers' = timers \ {c}
    /\ hud' = [hud EXCEPT ![c] = "hidden"]
    /\ UNCHANGED <<running, root, modal, dialog, announced, auth, stores, fs, servers, counters>>

----------------------------------------------------------------------------
(* The identity server, FIRAuth's work queue and its callbacks.            *)

\* A request of an earlier launch has nobody left to hear the answer.
Answered(c, s) ==
    (calls \ {c}) \cup IF c.launch = launch /\ running THEN {[c EXCEPT !.state = s]} ELSE {}

ServerAccepts(c) ==
    /\ c.state = "sent"
    /\ c.kind = "create" => c.user \notin accounts
    /\ accounts' = accounts \cup {c.user}
    /\ calls' = Answered(c, "ok")
    /\ UNCHANGED <<ui, currentUser, graph, notices, stores, fs, profiles, filed, rejected,
                   counters>>

\* Refused, or the answer was lost on the way back from a server that did the work.
ServerFails(c) ==
    /\ c.state = "sent"
    /\ accounts' \in {accounts, accounts \cup {c.user}}
    /\ calls' = Answered(c, "error")
    /\ UNCHANGED <<ui, currentUser, graph, notices, stores, fs, profiles, filed, rejected,
                   counters>>

\* Mutant of AuthApplies: the user is set as soon as the request is sent.
AuthAppliesAtOnce(c) ==
    /\ running /\ c.state \in {"sent", "ok"}
    /\ calls' = calls \ {c}
    /\ currentUser' = c.user /\ savedUser' = c.user
    /\ notices' = Append(notices, c.user)
    /\ UNCHANGED <<ui, graph, fbToken, keychain, fs, servers, counters>>

\* On the work queue: the user is saved, set, and announced to the main queue.
\* Neither controller does anything in its callback on success.
AuthApplies(c) ==
    /\ running /\ c.state = "ok"
    /\ calls' = calls \ {c}
    /\ currentUser' = c.user /\ savedUser' = c.user
    /\ notices' = Append(notices, c.user)
    /\ UNCHANGED <<ui, graph, fbToken, keychain, fs, servers, counters>>

\* The callback with an error: the window goes after three seconds.  The callback of
\* createUser ignores it.
AuthFails(c) ==
    /\ running /\ c.state = "error"
    /\ calls' = calls \ {c}
    /\ timers' = IF c.kind = "credential" THEN timers \cup {c.from} ELSE timers
    /\ UNCHANGED <<running, root, modal, dialog, hud, announced, currentUser, graph, notices,
                   stores, fs, servers, counters>>

\* Firestore asks for a token when a stream starts, and from then on FIRAuth renews it of
\* its own accord.  A server that refuses the renewal (no such account any more, disabled,
\* token revoked or expired) ends with the user signed out by force: he leaves the memory
\* even when the keychain does not let him go.
SignedOutByForce ==
    /\ running /\ fsUser # Offline /\ currentUser # Nobody
    /\ currentUser' = Nobody
    /\ savedUser' \in {Nobody, savedUser}
    /\ notices' = Append(notices, Nobody)
    /\ UNCHANGED <<ui, calls, graph, fbToken, keychain, fs, servers, counters>>

\* /me answers LoginController's handler.  The push finds no navigation controller
\* once the form has made itself the only member of the stack; the rest happens.
GraphRepliesLogin(g) ==
    /\ running /\ g.from = "login"
    /\ graph' = graph \ {g}
    /\ SaveUser(FacebookUser(g.who))
    /\ keychain' = FacebookUser(g.who)
    /\ root' = "form"
    /\ UNCHANGED <<running, modal, dialog, hud, announced, currentUser, calls, notices,
                   savedUser, fbToken, fsUser, outbox, acked, servers, presses, reports,
                   launch>>

\* /me fails (result! traps), or answers SignInController's handler, which asks the
\* storyboard for an identifier it does not have before it saves anything.
GraphCrash(g) ==
    /\ running
    /\ Halt
    /\ UNCHANGED <<stores, outbox, servers, counters>>

\* Mutant of DeliverNotice: the provider does not tell the client.
DeliverNoticeToProviderOnly ==
    /\ running /\ notices # <<>>
    /\ notices' = Tail(notices)
    /\ provider' = IF provider # Offline THEN Head(notices) ELSE provider
    /\ UNCHANGED <<ui, currentUser, calls, graph, stores, client, jobs, fsUser, outbox, acked,
                   servers, counters>>

\* The main queue delivers a user change to the credentials provider, if there is
\* one, and through it to the client, if there is one.
DeliverNotice ==
    /\ running /\ notices # <<>>
    /\ notices' = Tail(notices)
    /\ LET u == Head(notices)
           heard == provider # Offline /\ u # provider
       IN  /\ provider' = IF heard THEN u ELSE provider
           /\ jobs' = IF heard /\ client THEN Append(jobs, [op |-> "user", user |-> u]) ELSE jobs
    /\ UNCHANGED <<ui, currentUser, calls, graph, stores, client, fsUser, outbox, acked,
                   servers, counters>>

----------------------------------------------------------------------------
(* FormTableController: Submit on a form whose photo, address and          *)
(* description are there (ReportForm has the rest of the form).            *)

\* No identity in the keychain: prepare(for:) returns, the popup comes up anyway.
SubmitUnsaved ==
    /\ AtForm /\ reports < MaxReports /\ keychain = Nobody
    /\ reports' = reports + 1
    /\ modal' = "popup" /\ announced' = 0
    /\ UNCHANGED <<running, root, dialog, hud, timers, auth, stores, fs, servers,
                   presses, written, launch>>

\* selectedCategory! with the picker untouched, or uid! with nobody signed in.
SubmitCrash(chosen) ==
    /\ AtForm /\ keychain # Nobody
    /\ ~chosen \/ currentUser = Nobody
    /\ Halt
    /\ UNCHANGED <<stores, outbox, servers, counters>>

Submit ==
    /\ AtForm /\ reports < MaxReports /\ keychain # Nobody /\ currentUser # Nobody
    /\ reports' = reports + 1
    /\ Enqueue("form", keychain)
    /\ modal' = "popup" /\ announced' = written'
    /\ UNCHANGED <<running, root, dialog, hud, timers, auth, stores, fsUser, outbox, acked,
                   servers, presses, launch>>

ClosePopup ==
    /\ running /\ modal = "popup"
    /\ modal' = "none" /\ announced' = 0
    /\ UNCHANGED <<running, root, dialog, hud, timers, auth, stores, fs, servers, counters>>

----------------------------------------------------------------------------
(* Firestore's worker queue and its write stream.                          *)

\* Mutant of RunUserJob: the streams are not restarted.
RunUserJobKeepingStreams ==
    /\ running /\ jobs # <<>> /\ Head(jobs).op = "user"
    /\ jobs' = Tail(jobs)
    /\ fsUser' = Head(jobs).user
    /\ UNCHANGED <<ui, auth, stores, provider, client, outbox, acked, servers, counters>>

\* Mutant of RunUserJob: the mutation queue of the user who leaves is thrown away.
RunUserJobDroppingQueue ==
    /\ running /\ jobs # <<>> /\ Head(jobs).op = "user"
    /\ jobs' = Tail(jobs)
    /\ fsUser' = Head(jobs).user
    /\ acked' = FALSE
    /\ outbox' = [u \in MaybeUser |-> IF u = fsUser THEN <<>> ELSE outbox[u]]
    /\ UNCHANGED <<ui, auth, stores, provider, client, servers, counters>>

\* A user change swaps the mutation queue and restarts the streams, so an answer
\* still under way is never taken for one to the new queue's head.
RunUserJob ==
    /\ running /\ jobs # <<>> /\ Head(jobs).op = "user"
    /\ jobs' = Tail(jobs)
    /\ fsUser' = Head(jobs).user
    /\ acked' = FALSE
    /\ UNCHANGED <<ui, auth, stores, provider, client, outbox, servers, counters>>

\* Mutant of RunWriteJob: a write for another user than the queue's is dropped.
RunWriteJobOfOwner ==
    /\ running /\ jobs # <<>> /\ Head(jobs).op = "write"
    /\ jobs' = Tail(jobs)
    /\ outbox' = IF Head(jobs).write.owner = fsUser
                 THEN [outbox EXCEPT ![fsUser] = Append(@, Head(jobs).write)]
                 ELSE outbox
    /\ UNCHANGED <<ui, auth, stores, provider, client, fsUser, acked, servers, counters>>

\* Mutant of RunWriteJob: a write overtakes those already on disk.
RunWriteJobInFront ==
    /\ running /\ jobs # <<>> /\ Head(jobs).op = "write"
    /\ jobs' = Tail(jobs)
    /\ outbox' = [outbox EXCEPT ![fsUser] = <<Head(jobs).write>> \o @]
    /\ UNCHANGED <<ui, auth, stores, provider, client, fsUser, acked, servers, counters>>

\* A write is appended, on disk, to the queue that is open now.
RunWriteJob ==
    /\ running /\ jobs # <<>> /\ Head(jobs).op = "write"
    /\ jobs' = Tail(jobs)
    /\ outbox' = [outbox EXCEPT ![fsUser] = Append(@, Head(jobs).write)]
    /\ UNCHANGED <<ui, auth, stores, provider, client, fsUser, acked, servers, counters>>

Sending == running /\ fsUser # Offline /\ outbox[fsUser] # <<>> /\ ~acked

\* Mutant of ServerCommits: the server names the documents.
ServerCommitsNaming ==
    /\ Sending
    /\ LET w == Head(outbox[fsUser])
       IN  \/ /\ w.kind = "profile"
              /\ profiles' = [profiles EXCEPT ![w.owner] = w.data]
              /\ UNCHANGED filed
           \/ /\ w.kind = "form"
              /\ filed' = filed \cup {[w EXCEPT !.id = Cardinality(filed) + 1]}
              /\ UNCHANGED profiles
    /\ acked' = TRUE
    /\ UNCHANGED <<ui, auth, stores, provider, client, jobs, fsUser, outbox, accounts,
                   rejected, counters>>

\* The server commits the head of the open queue.  It may do so again after a crash
\* or a user change: the document's name was chosen by the client.
ServerCommits ==
    /\ Sending
    /\ LET w == Head(outbox[fsUser])
       IN  \/ /\ w.kind = "profile"
              /\ profiles' = [profiles EXCEPT ![w.owner] = w.data]
              /\ UNCHANGED filed
           \/ /\ w.kind = "form"
              /\ filed' = filed \cup {w}
              /\ UNCHANGED profiles
    /\ acked' = TRUE
    /\ UNCHANGED <<ui, auth, stores, provider, client, jobs, fsUser, outbox, accounts,
                   rejected, counters>>

\* The database's rules, which the repository does not hold, may refuse any write.
ServerRejects ==
    /\ Sending
    /\ rejected' = rejected \cup {Head(outbox[fsUser]).id}
    /\ acked' = TRUE
    /\ UNCHANGED <<ui, auth, stores, provider, client, jobs, fsUser, outbox, accounts,
                   profiles, filed, counters>>

\* Mutant of TakeAnswer: a refused write stays in the queue.
TakeAnswerKeepingRefused ==
    /\ running /\ acked
    /\ acked' = FALSE
    /\ outbox' = IF Head(outbox[fsUser]).id \in rejected
                 THEN outbox
                 ELSE [outbox EXCEPT ![fsUser] = Tail(@)]
    /\ UNCHANGED <<ui, auth, stores, provider, client, jobs, fsUser, servers, counters>>

\* The answer is back: the head leaves the queue on disk.
TakeAnswer ==
    /\ running /\ acked
    /\ acked' = FALSE
    /\ outbox' = [outbox EXCEPT ![fsUser] = Tail(@)]
    /\ UNCHANGED <<ui, auth, stores, provider, client, jobs, fsUser, servers, counters>>

----------------------------------------------------------------------------
Taps ==
    \/ RegisterInvalid \/ RegisterCrash \/ OpenSignIn \/ SignInBack \/ SignIn
    \/ \E p \in Persons : Register(p)
    \/ \E c \in Controllers : PressFacebook(c)
    \/ SubmitUnsaved \/ Submit \/ ClosePopup
    \/ \E chosen \in BOOLEAN : SubmitCrash(chosen)

FacebookEnds ==
    \/ FacebookRefused \/ FacebookWithoutToken
    \/ \E p \in Persons : FacebookGranted(p)

AuthSteps ==
    \E c \in calls : ServerAccepts(c) \/ ServerFails(c) \/ AuthApplies(c) \/ AuthFails(c)

GraphSteps ==
    \E g \in graph : GraphRepliesLogin(g) \/ GraphCrash(g)

FirestoreSteps ==
    RunUserJob \/ RunWriteJob \/ ServerCommits \/ ServerRejects \/ TakeAnswer

Next ==
    \/ Kill \/ Launch
    \/ Taps
    \/ FacebookEnds
    \/ \E c \in Controllers : TimerFires(c)
    \/ AuthSteps \/ SignedOutByForce \/ GraphSteps \/ DeliverNotice
    \/ FirestoreSteps

Spec == Init /\ [][Next]_vars

----------------------------------------------------------------------------
(* Fairness: the main queue, the two work queues and the timers are served *)
(* by the system; the network answers in the end (FIRAuth, Facebook and    *)
(* Firestore all turn a time-out into an answer or a retry); an open       *)
(* Facebook dialog is left in the end.  Taps, kills, launches and forced   *)
(* sign-outs are not fair.                                                 *)

Fairness ==
    /\ WF_vars(DeliverNotice)
    /\ WF_vars(RunUserJob) /\ WF_vars(RunWriteJob)
    /\ WF_vars(ServerCommits \/ ServerRejects) /\ WF_vars(TakeAnswer)
    /\ WF_vars(AuthSteps) /\ WF_vars(GraphSteps)
    /\ WF_vars(FacebookEnds)
    /\ \A c \in Controllers : WF_vars(TimerFires(c))

FairSpec == Spec /\ Fairness

----------------------------------------------------------------------------
(* Properties.                                                             *)

\* The server has refused w, has it among the reports, or holds it as the profile.
Settled(w) ==
    \/ w.id \in rejected
    \/ w.kind = "form" /\ w \in filed
    \/ w.kind = "profile" /\ profiles[w.owner] = w.data

\* FIRAuth's user, the one a launch will load, and every user it is about to set, has been
\* given an account: accounts are only ever followed, never anticipated (FIRAuth.m:1700-1725).
UserHasAccount ==
    /\ {currentUser, savedUser} \subseteq accounts \cup {Nobody}
    /\ \A c \in calls : c.state = "ok" => c.user \in accounts

\* A profile or a report is only ever addressed to an account the identity server
\* has created, wherever the document is: FIRAuth's user runs behind the server,
\* Firestore's behind FIRAuth's, registration writes before it is answered, a restart
\* brings the user back from disk and a refused token takes him away in the middle of
\* it all (LoginController:116, FormTable:129).
WritesHaveAccounts ==
    /\ UserHasAccount
    /\ \A i \in 1 .. Len(jobs) : jobs[i].op = "write" => jobs[i].write.owner \in accounts
    /\ \A u \in MaybeUser : \A i \in 1 .. Len(outbox[u]) : outbox[u][i].owner \in accounts
    /\ \A u \in Users : profiles[u] # Nobody => u \in accounts
    /\ \A w \in filed : w.owner \in accounts

\* The last user change still in the main queue, else the user that the credentials
\* provider holds, is FIRAuth's user.
ProviderFollowsAuth ==
    /\ notices # <<>> => notices[Len(notices)] = currentUser
    /\ notices = <<>> /\ provider # Offline => provider = currentUser
\* The queue that the last write of the worker queue, or the next one, is put into is u's:
\* the last user job opens it, or it is open and no user job is waiting.
QueueLeadsTo(u) ==
    \/ /\ fsUser = u
       /\ \A i \in 1 .. Len(jobs) : jobs[i].op = "write"
    \/ \E i \in 1 .. Len(jobs) :
          /\ jobs[i].op = "user" /\ jobs[i].user = u
          /\ \A j \in i + 1 .. Len(jobs) : jobs[j].op = "write"
\* That queue is the provider's user's.
WorkerFollowsProvider == client => QueueLeadsTo(provider)
\* Firestore is never stuck with a user that FIRAuth has left: however sign-ins, forced
\* sign-outs and first uses of Firestore interleave on the three queues, FIRAuth's user is
\* on its way to the open mutation queue (firebase_credentials_provider_apple.mm:36-74).
FirestoreFollowsAuth == ProviderFollowsAuth /\ WorkerFollowsProvider

\* An answer is taken only for the write it was given to: while one is under way the
\* head of the open queue is a write the server has stored or refused.  A user change
\* or a crash between the commit and the answer must not let it remove another write.
AnswerIsForHead ==
    acked => /\ fsUser # Offline /\ outbox[fsUser] # <<>>
             /\ Settled(Head(outbox[fsUser]))

\* While the popup announces a report that was written, that report is queued, stored
\* or refused: none of the steps behind the popup loses it (FormTable:136).
AnnouncedReportExists ==
    modal = "popup" /\ announced # 0 =>
        \/ announced \in rejected
        \/ \E w \in filed : w.id = announced
        \/ \E i \in 1 .. Len(jobs) : jobs[i].op = "write" /\ jobs[i].write.id = announced
        \/ \E u \in MaybeUser : \E i \in 1 .. Len(outbox[u]) : outbox[u][i].id = announced

\* There are never more reports in the database than presses of Submit: a report that is
\* committed again, after a crash or a user change took the answer away, is the same
\* document, and two queues never hold the same report (FormTable:136).
NoReportTwice == Cardinality(filed) <= reports

\* With a token cached, a progress window that is up over the login screens always has
\* something under way that takes it away: the Facebook dialog, a delayed dismissal or a
\* /me request of the same controller (LoginController:66-110, SignInController:66-106).
ProgressWindowHasAnEnd ==
    running /\ root = "login" /\ fbToken # NoOne =>
        \A c \in Controllers : hud[c] = "shown" =>
            dialog = c \/ c \in timers \/ \E g \in graph : g.from = c

\* A write that is entered while no user change is under way on the main queue is put into
\* the queue of the account it is addressed to, and so is sent with that account's token:
\* the address is read from FIRAuth, the queue is the worker's, and restarts, sign-ins,
\* forced sign-outs and the first use of Firestore must leave them agreed (LoginController:116,
\* FormTable:129).
EntersOwnQueue ==
    [][written' # written /\ notices = <<>> =>
         (QueueLeadsTo(jobs[Len(jobs)].write.owner))']_vars

\* A write that reached a queue on disk leaves it only when the server has stored or
\* refused it, whatever user changes, crashes and launches come between.
NoQueuedWriteForgotten ==
    [][\A u \in MaybeUser : \A i \in 1 .. Len(outbox[u]) :
         LET w == outbox[u][i]
         IN  \/ \E j \in 1 .. Len(outbox'[u]) : outbox'[u][j] = w
             \/ w.id \in rejected'
             \/ w.kind = "form" /\ w \in filed'
             \/ w.kind = "profile" /\ profiles'[w.owner] = w.data]_vars

\* The writes in the worker queue, and those on disk, whoever's queue they are in.
WritesIn(q) == {q[i].write : i \in {j \in 1 .. Len(q) : q[j].op = "write"}}
WaitingWrites == WritesIn(jobs)
ElementsOf(q) == {q[i] : i \in 1 .. Len(q)}
KeptWrites == UNION {ElementsOf(outbox[u]) : u \in MaybeUser}

\* The writes reach the disk in the order in which they were entered, and none twice:
\* the worker queue holds them in that order behind all that is on disk, and so does
\* every user's queue, however the users and launches alternate (LoginController:122,
\* FormTable:136).
QueuesInOrder ==
    /\ \A i, k \in 1 .. Len(jobs) :
          jobs[i].op = "write" /\ jobs[k].op = "write" /\ i < k =>
              jobs[i].write.id < jobs[k].write.id
    /\ \A u \in MaybeUser : \A i, k \in 1 .. Len(outbox[u]) :
          i < k => outbox[u][i].id < outbox[u][k].id
    /\ \A w \in WaitingWrites, x \in KeptWrites : x.id < w.id

Promise == INSTANCE Ledger WITH
    Accounts <- Users, NoProfile <- Nobody,
    waiting <- WaitingWrites, kept <- KeptWrites, handed <- written,
    stored <- filed, profile <- profiles, refused <- rejected

\* Session keeps the promise of Ledger: through every interleaving of sign-ins, queue
\* changes, answers and crashes each write goes from memory to disk to the server's
\* decision, one at a time, and only a crash loses those that are not on disk yet.
KeepsPromise == Promise!Spec

\* Once the sign-ins stop, the queue that is open is the one of FIRAuth's user, or
\* nobody's when he has been signed out.
FirestoreCatchesUp == <>[](client => fsUser = currentUser)

\* A queue that stays open is emptied: every write in it is stored or refused.
OpenQueueDrains ==
    \A u \in MaybeUser :
        (fsUser = u /\ outbox[u] # <<>>) ~> (outbox[u] = <<>> \/ fsUser # u)

\* With a token cached, a Facebook login never leaves the user behind the progress
\* window: it goes away, the form comes up, or the process dies.
ProgressWindowEnds ==
    \A c \in Controllers :
        (dialog = c /\ fbToken # NoOne) ~> (hud[c] = "hidden" \/ root = "form" \/ ~running)

----------------------------------------------------------------------------
(* What comments and texts of the program say, and the code does not do.   *)

\* "registering the user into Firestore" (LoginController:146): once the account
\* that REGISTER asked for is the signed-in one, its profile has been written.
RegisteredUserIsStored ==
    running /\ currentUser # Nobody /\ currentUser.via = "email" =>
        \/ profiles[currentUser] # Nobody
        \/ \E i \in 1 .. Len(jobs) :
              /\ jobs[i].op = "write" /\ jobs[i].write.kind = "profile"
              /\ jobs[i].write.owner = currentUser
        \/ \E u \in MaybeUser : \E i \in 1 .. Len(outbox[u]) :
              outbox[u][i].kind = "profile" /\ outbox[u][i].owner = currentUser

\* "storing user info into firestore" (LoginController:113): what is stored under an
\* account is that account's own identity.
ProfileIsOwn == \A u \in Users : profiles[u] \in {Nobody, u}

\* "Your submission was successful !" (Main.storyboard:305): the popup is only shown
\* for a report that was written.
SuccessMeansWritten == modal = "popup" => announced # 0
=============================================================================
