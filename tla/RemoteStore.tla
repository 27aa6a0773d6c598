---------------------------- MODULE RemoteStore ----------------------------
(***************************************************************************)
(* Firestore's upload of writes: the mutation queue of each user           *)
(* (FSTLevelDBMutationQueue, on disk), the pipeline of the writes under    *)
(* way (FSTRemoteStore) and the stream they are sent on (FSTWriteStream).  *)
(* Everything here runs on Firestore's worker queue, one callback at a     *)
(* time; the server, the network, the timers and the kills are what can    *)
(* come in between.                                                        *)
(*                                                                         *)
(* A write is known by its number, in the order of all writes; its batch   *)
(* ID is what the code gives it, and IDs are given again once a queue is   *)
(* empty.  Only the numbers travel: 0 is the handshake.  The delay of the  *)
(* backoff and the stream token are left out.                              *)
(***************************************************************************)
EXTENDS Integers, Sequences

CONSTANTS
    Users,
    kMaxPendingWrites,    \* FSTRemoteStore:54
    MaxWrites,            \* bound on the writes that are made
    MaxFaults,            \* bound on broken streams and refused handshakes and tokens
    MaxRestarts           \* bound on changes of the user and relaunches

ASSUME PipelineAssumption == kMaxPendingWrites \in Nat \ {0}
ASSUME BoundsAssumption == MaxWrites \in Nat /\ MaxFaults \in Nat /\ MaxRestarts \in Nat

VARIABLES
    user,                 \* whose queue is open
    queue,                \* each user's batches on disk, a sequence of [id, no]
    lastAcknowledged,     \* each user's highest acknowledged batch ID, on disk
    nextBatchID,
    owner,                \* who made each write
    pendingWrites,        \* the batches in the pipeline
    lastBatchSeen,        \* ID of the last batch put there
    state,                \* of the write stream; its delegate is set in Auth and Open
    handshakeComplete,
    idle,                 \* is the idle timer running?
    requests,             \* sent and not yet read by the server
    answers,              \* sent by the server and not yet read
    closing,              \* how the server or the network ended the call, if so
    stray,                \* what was sent on calls that the phone has given up
    committed,            \* the writes that the server has stored
    refused,              \* and refused for good
    faults, restarts      \* what the bounds count

disk == <<queue, lastAcknowledged>>
pipeline == <<pendingWrites, lastBatchSeen>>
stream == <<state, handshakeComplete, idle>>
call == <<requests, answers, closing>>
server == <<stray, committed, refused>>
vars == <<user, disk, nextBatchID, owner, pipeline, stream, call, server, faults, restarts>>

Unknown == -1             \* kFSTBatchIDUnknown
Handshake == 0
Batch == [id : Nat, no : Nat \ {0}]
IDs(q) == {q[i].id : i \in DOMAIN q}
Numbers(q) == [i \in DOMAIN q |-> q[i].no]
Settled == committed \cup refused

TypeOK ==
    /\ user \in Users
    /\ queue \in [Users -> Seq(Batch)]
    /\ lastAcknowledged \in [Users -> Nat \cup {Unknown}]
    /\ nextBatchID \in Nat
    /\ owner \in Seq(Users)
    /\ pendingWrites \in Seq(Batch) /\ Len(pendingWrites) <= kMaxPendingWrites
    /\ lastBatchSeen \in Nat \cup {Unknown}
    /\ state \in {"Initial", "Auth", "Open", "Error", "Backoff"}
    /\ handshakeComplete \in BOOLEAN /\ idle \in BOOLEAN
    /\ requests \in Seq(Nat) /\ answers \in Seq(Nat)
    /\ closing \in {"no", "transient", "permanent"}
    /\ stray \subseteq Seq(Nat)
    /\ committed \subseteq Nat \ {0} /\ refused \subseteq Nat \ {0}
    /\ faults \in Nat /\ restarts \in Nat

Init ==
    /\ user \in Users
    /\ queue = [u \in Users |-> <<>>]
    /\ lastAcknowledged = [u \in Users |-> Unknown]
    /\ nextBatchID = 0 /\ owner = <<>>
    /\ pendingWrites = <<>> /\ lastBatchSeen = Unknown
    /\ state = "Initial" /\ handshakeComplete = FALSE /\ idle = FALSE
    /\ requests = <<>> /\ answers = <<>> /\ closing = "no"
    /\ stray = {} /\ committed = {} /\ refused = {}
    /\ faults = 0 /\ restarts = 0
-----------------------------------------------------------------------------
(* The mutation queue and the pipeline *)

Highest(a, b) == IF a >= b THEN a ELSE b
Least(a, b) == IF a <= b THEN a ELSE b

\* How many batches of q have an ID up to id; q is in the order of the IDs.
UpTo(q, id) == CHOOSE n \in 0..Len(q) : \A i \in 1..Len(q) : i <= n <=> q[i].id <= id

\* q without the batch of this ID.
Without(q, id) ==
    LET i == CHOOSE i \in DOMAIN q : q[i].id = id
    IN  SubSeq(q, 1, i - 1) \o SubSeq(q, i + 1, Len(q))

\* Mutant of Following: the room in the pipeline is not looked at.
FollowingAll(q, acknowledged, p, seen) ==
    LET n == UpTo(q, Highest(seen, acknowledged)) IN SubSeq(q, n + 1, Len(q))

\* What fillWritePipeline adds to the pipeline p: the batches after the last one seen and
\* the last one acknowledged, while there is room.
Following(q, acknowledged, p, seen) ==
    LET n == UpTo(q, Highest(seen, acknowledged))
    IN  SubSeq(q, n + 1, Least(Len(q), n + kMaxPendingWrites - Len(p)))

Fill(p, seen, more) ==
    /\ pendingWrites' = p \o more
    /\ lastBatchSeen' = IF more = <<>> THEN seen ELSE more[Len(more)].id

isStarted == state \in {"Auth", "Open", "Backoff"}

\* Mutant of Rested: the next call begins with the handshake of the last one.
RestedKeepingHandshake(p, st) ==
    /\ state' = IF p = <<>> THEN st ELSE IF st = "Error" THEN "Backoff" ELSE "Auth"
    /\ UNCHANGED handshakeComplete

\* Mutant of Rested: a stream in error waits for the next write.
RestedInError(p, st) ==
    IF p = <<>> \/ st = "Error" THEN state' = st /\ UNCHANGED handshakeComplete
                                ELSE state' = "Auth" /\ handshakeComplete' = FALSE

\* The stream of the pipeline p after it came to rest in the state st: started again if
\* there is something to send, after a delay if it was in error.
Rested(p, st) ==
    \/ /\ p = <<>>
       /\ state' = st
       /\ UNCHANGED handshakeComplete
    \/ /\ p # <<>>
       /\ state' = IF st = "Error" THEN "Backoff" ELSE "Auth"
       /\ handshakeComplete' = FALSE

\* The stream lets go of its call; its callbacks are suppressed.
LetGo == requests' = <<>> /\ answers' = <<>> /\ closing' = "no" /\ idle' = FALSE

\* What was sent on it may still arrive.
Astray == stray' = IF requests = <<>> THEN stray ELSE stray \cup {requests}

\* The requests after sending more; nobody reads them once the call has ended.
Sent(more) == IF closing = "no" THEN requests \o Numbers(more) ELSE requests

\* The app makes a write: a batch of the open queue, and the pipeline is filled.
WriteMutations ==
    LET batch == [id |-> nextBatchID, no |-> Len(owner) + 1]
        q     == Append(queue[user], batch)
        more  == Following(q, lastAcknowledged[user], pendingWrites, lastBatchSeen)
    IN  /\ Len(owner) < MaxWrites
        /\ queue' = [queue EXCEPT ![user] = q]
        /\ nextBatchID' = nextBatchID + 1
        /\ owner' = Append(owner, user)
        /\ Fill(pendingWrites, lastBatchSeen, more)
        /\ \/ /\ more # <<>> /\ ~isStarted
              /\ Rested(more, state)
              /\ UNCHANGED <<requests, idle>>
           \/ /\ more # <<>> /\ isStarted /\ handshakeComplete
              /\ requests' = Sent(more) /\ idle' = FALSE
              /\ UNCHANGED <<state, handshakeComplete>>
           \/ /\ more = <<>> \/ (isStarted /\ ~handshakeComplete)
              /\ UNCHANGED <<requests, stream>>
        /\ UNCHANGED <<user, lastAcknowledged, answers, closing, server, faults, restarts>>
-----------------------------------------------------------------------------
(* The stream *)

\* resumeStartWithToken: with a token the call begins, and the handshake is sent.
TokenArrives ==
    /\ state = "Auth"
    /\ state' = "Open"
    /\ requests' = <<Handshake>>
    /\ UNCHANGED <<user, disk, nextBatchID, owner, pipeline, handshakeComplete, idle, answers,
                   closing, server, faults, restarts>>

TokenFails ==
    /\ state = "Auth" /\ faults < MaxFaults
    /\ faults' = faults + 1
    /\ Rested(pendingWrites, "Error")
    /\ UNCHANGED <<user, disk, nextBatchID, owner, pipeline, idle, call, server, restarts>>

\* resumeStartFromBackoffWithDelegate
BackoffEnds ==
    /\ state = "Backoff"
    /\ state' = "Auth" /\ handshakeComplete' = FALSE
    /\ UNCHANGED <<user, disk, nextBatchID, owner, pipeline, idle, call, server, faults, restarts>>

\* Mutant of HandshakeAnswered: only the first write of the pipeline is sent.
HandshakeAnsweredSendingFirst ==
    /\ answers # <<>> /\ ~handshakeComplete
    /\ answers' = Tail(answers)
    /\ handshakeComplete' = TRUE
    /\ requests' = Sent(SubSeq(pendingWrites, 1, Least(1, Len(pendingWrites))))
    /\ idle' = (idle /\ pendingWrites = <<>>)
    /\ UNCHANGED <<user, disk, nextBatchID, owner, pipeline, state, closing, server, faults,
                   restarts>>

\* The first response on a call is the answer to the handshake: everything in the pipeline
\* is sent.
HandshakeAnswered ==
    /\ answers # <<>> /\ ~handshakeComplete
    /\ answers' = Tail(answers)
    /\ handshakeComplete' = TRUE
    /\ requests' = Sent(pendingWrites)
    /\ idle' = (idle /\ pendingWrites = <<>>)
    /\ UNCHANGED <<user, disk, nextBatchID, owner, pipeline, state, closing, server, faults,
                   restarts>>

\* Any other answers the first write of the pipeline, which is acknowledged and removed; the
\* pipeline is filled.  If it stays empty the stream is idle.
WriteAnswered ==
    LET batch == Head(pendingWrites)
        rest  == Tail(pendingWrites)
        q     == Without(queue[user], batch.id)
        more  == Following(q, batch.id, rest, lastBatchSeen)
    IN  /\ answers # <<>> /\ handshakeComplete
        /\ answers' = Tail(answers)
        /\ lastAcknowledged' = [lastAcknowledged EXCEPT ![user] = batch.id]
        /\ queue' = [queue EXCEPT ![user] = q]
        /\ Fill(rest, lastBatchSeen, more)
        /\ requests' = Sent(more)
        /\ idle' = (more = <<>> /\ (idle \/ rest = <<>>))
        /\ UNCHANGED <<user, nextBatchID, owner, state, handshakeComplete, closing, server, faults,
                       restarts>>

\* Mutant of WriteRejected: transient errors are taken for permanent ones.
WriteRejectedOnAnyError ==
    LET batch == Head(pendingWrites)
        rest  == Tail(pendingWrites)
        q     == Without(queue[user], batch.id)
        more  == Following(q, lastAcknowledged[user], rest, lastBatchSeen)
    IN  /\ answers = <<>> /\ closing # "no" /\ handshakeComplete /\ pendingWrites # <<>>
        /\ queue' = [queue EXCEPT ![user] = q]
        /\ Fill(rest, lastBatchSeen, more)
        /\ Rested(rest \o more, "Initial") /\ LetGo
        /\ UNCHANGED <<user, lastAcknowledged, nextBatchID, owner, server, faults, restarts>>

\* handleWriteError: a permanent error after the handshake is about the first write of the
\* pipeline, which is rejected; the stream starts again at once.
WriteRejected ==
    LET batch == Head(pendingWrites)
        rest  == Tail(pendingWrites)
        q     == Without(queue[user], batch.id)
        more  == Following(q, lastAcknowledged[user], rest, lastBatchSeen)
    IN  /\ answers = <<>> /\ closing = "permanent" /\ handshakeComplete /\ pendingWrites # <<>>
        /\ queue' = [queue EXCEPT ![user] = q]
        /\ Fill(rest, lastBatchSeen, more)
        /\ Rested(rest \o more, "Initial") /\ LetGo
        /\ UNCHANGED <<user, lastAcknowledged, nextBatchID, owner, server, faults, restarts>>

\* handleStreamClose with any other error: the pipeline stays as it is.
StreamFails ==
    /\ answers = <<>> /\ closing # "no"
    /\ ~(closing = "permanent" /\ handshakeComplete /\ pendingWrites # <<>>)
    /\ Rested(pendingWrites, "Error") /\ LetGo
    /\ UNCHANGED <<user, disk, nextBatchID, owner, pipeline, server, faults, restarts>>

\* handleIdleCloseTimer; the empty request that tearDown sends changes nothing.
IdleTimeout ==
    /\ idle /\ state = "Open"
    /\ Rested(pendingWrites, "Initial") /\ LetGo /\ Astray
    /\ UNCHANGED <<user, disk, nextBatchID, owner, pipeline, committed, refused, faults, restarts>>
-----------------------------------------------------------------------------
(* Another user, another launch *)

\* loadNextBatchIDFromDB: one more than any ID that is in use.
NextFreeID ==
    LET used == {Unknown} \cup UNION {IDs(queue[u]) : u \in Users}
    IN  1 + CHOOSE m \in used : \A id \in used : id <= m

\* Mutant of Open: cleanUpWriteStreamState keeps lastBatchSeen.
OpenKeepingSeen(v) ==
    LET acknowledged == IF lastAcknowledged[v] >= NextFreeID THEN Unknown ELSE lastAcknowledged[v]
        more == Following(queue[v], acknowledged, <<>>, lastBatchSeen)
    IN  /\ user' = v
        /\ nextBatchID' = NextFreeID
        /\ lastAcknowledged' = [lastAcknowledged EXCEPT ![v] = acknowledged]
        /\ Fill(<<>>, lastBatchSeen, more)
        /\ state' = IF more = <<>> THEN "Initial" ELSE "Auth"
        /\ handshakeComplete' = FALSE
        /\ LetGo /\ Astray
        /\ UNCHANGED <<queue, owner, committed, refused, faults>>

\* startMutationQueue for v, with what is acknowledged dropped, and enableNetwork with new
\* streams.
Open(v) ==
    LET acknowledged == IF lastAcknowledged[v] >= NextFreeID THEN Unknown ELSE lastAcknowledged[v]
        dropped == IF acknowledged = Unknown THEN 0 ELSE UpTo(queue[v], acknowledged)
        q    == SubSeq(queue[v], dropped + 1, Len(queue[v]))
        more == Following(q, acknowledged, <<>>, Unknown)
    IN  /\ user' = v
        /\ nextBatchID' = NextFreeID
        /\ lastAcknowledged' = [lastAcknowledged EXCEPT ![v] = acknowledged]
        /\ queue' = [queue EXCEPT ![v] = q]
        /\ Fill(<<>>, Unknown, more)
        /\ state' = IF more = <<>> THEN "Initial" ELSE "Auth"
        /\ handshakeComplete' = FALSE
        /\ LetGo /\ Astray
        /\ UNCHANGED <<owner, committed, refused, faults>>

\* userDidChange, in the sync engine, the local store and the remote store.
UserChanges(v) ==
    /\ v # user /\ restarts < MaxRestarts
    /\ restarts' = restarts + 1
    /\ Open(v)

\* The process is killed and launched again, with the user that is on disk.
Relaunch ==
    /\ restarts < MaxRestarts
    /\ restarts' = restarts + 1
    /\ Open(user)
-----------------------------------------------------------------------------
(* The server and the network *)

Reads(n) == closing = "no" /\ requests # <<>> /\ Head(requests) = n

HandshakeAccepted ==
    /\ Reads(Handshake)
    /\ requests' = Tail(requests) /\ answers' = Append(answers, Handshake)
    /\ UNCHANGED <<user, disk, nextBatchID, owner, pipeline, stream, closing, server, faults,
                   restarts>>

HandshakeRefused ==
    /\ Reads(Handshake) /\ faults < MaxFaults
    /\ faults' = faults + 1
    /\ requests' = <<>> /\ closing' = "permanent"
    /\ UNCHANGED <<user, disk, nextBatchID, owner, pipeline, stream, answers, server, restarts>>

Commit(n) ==
    /\ n # Handshake /\ Reads(n)
    /\ committed' = committed \cup {n}
    /\ requests' = Tail(requests) /\ answers' = Append(answers, n)
    /\ UNCHANGED <<user, disk, nextBatchID, owner, pipeline, stream, closing, stray, refused, faults,
                   restarts>>

\* A refusal ends the call; what was sent behind it is not read.
Refuse(n) ==
    /\ n # Handshake /\ Reads(n)
    /\ refused' = refused \cup {n}
    /\ requests' = <<>> /\ closing' = "permanent"
    /\ UNCHANGED <<user, disk, nextBatchID, owner, pipeline, stream, answers, stray, committed,
                   faults, restarts>>

\* The call breaks: answers are lost from some point on, and the requests are under way.
CallBreaks ==
    /\ state = "Open" /\ closing # "transient" /\ faults < MaxFaults
    /\ faults' = faults + 1
    /\ \E k \in 0..Len(answers) : answers' = SubSeq(answers, 1, k)
    /\ requests' = <<>> /\ closing' = "transient" /\ Astray
    /\ UNCHANGED <<user, disk, nextBatchID, owner, pipeline, stream, committed, refused, restarts>>

\* The server reads from a call that the phone has given up.
StrayArrives(s) ==
    LET others == stray \ {s}
        left   == IF Tail(s) = <<>> THEN others ELSE others \cup {Tail(s)}
    IN  /\ \/ /\ Head(s) = Handshake
              /\ stray' = left /\ UNCHANGED <<committed, refused>>
           \/ /\ Head(s) # Handshake
              /\ committed' = committed \cup {Head(s)}
              /\ stray' = left /\ UNCHANGED refused
           \/ /\ Head(s) # Handshake
              /\ refused' = refused \cup {Head(s)}
              /\ stray' = others /\ UNCHANGED committed
        /\ UNCHANGED <<user, disk, nextBatchID, owner, pipeline, stream, call, faults, restarts>>

Callback ==
    \/ TokenArrives \/ BackoffEnds
    \/ HandshakeAnswered \/ WriteAnswered \/ WriteRejected \/ StreamFails
Server == HandshakeAccepted \/ \E n \in DOMAIN owner : Commit(n) \/ Refuse(n)

Next ==
    \/ WriteMutations \/ Callback \/ TokenFails \/ IdleTimeout
    \/ (\E v \in Users : UserChanges(v)) \/ Relaunch
    \/ Server \/ HandshakeRefused \/ CallBreaks
    \/ \E s \in stray : StrayArrives(s)

Spec == Init /\ [][Next]_vars

\* The worker queue runs its callbacks, the backoff is at most a minute and the server
\* answers what it reads; broken calls are bounded.
FairSpec == Spec /\ WF_vars(Callback) /\ WF_vars(Server)
-----------------------------------------------------------------------------
(* Properties *)

\* The pipeline is the front of the open queue, as long as there is room: no batch is
\* skipped, held back or sent twice on a call, whatever was removed, refused or reopened
\* before (fillWritePipeline, lastBatchSeen, batch IDs that are given again).
PipelineIsQueueFront ==
    pendingWrites = SubSeq(queue[user], 1, Least(kMaxPendingWrites, Len(queue[user])))

\* What is under way on the call is, in this order, what the pipeline waits for: an answer
\* is for the first write in it, and a refusal too (FSTRemoteStore:523, :589).
CallMatchesPipeline ==
    /\ handshakeComplete /\ isStarted /\ closing = "no" =>
          answers \o requests = Numbers(pendingWrites)
    /\ handshakeComplete /\ closing # "no" =>
          /\ Len(answers) <= Len(pendingWrites)
          /\ answers = SubSeq(Numbers(pendingWrites), 1, Len(answers))
    /\ handshakeComplete /\ closing = "permanent" =>
          /\ Len(answers) < Len(pendingWrites)
          /\ pendingWrites[Len(answers) + 1].no \in refused

\* What the code asserts: a write is sent on open streams after their handshake only, also
\* by tearDown; nothing comes in from a call that was let go; the idle timer runs only
\* while nothing waits; batches are acknowledged and rejected above the last
\* acknowledged ID (FSTStream:574, :608, :772-773, FSTLevelDBMutationQueue:225, :130,
\* FSTLocalStore:215).
AssertionsHold ==
    /\ isStarted /\ handshakeComplete => state = "Open"
    /\ answers # <<>> \/ requests # <<>> \/ closing # "no" => state = "Open"
    /\ idle => handshakeComplete /\ state = "Open" /\ pendingWrites = <<>>
    /\ \A u \in Users : \A id \in IDs(queue[u]) : lastAcknowledged[u] < id /\ id < nextBatchID

\* While a write is in the open queue something is under way for it: a token, the end of the
\* backoff, or a call on which a request, an answer or the end is still to be read.  No
\* refusal, broken call, time-out, refill or restart leaves the stream at rest with work to
\* do, or open with nobody speaking (FSTRemoteStore:545-566, :583-607).
QueueIsUnderWay ==
    queue[user] # <<>> =>
        \/ state \in {"Auth", "Backoff"}
        \/ state = "Open" /\ (answers # <<>> \/ requests # <<>> \/ closing # "no")

\* Every write that is made while its user stays is decided on by the server and leaves
\* the queue.
QueueDrains == []<>(queue[user] = <<>>)

\* The writes of each user reach the server in order, and one leaves the phone only when
\* the server has decided on it, through broken calls, stray requests, batch IDs given again,
\* changes of the user and kills.
Upload == INSTANCE OrderedUpload WITH waiting <- [u \in Users |-> Numbers(queue[u])]
UploadsInOrder == Upload!Spec
=============================================================================
