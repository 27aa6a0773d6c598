# SocialService: a TLA+ model of the iOS app

SocialService lets a citizen report a problem in the street: a photo, a place on
a map, a category and a description. People register or log in with Facebook;
reports and profiles are written to Firestore. The app is about 1200 lines of
Swift under `src/SocialServiceApp/SocialServiceApp/`. Everything else in the
repository is vendored (`Pods/`); of that we model the protocols the app depends
on: FIRAuth, the Firestore client's queues and its upload of writes, the Facebook login manager and
the progress window.

Paths below are short: `LoginController:152` is line 152 of
`Controller/LoginController.swift`.

## Inventory

| Component | State | Operations | Talks to |
|---|---|---|---|
| `LoginController` | the user being saved, progress window | register, Facebook login, open SignIn | FIRAuth, Facebook, Firestore, keychain, the form |
| `SignInController` | progress window | sign in, Facebook login, back | the same |
| `FormTableController` | photo, address, location, category, description | camera, map, submit, new form | `CameraHandler`, cells, map, Firestore, popup |
| `DescriptionCell` | text, colour, being edited | begin, change, end | the form (delegate) |
| `LocationCell` | label, instruction, animation done | `performButtonAnimation` | the form |
| `LocationViewController` | map centre, pin, location, first fix, text | fix, region change, geocoder answer, confirm, back | Core Location, MapKit, CLGeocoder, the form (delegate) |
| `CameraHandler` (shared) | `currentVC`, `imagePickedBlock` | sheet, source, image, cancel | the form (block) |
| `DataController` (popup) | municipalities, forms | dispatch, reset | `Municipality`, the form below |
| `Municipality`, `liesInsideRegion` | forms (nil) | `sendForm`, region test | |
| FIRAuth (`Pods`) | current user, the user saved in the keychain | sign up, sign in, load at launch, forced sign-out | identity server; posts user changes to the main queue |
| Firestore client, users and queues (`Pods`) | credentials provider's user, worker queue, a mutation queue per user on disk | enqueue, user change, acknowledge | FIRAuth (by notification), the upload |
| Firestore client, upload (`Pods`) | batch IDs, pipeline, write stream (state, handshake, idle timer, back-off) | fill the pipeline, open, shake hands, send, take an answer, reject, time out, swap users | the server, the mutation queues |
| Facebook login (`Pods`) | cached token | log in | Facebook |
| `JGProgressHUD` (`Pods`) | shown, delayed dismissals | show, dismiss | |

What is hard here, and what makes each part correct (PROJECT.json lists every
hazard at its line):

* **Several queues.** Taps and callbacks run on the main queue, FIRAuth on a work
  queue, Firestore on a worker queue, and the servers answer when they like. FIRAuth's
  user and Firestore's user are two variables with two queues between them. A write
  must not be lost, and an answer must reach the write it is for, however they
  interleave.
* **Death at any moment.** FIRAuth's saved user, the Facebook token, the keychain and
  Firestore's queues survive a kill; everything else does not.
* **A user who disappears.** FIRAuth signs the user out by itself when a token that
  Firestore asked for is refused, and a launch may fail to load the one it saved.
* **Calls that break.** Writes are pipelined, answers do not name the write they are for,
  a broken call's requests may still arrive, and batch IDs are given again after a
  relaunch. The server must see each user's writes in order, and none may be skipped.
* **Late answers.** The geocoder answers requests in any order, also when the picker
  is gone; `/me` races the sign-in.
* **Shared and replaced objects.** One `CameraHandler` serves forms that are replaced;
  delegates and blocks belong to the form that set them.
* **A loop with two indexes and two exits**, `liesInsideRegion`.

## Modules

| Module | Models |
|---|---|
| `Session` | LoginController, SignInController, the submission's writes, FIRAuth, Firestore, Facebook, the progress windows |
| `Ledger` | the abstract specification that `Session` implements: what a reporter is promised |
| `RemoteStore` | Firestore's upload: mutation queues, pipeline, write stream; `FSTRemoteStore`, `FSTStream`, `FSTLevelDBMutationQueue`, and the parts of `FSTLocalStore` and `FSTSyncEngine` they meet |
| `OrderedUpload` | the abstract specification that `RemoteStore` implements |
| `LocationPicker` | LocationViewController, `setLocation`/`locationChanged` of the form, LocationCell |
| `ReportForm` | FormTableController, DescriptionCell, CameraHandler, navigation, popup |
| `Region` | `liesInsideRegion` as a definition (no state) |
| `RegionScan` | the loop of `liesInsideRegion`, an iteration a step |
| `Dispatch` | `DataController.sendSignal` and `Municipality.sendForm`; uses `Region` |
| `MCSession`, `MCRemoteStore`, `MCLocationPicker`, `MCDispatch` | small instances and symmetry sets |
| `SessionProofs`, `SessionLedgerProofs`, `OrderedUploadProofs`, `RemoteStoreProofs`, `LocationPickerProofs`, `ReportFormProofs`, `RegionScanProofs`, `DispatchProofs` | theorems |

Operators whose comment begins with "Mutant of" are a plausible mistake in the operator
that follows them; they are used in no specification.

### Session

The user interface is a navigation root (`login` or `form`), what is presented over
it, the Facebook dialog, the two progress windows and the delayed dismissals under
way. A person's identity, which the app spreads over name, e-mail, password and uid,
is one value of `Users`: a provider and a person.

A registration is one main-queue step, as in the code: it sends the request, writes
the keychain, and saves the profile if *anybody* is signed in at that moment
(`SaveUser`, LoginController:114-123). A request goes through `ServerAccepts` or
`ServerFails` at the server, then `AuthApplies` (FIRAuth saves and sets the user and
posts a notification) or `AuthFails`. Two more steps change the user. `SignedOutByForce` is
FIRUser.m:1231-1241: a token is refused because the account is gone or disabled or the token
revoked, and the user leaves the memory even if the keychain keeps him (`savedUser`). FIRAuth
asks for tokens on Firestore's behalf and, after the first one, by itself, so the step is
possible from the moment the client has opened a user's queue, `fsUser # Offline`, with the
first write right behind it. `Launch` loads
the saved user, or nobody if the keychain cannot be read (FIRAuth.m:407-413); the load runs on
the work queue and `currentUser` waits for it, so it is over before the first tap asks. A
renewed token of the same user is announced too, and changes nothing at the provider, which
compares users: it has no step. `DeliverNotice` takes the notification to the
credentials provider and, if the client exists, queues a user job. The Firestore
client is created on the first `collection(..)` of a launch, the provider already on
the first `Firestore.firestore()`; `Provider` and `Started` keep the two apart.
`RunUserJob` swaps the open mutation queue and restarts the streams, `RunWriteJob`
appends to the queue that is open *then*, `ServerCommits`/`ServerRejects` act on its
head and `TakeAnswer` removes it. Only one write is under way at a time here; the client
pipelines up to ten. That is `RemoteStore`, and its `UploadsInOrder` is what justifies
the simplification: each user's writes are decided on in order, and one leaves its
queue only after the decision, as if they were sent one by one. What this leaves out are
late requests of a call that was given up: in `RemoteStore` one may repeat an older
decision after a newer write (`StrayArrives`), in `Session` a commit is only repeated while
the write is the head of its queue.

`Kill` and every trapping step (`RegisterCrash`, `GraphCrash`, `SubmitCrash`) leave
what is on disk. A request that is out may still be served (`ServerFails` also covers
an answer lost on the way back). A commit may be repeated after a crash or user
change: the client chose the document's name, so a repetition is the same document.
The identity server, Firestore's server and its rules are not in the repository; their
actions are marked external.

The code of SignInController:126-143 has no action, because nothing reaches it: the
segue's destination is the form itself (`Main.storyboard:399`) and the cast at line 121
fails. The comment at line 118, "signing in the user", is wrong for that reason.

`Promise` maps the session to `Ledger`: what waits in the worker queue is handed over,
what is in a mutation queue is kept, and `RunWriteJob`, `ServerCommits`,
`ServerRejects`, `TakeAnswer` and a crash are the ledger's steps. Whose queue is open, the
streams and the screens do not appear there.

### RemoteStore

Everything runs on Firestore's worker queue, so a callback is a step; what comes in
between is the server, the network, a timer or a kill. A write has a number, in the
order the writes were made, and the batch ID the code gives it; IDs are given again when
the queues are empty (`NextFreeID`), so only the number identifies it.

`WriteMutations` is the whole of a local write: it appends the batch and fills the
pipeline (`Following`, `Fill`), which starts a stream that is at rest (`Rested`) or
sends on one whose handshake is complete (`Sent`). A stream goes from Initial through
Auth to Open; `TokenArrives` and the handshake are one callback, as in the code.
`HandshakeAnswered` sends the pipeline, `WriteAnswered` acknowledges its head.
A permanent error after the handshake is `WriteRejected`: the head goes and the stream
starts again at once. Any other end is `StreamFails`: the stream is in Error, and starts
again after a back-off if there is something to send. `IdleTimeout` closes a stream on
which nothing waits. In each of them `LetGo` is the suppressing of the old call's
callbacks, and what had been sent on it may still arrive (`stray`, `StrayArrives`).

`Open(v)` is what a change of user and a relaunch have in common: the next batch ID is
computed from what is queued by anybody, an acknowledged ID that is no longer below it is
forgotten, batches up to the acknowledged one are dropped, and the pipeline is filled
from the front. The server reads the requests of a call in order; it answers, refuses and
ends the call, or the call breaks and loses answers from some point on. It never ends a
call with a permanent error except for the handshake or the write it refuses.

Left out: the delay of the back-off and the stream token, which nothing here depends on;
the empty request by which a stream says good-bye; and held batch results, which the
local store keeps only while something listens to documents. The app listens to nothing
and never disables the network.

### LocationPicker

A visit is numbered, because every `showMap` makes a new controller. `due` says that
the map moved and has not reported it; `lookups` counts the unanswered requests of each
visit and place. An answer writes the field only of the picker that asked. The address
of a place is written as the place, so that a text tells which request it came from.
The first report of a newly opened map, and where MapKit opens it, are left open.
`DragPin` is the user dragging the pin, which LocationViewController:70 allows: the
annotation moves, no callback comes, and Confirm still delivers the map's centre. The pin is
then seen in one place and another is delivered; nothing in the repository says otherwise, and
`LocationIsCentre` speaks of the centre for that reason. The
field's placeholder "Loading address.." is not a text of the field: an empty field is
`NoText`.

### ReportForm

Form instances are numbered; `forms` keeps what each holds, replaced ones included,
because a block, a delegate or a text view may still call into it. A submission hands the
popup a `FormData` (`handed`), with the photo, and Firestore a document (`filed`), which has
no field for the photo and the location (FormTableController:125-136). `AfterViewDidLoad` is
FormTableController:26, which throws everything else off the navigation stack. A form
over SignInController is `bare`: it has no bar and hence neither Submit nor New Form, and
the map shown from it covers it for good. The inside of the map is LocationPicker's: here
it only delivers an address, possibly empty. Whether somebody is signed in and whether
the keychain holds an identity is Session's: here both are left open (`SubmitUnsaved`,
`SubmitCrash`).

### Region, RegionScan and Dispatch

`LiesInside` says what the loop computes: the parity of the crossed edges among those
it looks at, with the slope's sign as the code has it. Coordinates are integers, and the
comparison with a quotient is multiplied out; on the small grid doubles decide it in the
same way. `RegionScan` is the loop itself with the code's zero-based indexes. The edge
between the first two vertices is never looked at. `Dispatch` offers one report to
the three municipalities, all of which are at (0, 0).

## Runs

| Run | Shows |
|---|---|
| `Session_safety` | `WritesHaveAccounts`, `FirestoreFollowsAuth`, `AnswerIsForHead`, `AnnouncedReportExists`, `NoReportTwice`, `ProgressWindowHasAnEnd`, `QueuesInOrder`, `EntersOwnQueue`, `NoQueuedWriteForgotten` |
| `Session_liveness` | `KeepsPromise` (the refinement of `Ledger`), `FirestoreCatchesUp`, `OpenQueueDrains`, `ProgressWindowEnds` |
| `RemoteStore_upload` | `PipelineIsQueueFront`, `CallMatchesPipeline`, `AssertionsHold`, `QueueIsUnderWay`, `UploadsInOrder` (the refinement of `OrderedUpload`), `QueueDrains` |
| `LocationPicker_safety` | `LocationIsCentre`, `AddressIsOfThisVisit`, `CellShowsAddress`, `DeliveredTogether` |
| `ReportForm_safety` | `ResetCastSafe`, `CameraTargetsCurrentForm`, `MapDelegateIsBelow`, `DescriptionIsText`, `PhotoIsVisible`, `OneReportPerForm`, `NewFormIsEmpty` |
| `RegionScan_grid` | `ScanIsParity`, `BoxIsExact`, `FirstSideIsMissing`, `Terminates` |

Each of these also checks its module's `TypeOK` (except `Session_liveness`). Six more
runs each refute one sentence of the program about itself:

| Run | The program says | The code does |
|---|---|---|
| `Session_register` | "registering the user into Firestore" (LoginController:146) | saves the profile before the account exists: on a fresh phone it is never written |
| `Session_profile` | "storing user info into firestore" (LoginController:113) | stores it under whoever is signed in, another person's account included |
| `Session_popup` | "Your submission was successful !" (Main.storyboard:305) | also when nothing was written |
| `LocationPicker_loading` | "Loading address.." (Main.storyboard:26, guard at LocationViewController:121) | Confirm delivers (0, 0) and no address meanwhile |
| `ReportForm_complete` | "Make sure you have added a photo, address and description" (FormTableController:154) | accepts reports without them |
| `Dispatch_receives` | "send signal to the corresponding municipality" (DataController:48) | no municipality receives anything |

### Bounds

* Session: two persons, because every hazard is about one person's data under another's
  account, and a third adds no new relation. Two presses allow a sign-in and a second
  person's, or the same one's again, two reports let one wait behind another, and two
  launches put a kill between any of these; forced sign-outs are not bounded. The liveness
  run has one person, who is two users: an e-mail account and a Facebook account change
  places in it as two people would; one report, as a profile write can wait beside it.
  Persons are interchangeable in the safety run (symmetry); the liveness run uses none.
* RemoteStore: a pipeline of two and three writes, so that one waits behind a full
  pipeline; two faults, so that a call can break while another is retried; two changes of
  user or relaunches, so that a queue can be left and opened again, with its batch IDs
  given again. One user's writes beside another's need no third person.
* LocationPicker: two places beside (0, 0), two moves of
  the map or its pin a visit and two visits: an answer
  can be late within a visit and across visits. The two places are symmetric.
* ReportForm: two forms: a replaced one and its successor.
* RegionScan: a 3x3 grid and up to four vertices: the smallest grid with a point inside a
  box, on each side of its boundary and outside, and every shape of the index pair.

`CHECK_DEADLOCK FALSE` everywhere: presses, launches, visits, moves and forms are
bounded, a process may stay dead, a bare form under a map cannot be left, and a
loop that has ended does nothing more.

### Fairness

Only `Session_liveness`, `RemoteStore_upload` and `RegionScan_grid` assume any. Weak fairness of
`DeliverNotice`, `RunUserJob`, `RunWriteJob`, `TakeAnswer` and of the timers is that of
serial dispatch queues and the run loop. Weak fairness of the identity server, `/me` and
Firestore's server says that a request ends, with an answer or an error: the libraries
turn a time-out into an error or retry. `FacebookEnds` is fair because a dialog is left in
the end, by an answer or by a cancellation. Taps, kills, launches and
forced sign-outs are not fair. In `RemoteStore`,
`Callback` is fair since the worker queue runs what is dispatched to it and a back-off is
at most a minute, and `Server` because a request that was read is answered. Broken calls,
refused tokens, kills, writes and the idle timer are not fair; faults are bounded, as
nobody can promise anything about a network that fails for ever. The
loop's own steps are fair: nothing else runs on its thread.

## Proofs

All checked by TLAPS for every value of the constants, from the named assumptions
(`SentinelAssumption`: the special values are not users or persons; `PlaceAssumption`:
likewise for places and texts; `BoundAssumption`: bounds are numbers;
`GridAssumption`: the grid is made of integers).

* `SessionProofs`
  * `TypesAndAnswers`: `TypeOK` and `AnswerIsForHead` together are inductive. The types
    are needed to know that an append leaves the head of a queue alone and that removing
    it is only done with the answer taken; `RunUserJob` keeps `AnswerIsForHead` because
    it drops the answer under way.
  * `QueuedWritesSurvive` follows: the only step that shortens a queue is `TakeAnswer`,
    and then the head is settled.
  * `FirestoreOnTheWay`: `FirestoreFollowsAuth` has two links, the main queue's notices
    and the worker's jobs. Each is inductive with the other and the types: a new notice
    becomes the last one, a delivered one becomes the last user job. A forced sign-out is
    such a notice; that a process that has ended remembers nobody (`DeadRemembersNobody`)
    lets a launch load whom it likes.
  * `WritesEnterTheirQueue`: a write is addressed to FIRAuth's user (`WriteIsEnqueued`), and
    when no notice waits the chain of `FirestoreFollowsAuth` leads that user to the job or
    the queue in front of the write; around the first use of Firestore the user job is made
    in the same step as the write, in front of it.
  * `TypesHold`: `TypeOK` on its own, from the same invariant.
  * `DocumentsHaveAccounts`: `UserHasAccount` is the strengthening, since a write's
    owner is FIRAuth's user of that moment.
  * `WindowsHaveAnEnd`: `ProgressWindowHasAnEnd` is not inductive, since a window left up
    by a login without a token would be without an end as soon as a token came. The
    strengthening says why none comes: a window is in front of every button that opens the
    dialog (`WindowsInFront`), so the dialog is only open for the window that is up, and
    without it a window that nothing ends has no cached token behind it (`WindowsEnd`).
* `SessionLedgerProofs`
  * `SessionKeepsPromise`: `Session` implements `Ledger`. A step of the ledger speaks of
    sets, one of the session of sequences, so the invariant adds that no two writes in
    memory or on disk share a number and that all numbers were handed out (`WritesApart`),
    and that the first job of a launch opens a queue (`QueueOpens`); then a tail or an append of a
    sequence takes away or adds exactly one element of the set.
  * `AnnouncedReportsExist`: the report that was announced is in one of four places
    (`AnnouncedHeld`), and each step leaves it there or moves it to another.
  * `WritesStayInOrder` and `WritesAreApart`: a write gets the next number and goes to the
    end of the jobs; `RunWriteJob` takes the first job, which is younger than all that is on
    disk, to the end of one queue. That memory is behind the disk is needed for all queues
    at once, because the user may change between any two writes.
  * `ReportsAreFiledOnce`: the reports in memory, on disk and in the database, together, only
    grow by a press of Submit, and then by one; a commit moves a report, or repeats one
    that is there. `NoReportTwice` counts the last of the three.
  * `NumbersNameOneWrite`: a fact about `Ledger`, proved of its steps (`LedgerNumbers`) and
    brought to `Session` by the refinement (`LedgerStep`).
* `OrderedUploadProofs`: `NothingIsLost`, what `OrderedUpload` amounts to. The invariant
  is that every write is decided on or waiting (`NothingLost`), that decisions are made in
  order (`EldersFirst`) and that queues ascend (`QueuesAscend`); that the decided ones are the
  front of each queue (`DecidedComeFirst`) follows.
* `RemoteStoreProofs`, for all users, pipeline lengths and bounds, from
  `PipelineAssumption` and `BoundsAssumption`. The inductive invariant `IInv` says where
  every write is: the queues are in the order of IDs and of numbers, above what is
  acknowledged and below the next ID (`Queues`); every write of a user is in the queue or
  decided on (`Kept`); the pipeline is the queue's front and `lastBatchSeen`
  its last ID (`Front`); the stream's state fits its call (`Stream`); the call matches the
  pipeline (`Call`); and what is astray is in the order of the writes, each after all its
  elders (`Strays`). `PipelineIsFront`, `CallMatches`, `AssertionsNeverFail` and
  `UploadTypes` are parts of it. `UploadsHappenInOrder` maps each step to `Make`, `Decide`,
  `Release` or a stutter; `Decide` needs `Call` and `Strays`, `Release` needs `Call`. That
  `NextFreeID` is above all IDs uses the well-ordering of the naturals
  (`WellFoundedInduction`).
  * `NoWriteIsLost`: `UploadsHappenInOrder` carries `NothingIsLost` over to `RemoteStore`.
  * `QueueIsNeverLeft`: the strengthening `Busy` says that a pipeline that is not empty has
    a stream that was started. With `Front` a queue that is not empty has such a
    pipeline, and with `Call` something is to be read on an open call.
* `LocationPickerProofs`: `LocationIsCentre`, `CellShowsAddress`, `AddressIsOfThisVisit`
  and `DeliveredTogether` from one invariant. It adds that requests of visits to come do
  not exist, that this visit's requests are for its stops, that a closed picker is
  blank, and that the location to deliver is a stop or (0, 0).
* `ReportFormProofs`: every property of `ReportForm_safety` from one invariant. It adds
  the shape of the stack for each kind of screen (`Shape`), that forms yet to come are
  fresh (`FutureFormsFresh`), that text and description agree in every instance
  (`TextsAgree`), that a photo that is set is shown unless the picker is just leaving (`PhotoShown`), and that what was
  filed was filed by earlier forms, or by this one under its popup (`FiledBefore`).
* `RegionScanProofs`: `ScanTypes` and `ScanDecides`. The invariant pairs the two indexes (the last vertex
  with the first, each other vertex with its successor); then an iteration adds exactly
  one edge to those passed, and both exits leave none out. `BoxesAreDecided`: an upright
  side is crossed from the west of it (`UprightSide`, where the product of coordinates
  loses one factor to its sign), so a rectangle's crossed edges are its two upright sides,
  and their number is odd exactly between them. `FirstSideIsNeverLookedAt`: on an outline
  along the axes `Crosses` is the ray test (`Meets`), and the sides are the examined ones
  and the first (`MetSides`), so the answer is off by exactly that one.
  `IndexesAreInTheList` and `EveryStepAdvances` are the safety half of `Terminates`: no trap
  in the loop, and a variant (`Remaining`) that every step lowers.
  `BeyondTheLatitudesIsOutside` holds of every polygon, the slope's sign notwithstanding.
* `DispatchProofs`: `OneVertexIsNeverInside` and `NothingIsReceived`, the general form
  of the run `Dispatch_receives`.

Only model-checked: liveness (`FirestoreCatchesUp`, `OpenQueueDrains`,
`ProgressWindowEnds`, `QueueDrains`, `Terminates`), which the prover cannot treat: a proof
needs ENABLED. What is proved of them is that somebody is always under way to bring them
about: `FirestoreOnTheWay`, `WindowsHaveAnEnd`, `QueueIsNeverLeft` and `EveryStepAdvances`. Every
invariant, action property and refinement of the passing runs is also proved.

## Not modelled

* The vendored libraries beyond the protocols named above. They are nearly all of the
  repository's lines (BoringSSL, gRPC, Protobuf, LevelDB, nanopb, the Facebook kits), and
  none of them holds logic of this program: LevelDB is the disk, gRPC the ordered call.
  So the part of the repository that is modelled is small, although the app's own code
  is modelled almost line by line.
* Of Firestore: the watch stream, queries, the local cache and transactions, which the app
  does not use.
* UI layout, styling and
  animations other than the two that change what can be seen.
* `signOut:` and Firestore reads: the app calls neither. Of the renewal of tokens only the
  loss of the user is modelled; the time at which a token runs out is not.
* The four keychain entries are one value: they are written in one main-queue step. The
  entry named after the user (LoginController:127) is never read.
* The alerts of a failed validation, beyond the fact that the segue goes ahead.
* On a device where an action sheet needs an anchor (iPad) `showActionSheet` traps; the
  model is of a phone.
* Hazards without a property: the traps of `Int(..)!` and `selectedCategory!` are steps
  of the model, and the properties hold with them, but nothing in the repository says
  that they do not happen. SIGN IN without a request is the action `SignIn`.

## Plan

Done, in this order: Session and its proofs, LocationPicker and its proofs, ReportForm,
Region with RegionScan, Dispatch and its proofs; then Ledger with the refinement by Session,
the proofs of ReportForm and of the rectangles, RemoteStore with OrderedUpload, its proofs
and its refinement; then the consequences of the two refinements, the order and the number
of the writes, the safety halves of the liveness properties, and the side that the region
test leaves out.

Left, if the project goes on:

1. A composition of `ReportForm` with `LocationPicker` (the real map under the real form),
   so that the address and the location of a filed report are those of one confirmation.
2. `Session` over `RemoteStore`: the job queue and FIRAuth's user in front of the
   pipeline, instead of `UploadsInOrder` as the argument that one write at a time is
   enough.
