# MyDogwalk, a verification project

MyDogwalk is an iOS app (Swift, about 12,600 lines under
`src/MyDogwalk/MyDogwalk/`) in which the members of a household record the walks
of their dogs. Everything it keeps on the server goes through Firebase (Auth,
Firestore, Storage), whose client libraries are vendored under
`src/MyDogwalk/Pods/`; what is being composed is kept on the device in
`UserDefaults`; premium is sold by StoreKit. This directory holds TLA+ models of
the app and of the part of the vendored Firestore client it leans on most, the
TLC runs that check them, and proofs of the main results for TLAPS.

The app has no tests and hardly any documentation. What it promises is taken from
its comments, its assertions, the texts it shows (`en.lproj/Localizable.strings`)
and from what one part of the code relies on in another.

## 1. Inventory

### How the app is put together

Three facts about the whole app matter more than any single screen.

* **Screens are instances that pile up.** Going "back" instantiates a new view
  controller over the old one (storyboard segues of kind *show* without a
  navigation controller, or `instantiateViewController` and `present`). Old
  instances stay alive under the new ones, with their flags, timers, observers and
  completion handlers. Only the start screen, the walk form and
  `MoreViewController` cover the whole screen (`Main.storyboard`); all others are
  sheets, which the user may swipe down (nothing sets `isModalInPresentation`) and
  so come back to an older instance. From `PremiumViewController` there is no other
  way back.
* **Everything runs on the main queue**, so a handler, a tap or a timer is atomic;
  but every call to Firebase or StoreKit is answered by a completion handler that
  runs later, whatever screen is on top by then.
* **Drafts live in `UserDefaults`**, shared by all instances of a screen and
  surviving the process; only answers of the server and a few buttons clear them.

### Components

| component (sources) | state | operations | what must hold |
|---|---|---|---|
| **Walk form** (`Dogwalk Actions/DogwalkViewController`, `DogViewController`, `DateTimeViewController`, `NoteViewController`) | draft keys `dogKey` ... `dl-url-key`; texts, `allowSave`, indicator and more-walks control of each form; documents handed to Firestore | pick dog, person, what, date, time; type; note; images; map; save; clear; history; settings; answers; relaunch | a walk is stored once; neither lock nor indicator is left on for nothing; a failure loses nothing; a handler clears the walk it stored; what is stored can be displayed |
| **Walk tracker** (`MapViewController`) | timers `timer`, `Annotationtimer`, `tstTimer`; `play`, `counter`, `locations`, labels, save button | start, stop, clear, save; tick, sample, background sample; resign and become active | timers belong to a walk under way; the distance is that of the track; a track handed over is final |
| **Accounts and session** (`Signup-`, `Login-ViewController`, `ViewController`) | Auth's current user, the account's Info document | register, log in, log out, answer of the registration | what was asked for one user does not serve another, unless the user changes under it; an account is not promised a profile |
| **Premium** (`MoreViewController`, `premium()`) | transaction, Info document, `premium` in `UserDefaults`, `docID` of each observer | buy, restore, transaction announced, write answered, flag read | premium is what was sold, for who paid; a sale is delivered and settles |
| **Walk images** (`ImageViewController`) | `imgArray`, `downloadURL`, `uploadNew`, `deletePathFromArray`, the draft's links | pick, upload answered, image fetched, delete, choose | the links chosen are those of the images shown; the row removed exists; stored images do not come back |
| **History, score board** (`HistoryViewController`, `ScoreBoardViewController`) | tab flags, `list`, counted points | switch tab, refresh, answers of two queries, delete, score | the list shown is that of the tab; a deletion hits the row chosen and the row leaves |
| **Walk details** (`ViewRow-`, `ViewMap-`, `ViewNote-`, `ViewImgViewController`) | none of its own | display | arrays of equal length, at least one coordinate |
| **Dogs and persons** (`AddDog-`, `Person-`, `AddNew-`, `DobViewController`) | drafts, sticky edit mode, one-shot lock `addNew`, list | add, edit, delete, answers, limits | one document for each save; an edit replaces the document edited; one dog's texts stay out of another's document |
| **Reminder interval** (`ChooseTimerViewController`) | row, code | pick, save | codes and rows are inverse to each other; an untouched wheel changes nothing |
| **Health log** (`NewHealth-`, `PremHisViewController`) | draft of an entry, date of the reminder, notification | fill in, save, answer, delete | the reminder is due when the entry says; pickers keep what was filled in |
| **Premium documents** (`PremImg-`, `BasicInfo-`, `PremiumViewController`) | images by category, texts in `UserDefaults` | pick, upload, choose | no image is forgotten or lost |
| **Password, profile, delegate** | none | one Auth call each; display; start-up | - |
| **Firestore write queue** (vendored: `sync_engine.mm`, `local_store.mm`, `leveldb_mutation_queue.mm`, `remote_store.mm`, `stream.mm`, `write_stream.mm`, `firebase_credentials_provider_apple.mm`, ...) | mutation queue of each user on the disk, callbacks, write pipeline, write stream, tokens | write, send, answer, refuse, reconnect, idle, change of user, restart | a write is carried out for its user, in order, told at most once and to its own handler; it is not lost |

`PROJECT.json` lists them with their status, and the sources that are not part of
the build.

### Interactions

* Form and its pickers, note, image and map screens: values go out and come back
  by `prepare(for:)` into a **new** form, which puts them into the shared draft
  and loads all fields from it (`getValues`).
* Form and Firestore: `addDocument`; the completion handler belongs to the form
  that saved and clears the draft of all.
* Form and tracker: the tracker hands time, distance and track to a new form and
  stays alive under it.
* Form and premium: each form opened asks for the Info document and sets the flag
  of the device, on which advertisements, limits and premium screens depend.
* Editors of dogs, persons and health entries and their pickers: the same pattern
  as the form's, with the document id and the edit mode handed on by hand.
* Logging out empties `UserDefaults` (drafts, flag, edit mode) but stops nothing
  that is outstanding.
* App and Firestore client: a write is taken up on a worker queue, stored, sent
  when connection and user allow it; its handler comes back on the main queue.

### What is hard

Answers that arrive after the screen, the draft or the user has changed; locks
that belong to an instance while the state they protect is shared; handlers that
die with the process while the writes they belong to survive it; timers and
observers nobody can stop any more; values read when an answer arrives instead of
when the question was asked; older screens that come up again when a sheet is
swiped down. In the Firestore client: answers that carry no id, ids that are given
again, tokens and streams that are out of date when they arrive. `PROJECT.json`
lists these hazards at their lines, each with the properties about it.

## 2. Plan

| order | module | subject | state |
|---|---|---|---|
| 1 | `WalkForm`, `WalkLog` | the form, and the log of walks it implements | done, proved |
| 2 | `WalkTracker` | the map screen | done, proved |
| 3 | `Premium` | accounts, session, purchase | done, safety proved |
| 4 | `Registry` | dogs and persons: editors, lists, deletions, limits | done, proved |
| 5 | `ImageUpload` | the upload lock, links and images of a walk | done, proved |
| 6 | `History` | two queries, one list, deletions | done, safety proved |
| 7 | `HealthLog` | entry, pickers, reminder, crash and retry | done, proved |
| 8 | `TimerWheel` | the wheel's codes, their inverse, and the interval's way through the screens | done, proved |
| 9 | `FirestoreWrites`, `WriteQueue` | the write path of the vendored client, and the promise it implements | done, safety and refinement proved |
| 10 | `DogDocuments` | the papers of a dog | done, proved |
| 11 | `WalkJourney` | `WalkForm` and `WalkTracker` composed: the track of a walk arrives in the document stored | left |

Left besides: the texts of `BasicInfoViewController`; Firestore's read and listen
path; and more proofs (see the end of section 5).

## 3. The models and the code

Common to all of them: a handler, a tap, a timer or a completion handler is one
action, with everything the code does in it, because the main queue runs them one at
a time; what is external (Firestore's server, Storage, Auth, StoreKit, UIKit's
sheets, the notification centre) is modelled from how the code uses it. Variables
called *history* in their comments record something of the past for a property and
are in no guard.

### WalkForm

| model | code |
|---|---|
| `draft` | the keys of `UserDefaults` a walk is composed in |
| `forms[f].text`, `allowSave`, `busy`, `more` | text fields, `allowSave`, indicator, `newWalk` of the f-th form opened |
| `saves` | calls of `addDocument`: its form, its data, what the server did, whether the handler has run |
| `screen` | what covers the last form; `SheetClosed` swipes it down |
| `forms[f].over`, `left` | history: saves unanswered when the user left for the screen that opened form f |

A value is the number of the form that first shows it, so that two documents with
the same dog value come from the same choice of a dog. Keys that the code always
treats alike are one key (`when`: date and time; `track`: time and distance;
`path`: the two coordinate arrays). Pickers that go to the health log instead
(`premiumDog`, `premiumDate`) belong to that module. Both collections are in
`saves`; the `what` of the walk tells which. Every handler is one action,
including all the clearing it does; a handler of a form that is no longer on top
acts on its own form and on the shared draft, as in the code, and cannot present.

Firestore's queue is on the disk, in order, and survives the process; the server
takes or refuses each document; only a document that is no longer queued has its
handler called, and the handlers of a process die with it (`Relaunch`, at any point,
stands for all crashes and kills). The model follows one account: after `LoggedOut` the
welcome screen is on top until that user signs in again, and until then the queue waits,
as Firestore sends the queue of the present user only
(`SyncEngine::HandleCredentialChange`); handlers already due still run.
`FirestoreWrites` is where these assumptions are checked against the vendored client.

`WalkLog` is the abstract promise: each form is a session that may be submitted,
refused and submitted again, and that adds one entry to the log at most.
`WalkForm` is mapped to it by the phase of each form (`Phases`, from its
outstanding and stored saves) and the set of stored documents.

### WalkTracker

Time is the number of clock ticks, a place a point of a line. `clock`, `sampler`
and `background` are the timers the code can still invalidate, `leaked` counts the
background timers whose reference was overwritten. A missing location is the
place `Unknown`, and unwrapping it ends the process (`screen = "crashed"`). Timers
fire in any order relative to taps and system events: their periods are not
modelled, so what is shown holds for every timing. The map is a sheet, so it may be
swiped down with all its timers alive. `bare` is history: the app was last left while the
track was empty, and neither Stop nor Clear has ended that background timer since.

### Premium

`info` is the server's Info documents, `writes` Firestore's queue (one per user, as
the documents of each user are written under the rights of that user), `reads` the
questions asked by `premium()` and `retrieveCurrentData` and not yet answered; a
read sees the queued writes of this device, as Firestore's local cache does. `views`
holds the `docID` of every `MoreViewController` of the process, all of them
observers of the payment queue. A transaction is announced again after a launch
until it is finished; an observer without a `docID` ends the process. `payer` and
`mixed` are history. Typing, alerts and the menu are left out. `SignUp` is `createUser`
and its handler in one, as the listener of the welcome screen and the handler run on one
answer; `SignUpCut` is the account whose answer never came, because it was lost or the
process ended, and which has no Info document ever after. One transaction at a time is a
bound: `BuyTapped` waits until the purchase before has failed, the code for nothing.

### Registry

One module for dogs and for persons (`kind`), because the two editors are written
alike; where they differ (the lock `addNew` and the interval's wheel are the dog's
only, the advertisement after saving) the definitions say so. `stack` is the pile of
lists, editors, pickers and advertisements, each a record with the fields of its
view controller; `SheetClosed` takes the top one off. `draft` and `sticky` are the
keys `nameKey`, `dobKey` and `editModeKey`. A text is the number of the dog or
person it describes, so that a document that mixes two is seen. `Overlay` is
`getValues`: what the row hands over goes into the draft, and the draft is shown.
`Visible` shows a list the writes this device has queued, as Firestore does.
`strayed` is history: an editor was closed, or the process ended, over a draft that was
not empty. Answers of the list that are late or fail do not set it, nor does `+`.

### ImageUpload

The screen of a walk's images. An image and its link are one value, and every pick
is a new one (the code names uploads by fresh UUIDs). `upload` is the one image under
way, `uploadNew`, `choose` and `add` are the flags and buttons that guard it, each
set and cleared where the code does. After Choose a new form covers the screen for
good, so that late answers change nothing any more and one screen at a time is
enough. `WalkStored` is the handler of a form beneath, which clears the draft.

### History

One list, two tabs, any number of queries outstanding. `main` is the main queue with
the completion handlers Firestore has called, in order; the handler of a removal
empties the list and asks again. `alert` holds the cell of the row that was swiped,
as the closure in `removeRowAtWalk` does; when the table is reloaded, UIKit may give
the cell to any row of the new list (`Reload`). Other members of the household store
documents meanwhile (`Stored`).

### HealthLog

`pile` holds editors, pickers and lists. A picker opens a new editor, which takes one
field from it and the others from the draft; `exactDate`, the moment of the
reminder, goes from screen to screen only. `reminder` is the single request under
the identifier all entries share. A write carries the editor it belongs to, and
`handler` says whether its process is still there.

### TimerWheel

`CodeOf` and `RowOf` are the two tables of `ChooseTimerViewController`, the actions
the way of an interval from the document through editor, `addTimerKey` and wheel and
back.

### DogDocuments

Screens of one category on top of each other, each with its images, links, uploads
under way and failed uploads; Save writes the links of its own screen over the key.
Swiping a screen down brings back an older one with what it held.

### FirestoreWrites and WriteQueue

| model | code |
|---|---|
| `mainQ`, `tasks` | the main queue and Firestore's worker queue (`AsyncQueue`), each running one task at a time |
| `auth`, `Tokens` | Auth's user; `token_counter` and `closes`, the counts by which the credentials provider and the stream recognise answers that are out of date |
| `engine` | `SyncEngine`: its user and the mutation callbacks by user and batch id |
| `store` | the mutation queues of all users in LevelDB and the next batch id, read from the database at each start |
| `remote` | `RemoteStore`'s write pipeline and the `WriteStream`: state, handshake, idle timer |
| `remote.outbox`, `inbox`, `server` | what is on its way to the server and back, and what the server has done |
| `failed` | a `HARD_ASSERT` on the way did not hold |

Handlers are cut where the code goes from one queue to another. Assumed of the
server and the connection: a stream's requests are handled in order; a refused one
ends the stream after the answers to the earlier ones; nothing is handled of a
stream that was closed. `token_counter` is read by a thread that does not hold the
mutex; since it only grows, reading it early or late is one of the interleavings of
`Auth`. A send after the server has ended the stream is accepted and lost, as in
chttp2. Stream tokens, the watch stream, transactions, overlays and callbacks of
`waitForPendingWrites` are not modelled.

`WriteQueue` is the abstract promise: a write belongs to the user of its session, is
carried out in the order of its user's writes and in that user's sessions, leaves the
storage when it was carried out or refused, and its handler runs at most once, with
what happened to this write. The mapping is in `MCFirestoreWrites`.

### MC modules

They give instances. `MCScreens` puts three screens side by side that share no key
and no step (`TimerWheel`, `ImageUpload`, `DogDocuments`): each behaviour is about
one of them while the others rest, so that a property of one of them holds of all
these behaviours exactly if it holds of that screen by itself.

## 4. Runs

All runs use `CHECK_DEADLOCK FALSE`: the user may stop anywhere, and every bound is
reached in the end. The bounds are the constants `Max...`, `Entered` (the keys the
user enters in a behaviour) and the small sets given for the others.

| run | question | bounds | result |
|---|---|---|---|
| `form_save` (`WalkFormSave.cfg`) | can a form store a walk twice, stay locked for nothing, or a handler clear the wrong walk? Does the form implement `WalkLog`? Is every save settled whose user stays? | 3 forms, 2 saves; a draft ready to save, with or without its dog; fair server and handlers | passes |
| `form_screens` (`WalkFormScreens.cfg`) | with all screens: can everything stored be displayed, can a failure lose an entry? | 2 forms, 1 save, all keys entered; an empty draft, a complete one, one without its person, or all keys | passes |
| `form_duplicate` (`WalkFormDuplicate.cfg`) | are duplicates impossible, as the comment says? | as `form_save` | **violated** |
| `tracker` (`WalkTracker.cfg`) | timers, distance, hand-over, background | 2 places and none, 2 ticks, 5 points, 2 leaked timers | passes |
| `premium` (`Premium.cfg`) | is premium only what was sold, for who paid, and does the device agree? | 2 users, one of them or both with an older account, 2 observers, 2 writes, 2 reads | passes |
| `premium_live` (`PremiumLive.cfg`) | is a transaction finished only once it is delivered, and does a sale settle? | 1 user, 2 observers, 3 writes, 2 reads; fair server and handlers | passes |
| `history` (`History.cfg`) | what does it take to show the wrong tab or remove the wrong row, and does a removed row leave? | 2 walks, 1 bath, 2 queries, 1 removal; fair answers and main queue | passes |
| `registry` (`Registry.cfg`) | does an editing replace its own document, does an editor save once, when can drafts mix? | both kinds, 2 rows, 1 new, 4 screens made, 4 piled up, 2 writes | passes |
| `health_log` (`HealthLog.cfg`) | do pickers keep the rows, is the reminder right and kept? | 2 dates, 4 screens piled up, 2 entries | passes |
| `screens` (`Screens.cfg`) | the wheel, the images of a walk, the papers of a dog | all 15 intervals; 3 images; 3 screens | passes |
| `firestore_writes` (`FirestoreWrites.cfg`) | do the client's assertions hold, are answers taken for the right writes, does it implement `WriteQueue`? | 3 writes, a pipeline of 2, 1 change of user, 1 lost connection, 1 restart | passes |
| `firestore_live` (`FirestoreLive.cfg`) | whose token sends a write, do ids that are given again find their callbacks, are all writes settled and told? | 2 writes, a pipeline of 2, 2 changes of user, 1 lost connection, no restart; fair queues, server and Auth | passes |

Why the bounds are enough.

* *Form.* A duplicate or a wrong clearing needs two forms and the save of the first;
  the third form lets a handler run under two later forms, and a second save of the
  same form shows the lock after an answer.
* *Tracker.* Five points and two leaked timers allow a walk that is stopped, resumed
  and sampled twice, with a timer that outlives Stop and one that fires on a track that
  Clear has emptied.
* *Premium.* Two users, two observers and two writes allow a registration and a
  purchase, or one purchase written by both observers; three writes add one that is
  repeated after a crash. Users are symmetric.
* *History.* Two queries are one for each tab or two of the same; two walks and a
  bath let a cell go to another row of its own or of the other collection.
* *Registry.* Four screens are a list, an editor, a picker and the editor it opens,
  or two lists with an editor each; two writes are a save and its repetition, or a
  save and the next one under a draft left behind.
* *Health log.* Two dates tell the date shown from the moment scheduled, two entries
  let one take the other's reminder; four screens are a list, an editor, a picker and
  its editor.
* *Screens.* Three images are one under way, one on the screen and one stored; three
  screens let the middle one be the one that is come back to.
* *Firestore.* Three writes and a pipeline of two leave one in the store while two are
  in flight. One change of user and one lost connection are enough to swap queues
  under a stream; two changes come back to the first user, whose ids are then given
  again.

Fairness.

* `WalkForm` (`FairSpec`): the server answers a queued document while its user is signed
  in, since Firestore retries until it has an answer, and the main queue runs the
  handler. Nothing is assumed of the user or the process: a save whose handler died is
  excused by `SaveSettles`, and so is one that was unanswered when its user logged out,
  until that user is back.
* `Premium` (`FairSpec`): the same for each write. Nothing is assumed of the App Store.
* `History` (`FairSpec`): a query is answered or fails (Firestore answers from its
  cache when offline), and the main queue goes on.
* `FirestoreWrites` (`LiveSpec`): the main queue and the worker queue go on, the server
  answers an open stream, Auth answers a token request. Lost connections and changes
  of user are bounded, as the properties speak of what happens once they stay.

All are weak fairness of the queue or service as a whole.

### What the violated run shows

`NoDuplicates`: save, open a picker before the answer, choose, save again. The lock is
a field of the form; the new form is unlocked and its draft is not cleared before the
answer. The comment at `DogwalkViewController.swift:63` says "Making sure you can't
add dublicates". `DuplicateNeedsUnansweredSave` shows, and `DuplicatesExplained`
proves, that this is the only way.

### Behaviour met while modelling

The following were read in the code and are steps of the models. No comment or text of
the repository promises otherwise in so many words, or one step is all it takes, so
they are not runs of their own; where a property states exactly when they can happen,
it is named.

| where | what | stated by |
|---|---|---|
| `DogwalkViewController.swift:328` | a tap on the locked form of a stored walk starts the indicator, and nothing stops it | `LockMeansSavingOrSaved` |
| `Signup-ViewController.swift:152` | an account whose registration was cut off has no Info document: no observer ever learns a `docID`, and a purchase ends the process at each announcement | - |
| `MapViewController.swift:259` | the time shown, and handed over, is one tick behind the clock | - |
| `MapViewController.swift:100` | the background timer unwraps the last point of an empty track, the sampler a location that is gone | `CrashExplained` |
| `MoreViewController.swift:353` | "Your purchase has been restored" is shown before the App Store answers, and a restored transaction is finished without effect | - |
| `MoreViewController.swift:434` | `setData` without merge replaces e-mail and date of the profile by `premium` | - |
| `HistoryViewController.swift:181` | the answer that comes last fills the list, whatever the tab | `WrongTabNeedsOverlap` |
| `HistoryViewController.swift:303` | the document removed is that of the cell when the alert is confirmed | `WrongRowNeedsReload` |
| `AddDogViewController.swift:413` | the edit mode outlives the editor in `UserDefaults` | `EditReplacesItsRow` |
| `AddDogViewController.swift:110` | the lock is taken before the name is looked at and given back by nothing: after the empty-name alert or an error the editor cannot save | `AtMostOneSavePerEditor` |
| `AddDogViewController.swift:414` | a draft left behind fills the empty fields of the next dog | `MixNeedsStraying` |
| `AddDogViewController.swift:242` | the segue `tableDog` does not exist in the storyboard | - |
| `AddNewViewController.swift:234` | the limits of accounts without premium are applied while cells are drawn | - |
| `ImageViewController.swift:181` | removing an image takes all links from the draft but none from `downloadURL`: the next Choose brings it back | `ShownIsChosen` |
| `ImageViewController.swift:219` | an upload that fails leaves the screen closed to further images | `ShownIsChosen` |
| `DogwalkViewController.swift:229` | a form already open goes on showing images that were removed | - |
| `NewHealthViewController.swift:119` | `exactDate` is unwrapped and is nil when the draft had a date | - |
| `NewHealthViewController.swift:137` | one notification identifier for all reminders | `RequestedIsPending` |
| `PremHisViewController.swift:85` | removing an entry leaves its reminder pending | `RequestedIsPending` |
| `PremImgViewController.swift:234` | an older screen writes its links over newer ones | `LossNeedsReturn` |
| `PremImgViewController.swift:214` | the indicator of an upload covers no button | `ShownIsKnown` |
| `BasicInfoViewController.swift:274` | a second Save removes the texts that were not edited again | - |

## 5. Proofs

For all values of the constants that satisfy the assumptions stated next to them
(the bounds are natural numbers, `None` is none of the values):

* `WalkFormProofs`
  * `TypeCorrect`, `SaveInvHolds`, `OneSavePerForm`, `LockExplained`,
    `WalksDisplayable`. `AtMostOneSavePerForm` is not inductive: nothing in it says
    why a second tap finds the lock closed, or why a form that was unlocked by a
    success cannot be saved again. `SaveInv` adds that: an unanswered save keeps its
    form locked and is the only one to do so, a lost handler's form is no longer on
    top or nobody is signed in, and an answered, stored save has emptied the dog of its form, which only a
    new form can fill. The proof takes the actions one at a time; the two handlers
    share a lemma.
  * `DuplicatesExplained` and `HandlersClearTheirs`, by `DogInv`: whoever has left a
    form has left at least the saves that are unanswered now, and the next form
    remembers them (`left`, `over`); so a dog of the draft that was handed to
    Firestore is one whose save is unanswered or refused, and a form that shows it
    without having saved it itself came up over that save.
  * `FailuresKeepTheDraft`, an action property, one action at a time.
  * `Refinement`, that every behaviour of the form is one of `WalkLog`
    under the mapping. Each step keeps the phase of every form or changes that of one,
    along the arrows of `WalkLog`; this rests on `SaveInv`.
* `WalkTrackerProofs`: `TimersEndWithTheWalk` (clock and sampler run together, only
  during a walk with a point), `HandedTrackIsFinal`, and `CrashesExplained`: a background
  timer that can be invalidated never outlives Clear, so that an empty track under one
  means that the app was left over it.
  `DistanceIsTheLength`, by `LengthInv`, on top of what the first two rest on
  (`TrackInv`): with an empty track nothing is shown. The length of a track is a recursive
  function: that it exists for every track is shown first, by taking the least prefix
  for which it would not.
* `PremiumProofs`: `NothingUnsold`, that premium is nowhere before the sale. It is
  strengthened by what may still arrive: no document, queued write or answer on its
  way says premium while nothing is sold (`Unsold`), and a sale is never taken back.
  * `SalesAreDelivered`, by `QueueInv` and `FinishInv`. A user registers once and before
    all purchases of that user, and a user's writes are answered from the front of one
    queue, so that no registration is stored over a purchase (`QueueInv`); and a
    transaction that is finished has a purchase among the answered writes (`FinishInv`).
    That there is a first queued write is the least-number principle, by
    `WellFoundedInduction`.
  * `PayersGetPremium` and `FlagsAreTheAccounts`, by `QueueInv` and `MixInv`: as long as
    the user did not change under an answer, every outstanding read and unanswered write
    is of who is signed in, every purchase is the payer's, and a read that says premium
    has seen a purchase in the queue or on the server.
* `HistoryProofs`: `TypeCorrect`; `WrongRow`, by `RowInv`: an alert
  opened with nothing outstanding keeps the table as it is, since all that can reload
  it begins with a tap the alert covers, so that its cell is the row chosen
  (`QuietAlert`); `WrongTab`, by `TabInv`: unless two tabs
  overlapped, all that is still coming - queries, handlers, lists - is of one tab.
* `RegistryProofs`: `TypeCorrect`; `EditReplaces`, by `EditInv`: every screen of an
  editing, in whatever pile, hands on the row it began with as its document, and is in
  edit mode if there is one; `OneSavePerEditor`, by `LockInv`: editors are numbered
  differently, and the one of a dog that has stored is locked for good; `TextsAreOwn`,
  by `OwnInv`: unless a draft strayed, it is that of the editor on top and is empty
  while a list is, a picker lies on an editor of its own dog or person (`PickersOver`),
  so that closing it brings that editor back over its own draft, and every screen,
  unanswered write and document holds the texts of its own dog or person.
* `HealthLogProofs`: `TypeCorrect`, `PickKeeps`, `ReminderIsStored`, `RequestStays`, by
  one invariant: types; `ScreensOK`, that every editor of the pile still has the field
  it was handed, with the moment that goes with a date, and that what else an editor shows,
  and what was filled in when a picker opened, an editor opened now would show too;
  `DatesOK`, that the moment that goes with an unanswered entry, if any, is the date in
  its document; and `OrderOK`, that entries are stored in the order of their saves. The
  types hold only if there is a moment and a screen at all: with `MaxTime = 0` or
  `MaxDepth = 0` they fail, hence the assumption `HealthBounds`.
* `ScreensProofs`, about the three screens of `MCScreens`:
  * `SideBySide`: a behaviour of the three together is one of each, so that what is
    proved of a screen's own specification holds of the behaviours TLC checks.
  * `TypeCorrect`, `WheelShows` (the tables are inverse to each other on all rows, and
    draft, editor and wheel agree) and `UntouchedKeeps`, of `TimerWheel`.
  * `ShownAreChosen`, `RemovesAnImage` and `SavedImagesAway`, of `ImageUpload`, by
    `UploadInv`: types; that the alert asks about a row of the table (`RowIsThere`); that
    every image shown is among the links, but for one whose upload is unanswered or was
    refused, and then the lock is closed and Choose disabled (`LinksKept`); and that the
    links of stored walks are apart from those of the draft and the screen, unless a walk
    was stored under the screen (`StoredApart`).
  * `ShownAreKnown` and `LossIsReturn`, of `DogDocuments`, by `PapersInv`: types; that each
    image of a screen is a link, outstanding or failed (`PapersOK`); and that a screen
    not yet covered by another is on top and has every link that is stored
    (`NothingBehind`), so that its Save takes none away.
* `FirestoreWritesProofs`: `TypeCorrect`, `CallbacksKeepTheirBatch`, `AnswersMatch`, by
  one invariant: types; `LinkOK`, that what was sent and what was answered is the
  pipeline in its order, and nothing is on the way when the stream is not open;
  `StoreOK`, that every queue is sorted by batch id and below the next id, which is
  why an id that is given again meets no old batch; and that the batch
  about to be removed has no callback left (`AckingAnswered`). `AssertionsHold` and
  `SentByItsUser` add three invariants: `LineInv`, that the pipeline is a sorted part of
  the queue of the engine's user, after the batch about to be removed, and that the idle
  timer is set on an empty pipeline only; `TokenInv`, that of all token requests, answers
  on the main queue and answers at the worker at most one is not stale, and then the
  stream waits for it; and `UserInv`, about the user the provider heard of last: the
  queues lead the worker to that user and the provider to Auth's, every token read since
  the last notice is of that user, and the one the stream waits for is of the worker's
  user unless a change of user is before it.

  `Refinement`: every behaviour of `FirestoreWrites` is one of `WriteQueue` under the
  mapping of `MCFirestoreWrites`. Every step is mapped to the one abstract step it can be
  (calling, storing, carrying out, refusing, telling, a change of user, a restart) or to a
  stutter. It needs two more invariants. `FrontInv` relates the three places where a
  write is: the pipeline is the front of what the queue of the engine's user holds after
  the batch about to be removed; of that queue the first
  writes are carried out, as many as are being removed or have their answer on the way;
  and if the server has ended the stream, the next one is refused. `OnceInv`: a write is in
  one batch or in one task, never in both, and was called for. The mapping selects the writes among the tasks and
  the answers among the messages; that selection is a recursive function, which is
  shown to exist for all queues by the least-number principle, and then to follow
  `Append` and `Tail`.

Only model-checked is all liveness (`SaveSettles`, `SaleSettles`, `DeletedRowLeaves`,
`QueueDrains`, `HandlerIsTold`), since the prover has neither fairness nor ENABLED.

`TypeOK` is a theorem for every module of a component (`TypeCorrect`; for `ImageUpload`
and `DogDocuments` a part of `UploadInv` and `PapersInv`). In `Premium` it needs more than
itself: the answers on their way to the device are values of the field, those on their
way to an observer are ids of documents.

Definitions marked *(mutant: ...)* are variants of the definition after them, each
a plausible mistake in the code; they are in no behaviour and serve to see the
properties fail.

## 6. Not modelled

* Layout, wording, translation and advertisements (but for those that delay the way
  to the next screen), reachability, the drawing of maps.
* The texts of `BasicInfoViewController`: one screen, one actor, nothing outstanding.
* `DogwalkViewController.loadDogs` and `runNotification` (lines 596 to 722): nothing
  calls the former, and only the former calls the latter.
* The points counted in the history and the score board, which is a sum over the list
  as it stands and a copy of it.
* The password screens, the profile, the details of stored walks and the application
  delegate keep no state of their own. Two things they rely on are properties of the
  models: at least one coordinate (`StoredWalksDisplayable`), and the Info document.
* Sources that are not part of the build.
* The vendored libraries but for Firestore's write path. They are about 2,700 files
  of C, C++ and Objective-C under `Pods/` (BoringSSL, gRPC, Protobuf, LevelDB, the rest
  of Firebase), more than half a million lines of third-party code against the app's
  12,600 lines of Swift: measured in lines, the models cover a small part of the tree
  and most of the app. What the app uses of them is modelled from its use.
