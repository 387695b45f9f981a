------------------------------ MODULE WalkForm ------------------------------
(***************************************************************************)
(* The walk form: DogwalkViewController, the screens that fill it in, the  *)
(* draft they share in UserDefaults, and the saves it hands to Firestore.  *)
(*                                                                         *)
(* Choosing a value instantiates a NEW form over the old one.  The old     *)
(* form stays alive underneath, and so do the completion handlers of the   *)
(* saves it issued: they run on the main queue whenever the server         *)
(* answers, whatever screen is on top by then.  Forms and settings cover   *)
(* the screen; all others are sheets, and swiping one down shows the form  *)
(* beneath as it was left.  Logging out leads to the welcome screen; the    *)
(* model follows one account, which is signed in on every other screen.    *)
(*                                                                         *)
(* Data abstraction.  A value the user enters is the number of the form    *)
(* that first shows it, 0 the default a save fills in ("00:00:00", "0 m",  *)
(* 0.0), None the absent value.  A key of Keys stands for the UserDefaults *)
(* keys that the code always treats alike: when for dateKey and timeKey,   *)
(* track for timerKey and kmKey, path for latKey and longKey.              *)
(***************************************************************************)
EXTENDS Naturals, Sequences, FiniteSets

CONSTANTS
    None,          \* the absent value: no such key, an empty text
    Promenad,      \* a what that saveAsNormalWalk stores in promenad
    DuschBad,      \* the what that saveAsShower stores in duschBad
    MaxForms,      \* bound: forms opened in a behaviour
    MaxSaves,      \* bound: documents handed to Firestore in a behaviour
    InitKeys,      \* which keys an earlier session may have left in the draft
    Entered        \* bound: the keys the user enters in a behaviour

Keys      == {"dog", "person", "what", "when", "track", "path", "note", "img"}
Required  == {"dog", "person", "what", "when"}
Defaulted == {"track", "path"}
Kinds     == {Promenad, DuschBad}
Typable   == {"track", "note"}         \* text fields that open no screen

ASSUME BoundsAreNat == MaxForms \in Nat \ {0} /\ MaxSaves \in Nat
ASSUME NoneIsNoValue == None \notin Nat \cup Kinds /\ Kinds \cap Nat = {}
ASSUME KeysAreKeys == InitKeys \subseteq SUBSET Keys /\ Entered \subseteq Keys

Value  == Nat \cup Kinds \cup {None}
Walk   == [Keys -> Value]
Form   == [text : Walk, allowSave : BOOLEAN, busy : BOOLEAN, more : BOOLEAN,
           over : SUBSET Nat]
Save   == [form : Nat, walk : Walk,
           status : {"queued", "stored", "refused"},
           answer : {"waiting", "called", "lost"}]
Screen == {"form", "incomplete", "clear", "dog", "person", "what", "when",
           "note", "image", "map", "ad", "history", "settings", "welcome"}
Sheets == Required \cup {"note", "image", "map", "history"}

VARIABLES
    draft,   \* UserDefaults: the walk being composed, kept across launches
    forms,   \* the forms opened so far; only the last one can be on screen
    saves,   \* addDocument calls, in the order they were made
    screen,  \* what covers the last form ("form": nothing)
    carried, \* the note a NoteViewController took from the draft as it opened
    left     \* history variable: saves unanswered when the last form was left

vars == <<draft, forms, saves, screen, carried, left>>

TypeOK ==
    /\ draft \in Walk
    /\ forms \in Seq(Form) /\ Len(forms) \in 1..MaxForms
    /\ saves \in Seq(Save) /\ Len(saves) <= MaxSaves
    /\ \A i \in DOMAIN saves : saves[i].form \in DOMAIN forms
    /\ screen \in Screen
    /\ carried \in Value
    /\ left \in SUBSET Nat

-----------------------------------------------------------------------------
Top        == Len(forms)
NextForm   == Top + 1
Unanswered == {i \in DOMAIN saves : saves[i].answer # "called"}
SignedOut  == screen = "welcome"

\* (mutant: the keys go instead of their values)
WithoutDropsKeys(walk, keys) == [k \in Keys \ keys |-> walk[k]]
Without(walk, keys) == [k \in Keys |-> IF k \in keys THEN None ELSE walk[k]]

\* removeUserDefaults: the keys it removes, the texts it clears.
\* (mutants: the dog and the what stay in the draft; the texts are not cleared)
OneWalkKeepsDog == {"note"}
OneTextKeeps    == {}
OneWalk == {"dog", "what", "note"}
OneText == {"dog", "what"}
\* removeAllUserDefaults: every key but the person; the note, the coordinates
\* and the image links stay in the form's memory.
\* (mutants: the person goes, too; the dog's text stays)
AllWalkTakesPerson == Keys
AllWalk == Keys \ {"person"}
AllText == {"dog", "what", "when", "track"}

ClearedOne(form) ==
    [form EXCEPT !.text = Without(@, OneText), !.allowSave = FALSE, !.busy = FALSE]
\* (mutant: clearing unlocks the form)
ClearedAllUnlocks(form) ==
    [form EXCEPT !.text = Without(@, AllText), !.more = FALSE, !.busy = FALSE,
                 !.allowSave = FALSE]
ClearedAll(form) ==
    [form EXCEPT !.text = Without(@, AllText), !.more = FALSE, !.busy = FALSE]

\* viewDidLoad: every field is loaded from the draft and saving is allowed.
NewForm(walk, unanswered) ==
    [text |-> walk, allowSave |-> FALSE, busy |-> FALSE, more |-> FALSE,
     over |-> unanswered]

\* The error branch of the completion handlers.
\* (mutants: the lock stays; the indicator goes on)
UnlockedStaysLocked(form) == [form EXCEPT !.busy = FALSE]
UnlockedStaysBusy(form)   == [form EXCEPT !.allowSave = FALSE]
Unlocked(form) == [form EXCEPT !.allowSave = FALSE, !.busy = FALSE]

\* A form opens over the present screen; getValues has put what the screen
\* passed to it into the draft.
\* (mutant: the screen returns to the form it came from)
OpenFormReturns(walk, unanswered) ==
    /\ draft' = walk
    /\ forms' = [forms EXCEPT ![Top].text = walk]
    /\ screen' = "form"
    /\ carried' = None
OpenForm(walk, unanswered) ==
    /\ Top < MaxForms
    /\ draft' = walk
    /\ forms' = Append(forms, NewForm(walk, unanswered))
    /\ screen' = "form"
    /\ carried' = None

\* The user leaves the form for another screen.
Leave(to) ==
    /\ screen = "form"
    /\ screen' = to
    /\ left' = Unanswered

Init ==
    \E given \in InitKeys, kind \in Kinds :
        LET walk == [k \in Keys |-> IF k \notin given THEN None
                                    ELSE IF k = "what" THEN kind ELSE 1]
        IN /\ draft = walk
           /\ forms = <<NewForm(walk, {})>>
           /\ saves = <<>>
           /\ screen = "form"
           /\ carried = None
           /\ left = {}

-----------------------------------------------------------------------------
(* Filling in the form *)

\* ChooseDogTextField and its siblings: the picker of one required key opens.
ChooseTapped(k) ==
    /\ k \in Required \cap Entered
    /\ Leave(k)
    /\ UNCHANGED <<draft, forms, saves, carried>>

\* DogViewController / DateTimeViewController Save: the picked value goes into
\* the draft of a new form.  A picker whose list has not arrived yet passes "",
\* which getValues skips.
PickerSaved ==
    /\ screen \in Required
    /\ \/ \E v \in IF screen = "what" THEN Kinds ELSE {NextForm} :
             OpenForm([draft EXCEPT ![screen] = v], left)
       \/ screen \in {"dog", "person"} /\ OpenForm(draft, left)
    /\ UNCHANGED <<saves, left>>

\* No dogs or no persons are registered: the alert leads to MoreViewController.
PickerEmpty ==
    /\ screen \in {"dog", "person"}
    /\ screen' = "settings"
    /\ UNCHANGED <<draft, forms, saves, carried, left>>

\* addNoteTapped: NoteViewController opens on the note of the draft.
AddNoteTapped ==
    /\ "note" \in Entered
    /\ Leave("note")
    /\ carried' = draft["note"]
    /\ UNCHANGED <<draft, forms, saves>>

\* NoteViewController.choose: a text that is not empty is written back, the one
\* it opened with included; an emptied one leaves the draft's note alone.
NoteChosen ==
    /\ screen = "note"
    /\ \E text \in {carried, NextForm, None} :
          OpenForm(IF text = None THEN draft ELSE [draft EXCEPT !["note"] = text],
                   left)
    /\ UNCHANGED <<saves, left>>

\* cameraView
CameraTapped ==
    /\ "img" \in Entered
    /\ Leave("image")
    /\ UNCHANGED <<draft, forms, saves, carried>>

\* ImageViewController, deletion confirmed: all links leave the draft at once.
ImageDeleted ==
    /\ screen = "image"
    /\ draft["img"] # None
    /\ draft' = [draft EXCEPT !["img"] = None]
    /\ UNCHANGED <<forms, saves, screen, carried, left>>

\* ImageViewController.choose is enabled by a finished upload only.
ImageChosen ==
    /\ screen = "image"
    /\ OpenForm([draft EXCEPT !["img"] = NextForm], left)
    /\ UNCHANGED <<saves, left>>

\* MapView
MapTapped ==
    /\ "track" \in Entered
    /\ Leave("map")
    /\ UNCHANGED <<draft, forms, saves, carried>>

\* MapViewController.SaveDataInfo: time and distance always come back; a walk
\* that got no location has no coordinates and leaves those of the draft.
MapSaved ==
    /\ screen = "map"
    /\ \E new \in {{"track"}, {"track", "path"}} :
          OpenForm([k \in Keys |-> IF k \in new THEN NextForm ELSE draft[k]], left)
    /\ UNCHANGED <<saves, left>>

\* The distance and the note are editable where they stand.
TextTyped(k) ==
    /\ k \in Typable \cap Entered
    /\ screen = "form"
    /\ forms' = [forms EXCEPT ![Top].text = [@ EXCEPT ![k] = Top]]
    /\ UNCHANGED <<draft, saves, screen, carried, left>>

\* The "more walks" control, newWalk: its segment 0 says yes.
MoreWalksTapped ==
    /\ screen = "form"
    /\ forms' = [forms EXCEPT ![Top].more = ~@]
    /\ UNCHANGED <<draft, saves, screen, carried, left>>

-----------------------------------------------------------------------------
(* Saving, clearing, leaving *)

Complete(walk) == \A k \in Required : walk[k] # None

\* SaveWalkTapped with a required field empty: the alert, and saving is allowed.
SaveTappedIncomplete ==
    /\ screen = "form"
    /\ ~forms[Top].allowSave
    /\ ~Complete(forms[Top].text)
    /\ forms' = [forms EXCEPT ![Top].busy = FALSE]
    /\ screen' = "incomplete"
    /\ UNCHANGED <<draft, saves, carried, left>>

\* (mutant: no coordinate is filled in)
WithDefaultTexts(walk) ==
    [k \in Keys |-> IF k = "track" /\ walk[k] = None THEN 0 ELSE walk[k]]
WithDefaults(walk) ==
    [k \in Keys |-> IF k \in Defaulted /\ walk[k] = None THEN 0 ELSE walk[k]]

\* SaveWalkTapped on a complete form: saveAsNormalWalk or saveAsShower, by the what
\* of the walk, hands the texts as they stand to addDocument.
SaveTapped ==
    LET walk == WithDefaults(forms[Top].text)
    IN  /\ screen = "form"
        /\ ~forms[Top].allowSave
        /\ Complete(forms[Top].text)
        /\ Len(saves) < MaxSaves
        /\ forms' = [forms EXCEPT ![Top].text = walk, ![Top].allowSave = TRUE,
                                  ![Top].busy = TRUE]
        /\ saves' = Append(saves, [form |-> Top, walk |-> walk,
                                   status |-> "queued", answer |-> "waiting"])
        /\ UNCHANGED <<draft, screen, carried, left>>

\* SaveWalkTapped while allowSave is set: the indicator, and nothing else.
SaveTappedAgain ==
    /\ screen = "form"
    /\ forms[Top].allowSave
    /\ forms' = [forms EXCEPT ![Top].busy = TRUE]
    /\ UNCHANGED <<draft, saves, screen, carried, left>>

ClearTapped ==
    /\ screen = "form"
    /\ screen' = "clear"
    /\ UNCHANGED <<draft, forms, saves, carried, left>>

ClearConfirmed ==
    /\ screen = "clear"
    /\ draft' = Without(draft, AllWalk)
    /\ forms' = [forms EXCEPT ![Top] = ClearedAll(@)]
    /\ screen' = "form"
    /\ UNCHANGED <<saves, carried, left>>

\* OK on the incomplete alert, Cancel on the clear alert.
AlertClosed ==
    /\ screen \in {"incomplete", "clear"}
    /\ screen' = "form"
    /\ UNCHANGED <<draft, forms, saves, carried, left>>

HistoryTapped ==
    /\ Leave("history")
    /\ draft' = Without(draft, AllWalk)
    /\ forms' = [forms EXCEPT ![Top] = ClearedAll(@)]
    /\ UNCHANGED <<saves, carried>>

SettingsTapped ==
    /\ Leave("settings")
    /\ UNCHANGED <<draft, forms, saves, carried>>

\* A sheet is swiped down: nothing runs, and the form beneath is on top again.
SheetClosed ==
    /\ screen \in Sheets
    /\ screen' = "form"
    /\ carried' = None
    /\ UNCHANGED <<draft, forms, saves, left>>

\* From history or the menus back to a walk.
Return ==
    /\ screen \in {"history", "settings"}
    /\ OpenForm(draft, left)
    /\ UNCHANGED <<saves, left>>

\* MoreViewController, logout: removePersistentDomain empties UserDefaults, and the
\* welcome screen opens.
LoggedOut ==
    /\ screen = "settings"
    /\ draft' = [k \in Keys |-> None]
    /\ screen' = "welcome"
    /\ UNCHANGED <<forms, saves, carried, left>>

\* The user signs in again (btn_login, or the listener of the welcome screen).
LoggedIn ==
    /\ SignedOut
    /\ OpenForm(draft, left)
    /\ UNCHANGED <<saves, left>>

-----------------------------------------------------------------------------
(* The server, the completion handlers, the end of the process *)

\* Firestore keeps its queue on disk, sends it in order and retries until the
\* server takes or refuses the document; the queue of a user who is signed out waits
\* until that user signs in again (SyncEngine::HandleCredentialChange).
ServerAnswers(i, status) ==
    /\ ~SignedOut
    /\ saves[i].status = "queued"
    /\ \A j \in 1..(i - 1) : saves[j].status # "queued"
    /\ saves' = [saves EXCEPT ![i].status = status]
    /\ UNCHANGED <<draft, forms, screen, carried, left>>

\* The completion handler of a refused document.
SaveFailed(i) ==
    /\ saves[i].answer = "waiting" /\ saves[i].status = "refused"
    /\ saves' = [saves EXCEPT ![i].answer = "called"]
    /\ forms' = [forms EXCEPT ![saves[i].form] = Unlocked(@)]
    /\ UNCHANGED <<draft, screen, carried, left>>

\* checkForAdvertisement: an advertisement, or history at once.  UIKit refuses a
\* presentation from a form that already presents something.
ShowsNext(f) ==
    IF f = Top /\ screen = "form" THEN screen' \in {"ad", "history"} /\ left' = Unanswered'
                                  ELSE UNCHANGED <<screen, left>>

\* The completion handler of a stored document; it reads the "more walks" control
\* of its form as it stands now.
SaveSucceeded(i) ==
    LET f == saves[i].form
    IN  /\ saves[i].answer = "waiting" /\ saves[i].status = "stored"
        /\ saves' = [saves EXCEPT ![i].answer = "called"]
        /\ \/ /\ forms[f].more
              /\ draft' = Without(draft, OneWalk)
              /\ forms' = [forms EXCEPT ![f] = ClearedOne(@)]
              /\ UNCHANGED <<screen, left>>
           \/ /\ ~forms[f].more
              /\ draft' = Without(draft, AllWalk)
              /\ forms' = [forms EXCEPT ![f] = ClearedAll(@)]
              /\ ShowsNext(f)
        /\ UNCHANGED carried

\* interstitialDidDismissScreen
AdDismissed ==
    /\ screen = "ad"
    /\ screen' = "history"
    /\ UNCHANGED <<draft, forms, saves, carried, left>>

\* The process ends (killed or crashed) and the app is launched again: the draft
\* and Firestore's queue survive, the completion handlers do not.  The listener of
\* the welcome screen opens a form at once for a user who is signed in.
Relaunch ==
    /\ IF SignedOut THEN UNCHANGED <<draft, forms, screen, carried>>
                    ELSE OpenForm(draft, Unanswered)
    /\ saves' = [i \in DOMAIN saves |->
                    IF saves[i].answer = "waiting" THEN [saves[i] EXCEPT !.answer = "lost"]
                                                   ELSE saves[i]]
    /\ left' = Unanswered

-----------------------------------------------------------------------------
User ==
    \/ \E k \in Keys : ChooseTapped(k) \/ TextTyped(k)
    \/ PickerSaved \/ PickerEmpty
    \/ AddNoteTapped \/ NoteChosen
    \/ CameraTapped \/ ImageDeleted \/ ImageChosen
    \/ MapTapped \/ MapSaved
    \/ MoreWalksTapped
    \/ SaveTappedIncomplete \/ SaveTapped \/ SaveTappedAgain
    \/ ClearTapped \/ ClearConfirmed \/ AlertClosed
    \/ HistoryTapped \/ SettingsTapped \/ SheetClosed \/ Return
    \/ LoggedOut \/ LoggedIn \/ AdDismissed

Server  == \E i \in DOMAIN saves : ServerAnswers(i, "stored") \/ ServerAnswers(i, "refused")
Handler == \E i \in DOMAIN saves : SaveFailed(i) \/ SaveSucceeded(i)

Next == User \/ Server \/ Handler \/ Relaunch

Spec == Init /\ [][Next]_vars

\* Firestore answers every document it was handed, while its user is signed in, and
\* the main queue runs every handler it was given; nothing is assumed of the user, who
\* may log out and stay away.
FairSpec == Spec /\ WF_vars(Server) /\ WF_vars(Handler)

-----------------------------------------------------------------------------
(* Properties *)

Stored    == {i \in DOMAIN saves : saves[i].status = "stored"}
Called(i) == saves[i].answer = "waiting" /\ saves'[i].answer = "called"

\* The lock works inside one form: however often Save is tapped and however the
\* completion handlers interleave with it, a form never has two documents that
\* the server took or may still take (SaveWalkTapped, allowSave).
AtMostOneSavePerForm ==
    \A i, j \in DOMAIN saves :
        i # j /\ saves[i].form = saves[j].form =>
            saves[i].status = "refused" \/ saves[j].status = "refused"

\* The lock is never left closed for nothing, nor the indicator running: a form that
\* refuses to save, or looks busy, has a save in flight or has stored its walk (every
\* path out of SaveWalkTapped and of its completion handler).  So the indicator that a
\* tap on a locked form starts, and no handler will stop, is one of a stored walk.
LockMeansSavingOrSaved ==
    \A f \in DOMAIN forms : forms[f].allowSave \/ forms[f].busy =>
        \E i \in DOMAIN saves :
            saves[i].form = f /\ (saves[i].status = "stored" \/ saves[i].answer # "called")

\* Why AtMostOneSavePerForm is inductive.  A save whose handler has not run keeps
\* its form locked and is the only one to do so; a handler that is lost died with
\* its form, and a new one is open unless nobody is signed in; and a handler that ran
\* for a document the server took emptied the dog of its form, which no step can fill
\* in again.
SaveInv ==
    /\ \A i \in DOMAIN saves :
          /\ saves[i].answer # "called" => forms[saves[i].form].allowSave
          /\ saves[i].answer = "lost" => saves[i].form < Top \/ SignedOut
          /\ saves[i].answer = "called" => saves[i].status # "queued"
          /\ saves[i].answer = "called" /\ saves[i].status = "stored" =>
                forms[saves[i].form].text["dog"] = None
    /\ \A i, j \in DOMAIN saves :
          saves[i].form = saves[j].form
             /\ saves[i].answer # "called" /\ saves[j].answer # "called" => i = j
    /\ AtMostOneSavePerForm

Displayable(walk) == \A k \in Required \cup Defaulted : walk[k] # None

\* What history and the map of a stored walk rely on: it has all required fields
\* and, although a walk may get no location at all, at least one coordinate
\* (ViewRowViewController unwraps locations.first).
StoredWalksDisplayable == \A i \in Stored : Displayable(saves[i].walk)

\* When a duplicate is possible at all: one choice of a dog is stored in two
\* documents only if the user left the form while the first of them was still
\* unanswered and saved again from the form that came up next.
DuplicateNeedsUnansweredSave ==
    \A i, j \in Stored :
        i < j /\ saves[i].walk["dog"] = saves[j].walk["dog"] =>
            i \in forms[saves[j].form].over

\* A completion handler takes from the draft the dog it stored and no other,
\* unless the present form came up while that save was unanswered: only then is
\* the beginning of the next walk lost (removeUserDefaults, removeAllUserDefaults).
HandlerRemovesItsOwnWalk ==
    [][\A i \in DOMAIN saves :
          Called(i) /\ saves[i].status = "stored" =>
              draft["dog"] \in {None, saves[i].walk["dog"]} \/ i \in forms[Top].over]_vars

\* Failures lose nothing: an entry leaves the draft only by Clear, by History, by
\* deleting the images, by logging out or because a document was stored, never by
\* a refused save or the end of the process; and the person only by logging out.
DraftOutlivesFailure ==
    [][\A k \in Keys : draft[k] # None /\ draft'[k] = None =>
          \/ screen = "settings"
          \/ k # "person" /\ (screen = "clear" \/ (screen = "form" /\ screen' = "history"))
          \/ k = "img" /\ screen = "image"
          \/ k # "person" /\ \E i \in Stored : Called(i)]_vars

Waiting(i) == i \in DOMAIN saves /\ saves[i].answer = "waiting"
Settled(i) ==
    /\ i \in DOMAIN saves
    /\ saves[i].answer = "called" => ~forms[saves[i].form].busy
    /\ ~Waiting(i)

\* Every save of a user who is signed in, or comes back, and stays is settled: its
\* handler runs or the process has ended, and when it runs the indicator of its form
\* stops.  A save that is unanswered when its user logs out may wait for good.
SaveSettles == \A i \in 1..MaxSaves : Waiting(i) ~> Settled(i) \/ SignedOut

\* Each form is a session of WalkLog: it is saving while allowSave is set, and
\* saved once the server took a document of its own.
Phase(f) ==
    IF f \notin DOMAIN forms THEN "unopened"
    ELSE IF \E i \in Stored : saves[i].form = f THEN "saved"
    ELSE IF forms[f].allowSave THEN "saving" ELSE "editing"

Log == INSTANCE WalkLog WITH
    Sessions <- 1..MaxForms, Documents <- 1..MaxSaves,
    phase    <- [f \in 1..MaxForms |-> Phase(f)],
    log      <- {[session |-> saves[i].form, id |-> i] : i \in Stored}

\* The screens, the shared draft and the handlers implement the log: every step of
\* the app opens, submits, refuses or takes for one session, or changes nothing.
ImplementsLog == Log!Spec

\* What the comment on allowSave promises, of the app as a whole: no choice of a
\* dog is stored twice.
NoDuplicates ==
    \A i, j \in Stored : saves[i].walk["dog"] = saves[j].walk["dog"] => i = j
=============================================================================
