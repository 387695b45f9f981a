----------------------------- MODULE Registry -----------------------------
(***************************************************************************)
(* The lists of dogs and of persons and their editors:                     *)
(* AddNewViewController, AddDogViewController, PersonViewController,       *)
(* DobViewController and ChooseTimerViewController.                        *)
(*                                                                         *)
(* Screens pile up: every way on presents a new instance, and the user     *)
(* comes back to an earlier one by closing the sheets over it (iOS 13).    *)
(* An editor is handed the values of a row, or none, writes those that are *)
(* not empty into the draft in UserDefaults, and shows the draft: what an  *)
(* earlier editor left there fills the fields the row leaves empty.  The   *)
(* edit mode of a dog goes through UserDefaults, too, and stays there.     *)
(*                                                                         *)
(* A value is the number of the dog or person it describes (0: empty), so  *)
(* that a document which mixes two of them is seen.  The breed is, like    *)
(* the date of birth, a text that may be empty; sex and interval never are *)
(* and are left out.  The alert of a deletion is the one of History.       *)
(* Firestore, UIKit and the advertisements are external.                   *)
(***************************************************************************)
EXTENDS Integers, Sequences, FiniteSets, SequencesExt

CONSTANTS
    Kinds,      \* the kinds of lists looked at: "dog", "person"
    Rows,       \* documents the account may have at first: 1..Rows
    Limit,      \* more rows than this disable + without premium (2 dogs, 4 persons)
    MaxNew,     \* bound: taps on +
    MaxScreens, \* bound: lists and editors made
    MaxDepth,   \* bound: screens piled up by the user
    MaxWrites   \* bound: writes handed to Firestore

ASSUME KindsKnown == Kinds \subseteq {"dog", "person"}
ASSUME RegistryBounds == /\ Rows \in Nat /\ Limit \in Nat /\ MaxNew \in Nat
                         /\ MaxScreens \in Nat /\ MaxDepth \in Nat /\ MaxWrites \in Nat

Subjects == 1..(Rows + MaxNew)
Ids      == 1..(Rows + MaxWrites)
Text     == [{"name", "dob"} -> {0} \cup Subjects]
Blank    == [f \in {"name", "dob"} |-> 0]

\* A document, and a row that shows it; of is the dog or person it was made for.
Doc == [of : Subjects, text : Text]
Row == [id : Ids, of : Subjects, text : Text]
Gone == [of |-> 0]

\* row: the document whose row the editing began with (0: +), subject: what is edited.
List   == [type : {"list"}, no : Nat, asked : Nat, rows : SUBSET Row, enabled : BOOLEAN]
Editor == [type : {"editor"}, no : Nat, subject : Subjects, row : {0} \cup Ids,
           edit : BOOLEAN, doc : {0} \cup Ids, kept : Text, shown : Text, locked : BOOLEAN]
Picker == [type : {"dob", "timer"}, subject : Subjects, row : {0} \cup Ids,
           edit : BOOLEAN, doc : {0} \cup Ids]
Ad     == [type : {"ad"}]
Write  == [op : {"add", "set", "delete"}, id : Ids, of : Subjects, text : Text,
           by : Nat, row : {0} \cup Ids, status : {"queued", "done", "refused"},
           handled : BOOLEAN]

VARIABLES
    docs,    \* the documents of the server
    writes,  \* writes handed to Firestore, in order
    stack,   \* the screens, the last one on top; empty when the process has ended
    draft,   \* nameKey, dobKey (pNameKey, pDobKey)
    sticky,  \* editModeKey
    kind,    \* "dog" or "person": which of the two lists, for good
    premium, \* the premium flag
    made,    \* lists and editors made so far
    new,     \* taps on + so far
    ended,   \* why the process has ended
    strayed  \* history: an editor was closed, or the process ended, over a draft

vars == <<docs, writes, stack, draft, sticky, kind, premium, made, new, ended, strayed>>

Reasons == {"runs", "path", "ad", "segue", "wheel"}

TypeOK ==
    /\ docs \in [Ids -> Doc \cup {Gone}]
    /\ writes \in Seq(Write) /\ Len(writes) <= MaxWrites
    /\ stack \in Seq(List \cup Editor \cup Picker \cup Ad)
    /\ draft \in Text /\ sticky \in BOOLEAN
    /\ kind \in Kinds /\ premium \in BOOLEAN
    /\ made \in Nat /\ new \in 0..MaxNew
    /\ ended \in Reasons /\ (ended = "runs" <=> stack # <<>>)
    /\ strayed \in BOOLEAN

-----------------------------------------------------------------------------
Top == stack[Len(stack)]
On(type) == stack # <<>> /\ Top.type = type
Push(screen) == stack' = Append(stack, screen)
Pile == Len(stack) < MaxDepth /\ made < MaxScreens
Fresh == made + 1

Ends(reason) == stack' = <<>> /\ ended' = reason

NewList(no) == [type |-> "list", no |-> no, asked |-> 1, rows |-> {}, enabled |-> TRUE]

\* getValues: the values that are not empty go to the draft; all are loaded from it.
Overlay(kept) == [f \in DOMAIN kept |-> IF kept[f] # 0 THEN kept[f] ELSE draft[f]]

\* The edit mode of a dog is written when it is set and read back.
EditMode(edit) == IF kind = "dog" THEN edit \/ sticky ELSE edit

\* An editor opens: viewDidLoad, getValues.
OpenEditor(subject, row, edit, doc, kept) ==
    /\ Pile
    /\ draft' = Overlay(kept)
    /\ sticky' = (kind = "dog" /\ EditMode(edit))
    /\ made' = Fresh
    /\ Push([type |-> "editor", no |-> Fresh, subject |-> subject, row |-> row,
             edit |-> EditMode(edit), doc |-> doc, kept |-> kept, shown |-> draft',
             locked |-> FALSE])

\* What a write leaves of its document, and the documents as a query of this device sees
\* them: with the last of the queued writes of each.
Effect(w) == IF w.op = "delete" THEN Gone ELSE [of |-> w.of, text |-> w.text]
Applied(ds, w) == [ds EXCEPT ![w.id] = Effect(w)]
QueuedFor(id) == {k \in DOMAIN writes : writes[k].status = "queued" /\ writes[k].id = id}
Visible == [i \in Ids |-> IF QueuedFor(i) = {} THEN docs[i] ELSE Effect(writes[Max(QueuedFor(i))])]
RowsOf(ds) == {[id |-> i, of |-> ds[i].of, text |-> ds[i].text] :
                  i \in {j \in Ids : ds[j] # Gone}}

Hand(op, id, of, text, by, row) ==
    /\ Len(writes) < MaxWrites
    /\ writes' = Append(writes, [op |-> op, id |-> id, of |-> of, text |-> text,
                                 by |-> by, row |-> row, status |-> "queued",
                                 handled |-> FALSE])
NewId == Rows + 1 + Cardinality({i \in DOMAIN writes : writes[i].op = "add"})

\* The list is opened from the settings; complete documents, or some without a date.
Init ==
    /\ \E n \in 0..Rows : \E dated \in 0..n :
          docs = [i \in Ids |-> IF i > n THEN Gone ELSE
                    [of |-> i, text |-> [name |-> i, dob |-> IF i <= dated THEN i ELSE 0]]]
    /\ writes = <<>> /\ stack = <<NewList(1)>>
    /\ draft = Blank /\ sticky = FALSE
    /\ kind \in Kinds /\ premium \in BOOLEAN
    /\ made = 1 /\ new = 0 /\ ended = "runs" /\ strayed = FALSE

-----------------------------------------------------------------------------
(* The list *)

Enabled(rows, before) ==
    IF rows = {} THEN before ELSE premium \/ Cardinality(rows) <= Limit

RowsArrive(i) ==
    /\ stack[i].type = "list" /\ stack[i].asked > 0
    /\ \E rows \in {RowsOf(Visible), stack[i].rows} :
          stack' = [stack EXCEPT ![i].asked = @ - 1, ![i].rows = rows,
                        ![i].enabled = Enabled(rows, @)]
    /\ UNCHANGED <<docs, writes, draft, sticky, kind, premium, made, new, ended, strayed>>

\* didSelectRowAt, prepare(for:): the values and the id are those of the row.
\* (mutant: the id is that of the last document loaded, docID)
RowTappedLast(r) ==
    /\ On("list") /\ r \in Top.rows
    /\ OpenEditor(r.of, r.id, TRUE, Max({x.id : x \in Top.rows}), r.text)
    /\ UNCHANGED <<docs, writes, kind, premium, new, ended, strayed>>
RowTapped(r) ==
    /\ On("list") /\ r \in Top.rows
    /\ OpenEditor(r.of, r.id, TRUE, r.id, r.text)
    /\ UNCHANGED <<docs, writes, kind, premium, new, ended, strayed>>

\* addNew: an editor is opened with nothing.
PlusTapped ==
    /\ On("list") /\ Top.enabled /\ new < MaxNew
    /\ new' = new + 1
    /\ OpenEditor(Rows + new + 1, 0, FALSE, 0, Blank)
    /\ UNCHANGED <<docs, writes, kind, premium, ended, strayed>>

\* removeRowAtDog, removeRowAtPerson, once confirmed.
RowDeleted(r) ==
    /\ On("list") /\ r \in Top.rows
    /\ Hand("delete", r.id, r.of, Blank, Top.no, r.id)
    /\ UNCHANGED <<docs, stack, draft, sticky, kind, premium, made, new, ended, strayed>>

-----------------------------------------------------------------------------
(* The editor and its pickers *)

\* The name is typed; the user means the one being edited.
NameTyped ==
    /\ On("editor")
    /\ Top.shown["name"] # Top.subject
    /\ stack' = [stack EXCEPT ![Len(stack)].shown["name"] = Top.subject]
    /\ UNCHANGED <<docs, writes, draft, sticky, kind, premium, made, new, ended, strayed>>

\* dob, dobTapped, timerTapped: the fields are kept in the draft and a picker opens.
PickerTapped(type) ==
    /\ On("editor") /\ Pile
    /\ type = "timer" => kind = "dog"
    /\ LET text == Overlay(Top.shown)
           edit == EditMode(Top.edit)
       IN  /\ draft' = text
           /\ sticky' = (kind = "dog" /\ edit)
           /\ stack' = Append([stack EXCEPT ![Len(stack)].kept = Top.shown,
                                            ![Len(stack)].shown = text,
                                            ![Len(stack)].edit = edit],
                              [type |-> type, subject |-> Top.subject, row |-> Top.row,
                               edit |-> edit, doc |-> IF edit THEN Top.doc ELSE 0])
    /\ UNCHANGED <<docs, writes, kind, premium, made, new, ended, strayed>>

\* premiumTapped: getValues without reading the fields first.  (The premium screens and
\* the alert that is shown instead of them change nothing here.)
PremiumTapped ==
    /\ On("editor") /\ kind = "dog"
    /\ LET text == Overlay(Top.kept)
           edit == EditMode(Top.edit)
       IN  /\ draft' = text
           /\ sticky' = edit
           /\ stack' = [stack EXCEPT ![Len(stack)].shown = text, ![Len(stack)].edit = edit]
    /\ UNCHANGED <<docs, writes, kind, premium, made, new, ended, strayed>>

DobChosen ==
    /\ On("dob")
    /\ OpenEditor(Top.subject, Top.row, Top.edit, Top.doc,
                  [Blank EXCEPT !["dob"] = Top.subject])
    /\ UNCHANGED <<docs, writes, kind, premium, new, ended, strayed>>

\* saveButtonTapped: with premium there is no advertisement to ask; the wheel of a new dog
\* has no row until it is turned.
TimerSaved(turned) ==
    /\ On("timer")
    /\ IF premium \/ ~(turned \/ Top.edit)
       THEN /\ Ends(IF premium THEN "ad" ELSE "wheel")
            /\ UNCHANGED <<draft, sticky, made>>
       ELSE /\ OpenEditor(Top.subject, Top.row, Top.edit, Top.doc, Blank)
            /\ UNCHANGED ended
    /\ UNCHANGED <<docs, writes, kind, premium, new, strayed>>

\* saveNewDog takes the lock first, save of a person has none.
\* (mutant: the lock is taken by an edit only)
LocksEdits == kind = "dog" /\ Top.edit
Locks == kind = "dog"

\* saveNewDog, save: refused without a name, else the document is added or replaced.
SaveTapped ==
    /\ On("editor") /\ ~Top.locked
    /\ LET locked == [stack EXCEPT ![Len(stack)].locked = Locks]
       IN  IF Top.shown["name"] = 0
           THEN stack' = locked /\ UNCHANGED <<writes, ended>>
           ELSE IF Top.edit /\ Top.doc = 0
           THEN Ends("path") /\ UNCHANGED writes
           ELSE /\ Hand(IF Top.edit THEN "set" ELSE "add",
                        IF Top.edit THEN Top.doc ELSE NewId,
                        Top.subject, Top.shown, Top.no, Top.row)
                /\ stack' = locked
                /\ UNCHANGED ended
    /\ UNCHANGED <<docs, draft, sticky, kind, premium, made, new, strayed>>

\* The sheet on top is swiped down.
SheetClosed ==
    /\ Len(stack) > 1 /\ Top.type # "ad"
    /\ stack' = Front(stack)
    /\ strayed' = (strayed \/ (Top.type = "editor" /\ draft # Blank))
    /\ UNCHANGED <<docs, writes, draft, sticky, kind, premium, made, new, ended>>

\* interstitialDidDismissScreen: a segue that does not exist, or the list of persons.
AdDismissed ==
    /\ On("ad")
    /\ IF kind = "dog"
       THEN Ends("segue") /\ UNCHANGED made
       ELSE /\ stack' = Append(Front(stack), NewList(Fresh))
            /\ made' = Fresh
            /\ UNCHANGED ended
    /\ UNCHANGED <<docs, writes, draft, sticky, kind, premium, new, strayed>>

-----------------------------------------------------------------------------
(* Firestore and its handlers *)

\* The success branch of an editor's handler, after it has cleared the draft.
ShowsList(no) ==
    IF premium THEN Ends("ad") /\ UNCHANGED made
    ELSE /\ UNCHANGED ended
         /\ IF On("editor") /\ Top.no = no
            THEN \/ Push(NewList(Fresh)) /\ made' = Fresh
                 \/ Push([type |-> "ad"]) /\ UNCHANGED made
            ELSE UNCHANGED <<stack, made>>

\* (mutant: the draft is left to the next editor)
ClearedNever(w, ok) == FALSE
Cleared(w, ok) ==
    IF ok THEN w.op # "delete" \/ kind = "dog" ELSE w.op # "delete" /\ kind = "person"

\* The first queued write is answered, and its handler runs if the process has not ended.
Answered(ok) ==
    \E i \in DOMAIN writes :
        LET w == writes[i]
            here == ~w.handled /\ stack # <<>>
        IN  /\ w.status = "queued"
            /\ \A j \in 1..(i - 1) : writes[j].status # "queued"
            /\ writes' = [writes EXCEPT ![i].status = IF ok THEN "done" ELSE "refused",
                                        ![i].handled = TRUE]
            /\ docs' = IF ok THEN Applied(docs, w) ELSE docs
            /\ draft' = IF here /\ Cleared(w, ok) THEN Blank ELSE draft
            /\ IF ~here \/ ~ok THEN UNCHANGED <<stack, made, ended>>
               ELSE IF w.op = "delete"
               THEN /\ stack' = [k \in DOMAIN stack |->
                           IF stack[k].type = "list" /\ stack[k].no = w.by
                           THEN [stack[k] EXCEPT !.rows = {}, !.asked = @ + 1]
                           ELSE stack[k]]
                    /\ UNCHANGED <<made, ended>>
               ELSE ShowsList(w.by)
            /\ UNCHANGED <<sticky, kind, premium, new, strayed>>

\* The process has ended, or is killed now; it is launched, and the list opened again.
Relaunched ==
    /\ made < MaxScreens
    /\ stack' = <<NewList(Fresh)>> /\ made' = Fresh /\ ended' = "runs"
    /\ writes' = [i \in DOMAIN writes |-> [writes[i] EXCEPT !.handled = TRUE]]
    /\ strayed' = (strayed \/ draft # Blank)
    /\ UNCHANGED <<docs, draft, sticky, kind, premium, new>>

-----------------------------------------------------------------------------
Next ==
    \/ \E i \in DOMAIN stack : RowsArrive(i)
    \/ On("list") /\ \E r \in Top.rows : RowTapped(r) \/ RowDeleted(r)
    \/ PlusTapped
    \/ NameTyped \/ SaveTapped \/ PremiumTapped
    \/ \E type \in {"dob", "timer"} : PickerTapped(type)
    \/ DobChosen
    \/ \E turned \in BOOLEAN : TimerSaved(turned)
    \/ SheetClosed \/ AdDismissed
    \/ \E ok \in BOOLEAN : Answered(ok)
    \/ Relaunched

Spec == Init /\ [][Next]_vars

-----------------------------------------------------------------------------
(* Properties *)

\* An editing that began with a row replaces the document of that row and no other, and
\* adds none, however many pickers and new editors it goes through: id and edit mode are
\* handed on by hand at each of them (DobViewController 72-129, ChooseTimer 161-177).
EditReplacesItsRow ==
    \A i \in DOMAIN writes :
        /\ writes[i].op = "set" => writes[i].id = writes[i].row
        /\ writes[i].op = "add" => writes[i].row = 0

\* The lock of AddDogViewController (addNew): no editor of a dog stores twice, whatever is
\* tapped before and after the answer.
AtMostOneSavePerEditor ==
    \A i, j \in DOMAIN writes :
        /\ i # j /\ writes[i].by = writes[j].by
        /\ writes[i].op # "delete" /\ writes[j].op # "delete"
        => kind = "person"

\* The texts of one dog or person get into the document of another only if the sheet of an
\* editor was closed, or the process ended, over a draft with something in it, not saved or
\* not known to be saved yet: pickers closed, answers of the list that fail, are late or
\* still outstanding do no harm, as the success handler clears the draft before any other
\* editor can open.
MixNeedsStraying ==
    ~strayed => \A i \in DOMAIN writes : \A f \in {"name", "dob"} :
                    writes[i].text[f] \in {0, writes[i].of}
=============================================================================
