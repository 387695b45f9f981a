--------------------------- MODULE WalkFormProofs ---------------------------
(***************************************************************************)
(* Proofs about WalkForm for every number of forms and of saves: its type  *)
(* invariant, that the lock of a form lets at most one of its saves        *)
(* through to the server, and that the form implements WalkLog.            *)
(***************************************************************************)
EXTENDS WalkForm, SequenceTheorems, TLAPS

-----------------------------------------------------------------------------
(* Types *)

\* Loading a draft and clearing a form yield forms.
LEMMA FormTypes ==
    ASSUME NEW walk \in Walk, NEW unanswered \in SUBSET Nat, NEW form \in Form
    PROVE  /\ NewForm(walk, unanswered) \in Form
           /\ ClearedOne(form) \in Form
           /\ ClearedAll(form) \in Form
           /\ \A keys : Without(walk, keys) \in Walk
           /\ WithDefaults(walk) \in Walk
<1>1. \A w \in Walk : \A keys : Without(w, keys) \in Walk
  BY DEF Without, Walk, Value
<1>2. WithDefaults(walk) \in Walk
  BY DEF WithDefaults, Walk, Value
<1>3. form.text \in Walk
  BY DEF Form
<1>4. ClearedOne(form) \in Form
  BY <1>1, <1>3 DEF ClearedOne, Form
<1>5. ClearedAll(form) \in Form
  BY <1>1, <1>3 DEF ClearedAll, Form
<1>6. NewForm(walk, unanswered) \in Form
  BY DEF NewForm, Form
<1>7. QED
  BY <1>1, <1>2, <1>4, <1>5, <1>6

\* The form on screen exists; the saves are numbered.
LEMMA Indices ==
    ASSUME TypeOK
    PROVE  /\ Top \in 1..Len(forms) /\ Top \in Nat
           /\ DOMAIN forms = 1..Len(forms)
           /\ \A f \in DOMAIN forms : forms[f] \in Form
           /\ Len(saves) \in Nat
           /\ DOMAIN saves = 1..Len(saves)
           /\ \A i \in DOMAIN saves : saves[i] \in Save
           /\ Unanswered \in SUBSET Nat
  BY BoundsAreNat, LenProperties DEF TypeOK, Top, Unanswered

\* Replacing one form leaves the others and their number.
LEMMA FormReplaced ==
    ASSUME TypeOK, NEW f \in DOMAIN forms, NEW form \in Form,
           forms' = [forms EXCEPT ![f] = form]
    PROVE  /\ forms' \in Seq(Form) /\ Len(forms') = Len(forms)
           /\ DOMAIN forms' = DOMAIN forms
           /\ \A g \in DOMAIN forms : forms'[g] = IF g = f THEN form ELSE forms[g]
  BY ExceptSeq, LenProperties, Indices DEF TypeOK

\* Replacing one save leaves the others and their number.
LEMMA SaveReplaced ==
    ASSUME TypeOK, NEW i \in DOMAIN saves, NEW save \in Save,
           saves' = [saves EXCEPT ![i] = save]
    PROVE  /\ saves' \in Seq(Save) /\ Len(saves') = Len(saves)
           /\ DOMAIN saves' = DOMAIN saves
           /\ \A j \in DOMAIN saves : saves'[j] = IF j = i THEN save ELSE saves[j]
  BY ExceptSeq, LenProperties, Indices DEF TypeOK

\* Opening a form adds it on top and touches no other.
LEMMA FormOpened ==
    ASSUME TypeOK, NEW walk \in Walk, NEW unanswered \in SUBSET Nat,
           OpenForm(walk, unanswered)
    PROVE  /\ draft' \in Walk
           /\ forms' \in Seq(Form)
           /\ Len(forms') = Len(forms) + 1 /\ Len(forms') <= MaxForms
           /\ DOMAIN forms' = 1..(Len(forms) + 1)
           /\ \A f \in DOMAIN forms : forms'[f] = forms[f]
           /\ forms'[Len(forms) + 1] = NewForm(walk, unanswered)
           /\ screen' \in Screen
           /\ carried' \in Value
<1>1. NewForm(walk, unanswered) \in Form
  BY FormTypes DEF Form, NewForm
<1>2. forms' = Append(forms, NewForm(walk, unanswered))
  BY DEF OpenForm
<1>3. forms \in Seq(Form) /\ Len(forms) \in Nat
  BY LenProperties DEF TypeOK
<1>4. /\ forms' \in Seq(Form)
      /\ Len(forms') = Len(forms) + 1
      /\ \A f \in 1..Len(forms) : forms'[f] = forms[f]
      /\ forms'[Len(forms) + 1] = NewForm(walk, unanswered)
  BY <1>1, <1>2, <1>3
<1>5. Len(forms') <= MaxForms
  BY <1>3, <1>4, BoundsAreNat DEF OpenForm, Top
<1>6. DOMAIN forms' = 1..(Len(forms) + 1) /\ DOMAIN forms = 1..Len(forms)
  BY <1>3, <1>4, LenProperties
<1>7. draft' \in Walk /\ screen' \in Screen /\ carried' \in Value
  BY DEF OpenForm, Screen, Value
<1>8. QED
  BY <1>4, <1>5, <1>6, <1>7

\* The two documents' kinds, the defaults and the server's answers keep a save a
\* save; a lost handler does too.
LEMMA SaveTypes ==
    ASSUME NEW save \in Save, NEW status \in {"queued", "stored", "refused"},
           NEW answer \in {"waiting", "called", "lost"}
    PROVE  /\ [save EXCEPT !.status = status] \in Save
           /\ [save EXCEPT !.answer = answer] \in Save
  BY DEF Save

\* The forms after each action that changes one form and opens none.
OneFormChanged(f, form) ==
    /\ f \in DOMAIN forms
    /\ form \in Form
    /\ forms' = [forms EXCEPT ![f] = form]

\* Clearing a form takes its dog and leaves its lock, or opens it.
LEMMA ClearedForms ==
    ASSUME NEW form \in Form
    PROVE  /\ ClearedOne(form) \in Form /\ ClearedAll(form) \in Form
           /\ ClearedOne(form).text["dog"] = None /\ ClearedAll(form).text["dog"] = None
           /\ ClearedAll(form).allowSave = form.allowSave
<1>1. form.text \in Walk
  BY DEF Form
<1>2. ClearedOne(form) \in Form /\ ClearedAll(form) \in Form
  BY <1>1, FormTypes DEF Form
<1>3. ClearedOne(form).text = Without(form.text, OneText)
  BY DEF ClearedOne, Form
<1>4. ClearedAll(form).text = Without(form.text, AllText)
  BY DEF ClearedAll, Form
<1>5. ClearedAll(form).allowSave = form.allowSave
  BY DEF ClearedAll, Form
<1>6. QED
  BY <1>2, <1>3, <1>4, <1>5 DEF Without, OneText, AllText, Keys

\* SaveTapped: the form on screen is locked and its walk joins the queue.
LEMMA SaveTappedEffect ==
    ASSUME TypeOK, SaveTapped
    PROVE  /\ forms' \in Seq(Form) /\ Len(forms') = Len(forms)
           /\ DOMAIN forms' = DOMAIN forms
           /\ \A f \in DOMAIN forms \ {Top} : forms'[f] = forms[f]
           /\ forms'[Top].allowSave
           /\ forms'[Top].text = WithDefaults(forms[Top].text)
           /\ saves' \in Seq(Save) /\ Len(saves') = Len(saves) + 1 /\ Len(saves') <= MaxSaves
           /\ DOMAIN saves' = 1..(Len(saves) + 1)
           /\ \A i \in DOMAIN saves : saves'[i] = saves[i]
           /\ saves'[Len(saves) + 1] =
                 [form |-> Top, walk |-> WithDefaults(forms[Top].text),
                  status |-> "queued", answer |-> "waiting"]
<1> DEFINE walk == WithDefaults(forms[Top].text)
           form == [forms[Top] EXCEPT !.text = walk, !.allowSave = TRUE, !.busy = TRUE]
           save == [form |-> Top, walk |-> walk, status |-> "queued",
                    answer |-> "waiting"]
<1>1. forms[Top] \in Form /\ Top \in DOMAIN forms /\ Top \in Nat /\ forms[Top].text \in Walk
  BY Indices DEF Form
<1>2. walk \in Walk
  BY <1>1, FormTypes
<1>4. form \in Form
  BY <1>1, <1>2 DEF Form
<1>5. forms' = [forms EXCEPT ![Top] = form]
  BY <1>1 DEF SaveTapped
<1>6. /\ forms' \in Seq(Form) /\ Len(forms') = Len(forms) /\ DOMAIN forms' = DOMAIN forms
      /\ \A f \in DOMAIN forms \ {Top} : forms'[f] = forms[f]
      /\ forms'[Top] = form
  BY <1>1, <1>4, <1>5, FormReplaced
<1>7. form.allowSave /\ form.text = walk
  BY <1>1 DEF Form
<1>8. save \in Save
  BY <1>1, <1>2 DEF Save
<1>9. saves' = Append(saves, save) /\ Len(saves) < MaxSaves
  BY DEF SaveTapped
<1>10. saves \in Seq(Save) /\ Len(saves) \in Nat /\ DOMAIN saves = 1..Len(saves)
  BY Indices DEF TypeOK
<1>11. /\ saves' \in Seq(Save) /\ Len(saves') = Len(saves) + 1
       /\ \A i \in 1..Len(saves) : saves'[i] = saves[i]
       /\ saves'[Len(saves) + 1] = save
  BY <1>8, <1>9, <1>10
<1>12. DOMAIN saves' = 1..(Len(saves) + 1) /\ Len(saves') <= MaxSaves
  BY <1>9, <1>10, <1>11, BoundsAreNat, LenProperties
<1>13. QED
  BY <1>6, <1>7, <1>10, <1>11, <1>12

\* A completion handler marks its save, changes its own form and may take keys
\* from the draft; it closes the lock of no form.
LEMMA HandlerEffect ==
    ASSUME TypeOK, NEW i \in DOMAIN saves, SaveFailed(i) \/ SaveSucceeded(i)
    PROVE  LET f == saves[i].form
           IN  /\ draft' \in Walk
               /\ forms' \in Seq(Form) /\ Len(forms') = Len(forms)
               /\ DOMAIN forms' = DOMAIN forms
               /\ \A g \in DOMAIN forms \ {f} : forms'[g] = forms[g]
               /\ saves' = [saves EXCEPT ![i] = [saves[i] EXCEPT !.answer = "called"]]
               /\ saves' \in Seq(Save) /\ Len(saves') = Len(saves)
               /\ DOMAIN saves' = DOMAIN saves
               /\ screen' \in Screen /\ carried' \in Value /\ left' \in SUBSET Nat
               /\ SignedOut => SignedOut'
               /\ saves[i].answer = "waiting"
               /\ forms'[f].text["dog"] \in {None, forms[f].text["dog"]}
               /\ \/ /\ saves[i].status = "refused"
                     /\ ~forms'[f].allowSave /\ ~forms'[f].busy
                  \/ /\ saves[i].status = "stored"
                     /\ forms'[f].text["dog"] = None
<1> DEFINE f == saves[i].form
<1>1. forms[f] \in Form /\ forms[f].text \in Walk /\ f \in DOMAIN forms
  BY Indices DEF Form, TypeOK
<1>2. [saves[i] EXCEPT !.answer = "called"] \in Save
  BY Indices, SaveTypes
<1>3. saves' = [saves EXCEPT ![i] = [saves[i] EXCEPT !.answer = "called"]]
  BY DEF SaveFailed, SaveSucceeded
<1>4. saves' \in Seq(Save) /\ Len(saves') = Len(saves) /\ DOMAIN saves' = DOMAIN saves
  BY <1>2, <1>3, SaveReplaced
<1>5. Unanswered' \in SUBSET Nat
  BY <1>4, Indices DEF Unanswered
<1>6. draft \in Walk /\ left \in SUBSET Nat /\ screen \in Screen /\ carried \in Value
  BY DEF TypeOK
<1>7. CASE SaveFailed(i)
  <2> DEFINE form == [forms[f] EXCEPT !.allowSave = FALSE, !.busy = FALSE]
  <2>1. form \in Form /\ ~form.allowSave /\ ~form.busy /\ form.text = forms[f].text
    BY <1>1 DEF Form
  <2>2. forms' = [forms EXCEPT ![f] = form]
    BY <1>7, <1>1 DEF SaveFailed, Unlocked
  <2>3. /\ forms' \in Seq(Form) /\ Len(forms') = Len(forms) /\ DOMAIN forms' = DOMAIN forms
        /\ \A g \in DOMAIN forms : forms'[g] = IF g = f THEN form ELSE forms[g]
    BY <1>1, <2>1, <2>2, FormReplaced
  <2>4. forms'[f] = form
    BY <2>3, <1>1
  <2>5. QED
    BY <1>3, <1>4, <1>6, <1>7, <2>1, <2>3, <2>4 DEF SaveFailed, SignedOut
<1>8. CASE SaveSucceeded(i)
  <2>1. \A keys : Without(draft, keys) \in Walk
    BY <1>6, FormTypes DEF Without, Walk, Value
  <2>2. screen' \in Screen /\ left' \in SUBSET Nat /\ (SignedOut => SignedOut')
    BY <1>8, <1>5, <1>6 DEF SaveSucceeded, ShowsNext, Screen, SignedOut
  <2>3. \E form \in {ClearedOne(forms[f]), ClearedAll(forms[f])} :
          forms' = [forms EXCEPT ![f] = form]
    BY <1>8 DEF SaveSucceeded
  <2>4. PICK form \in {ClearedOne(forms[f]), ClearedAll(forms[f])} :
          forms' = [forms EXCEPT ![f] = form]
    BY <2>3
  <2>5. form \in Form /\ form.text["dog"] = None
    BY <1>1, ClearedForms
  <2>6. /\ forms' \in Seq(Form) /\ Len(forms') = Len(forms) /\ DOMAIN forms' = DOMAIN forms
        /\ \A g \in DOMAIN forms : forms'[g] = IF g = f THEN form ELSE forms[g]
    BY <1>1, <2>4, <2>5, FormReplaced
  <2>7. forms'[f] = form
    BY <2>6, <1>1
  <2>8. draft' \in Walk /\ carried' = carried
    BY <2>1, <1>8 DEF SaveSucceeded
  <2>9. QED
    BY <1>3, <1>4, <1>6, <1>8, <2>2, <2>5, <2>6, <2>7, <2>8 DEF SaveSucceeded
<1>9. QED
  BY <1>7, <1>8

\* The end of the process silences the handlers and nothing else of the saves; a form
\* opens over the others if a user is signed in.
LEMMA RelaunchEffect ==
    ASSUME TypeOK, Relaunch
    PROVE  /\ saves' \in Seq(Save) /\ Len(saves') = Len(saves)
           /\ DOMAIN saves' = DOMAIN saves
           /\ \A i \in DOMAIN saves :
                 /\ saves'[i].form = saves[i].form
                 /\ saves'[i].walk = saves[i].walk
                 /\ saves'[i].status = saves[i].status
                 /\ saves'[i].answer = IF saves[i].answer = "waiting" THEN "lost"
                                                                    ELSE saves[i].answer
           /\ draft' = draft /\ left' = Unanswered /\ left' \in SUBSET Nat
           /\ \/ ~SignedOut /\ OpenForm(draft, Unanswered)
              \/ SignedOut /\ UNCHANGED <<forms, screen, carried>>
<1> DEFINE silenced(i) == IF saves[i].answer = "waiting"
                          THEN [saves[i] EXCEPT !.answer = "lost"] ELSE saves[i]
<1>1. /\ Len(saves) \in Nat /\ DOMAIN saves = 1..Len(saves)
      /\ \A i \in DOMAIN saves : saves[i] \in Save
      /\ Unanswered \in SUBSET Nat
  BY Indices
<1>2. saves' = [i \in 1..Len(saves) |-> silenced(i)]
  BY <1>1 DEF Relaunch
<1>3. \A i \in DOMAIN saves : silenced(i) \in Save
  BY <1>1, SaveTypes
<1>4. saves' \in [1..Len(saves) -> Save]
  BY <1>1, <1>2, <1>3
<1>5. saves' \in Seq(Save)
  BY <1>1, <1>4, SeqDef
<1>6. DOMAIN saves' = DOMAIN saves /\ Len(saves') = Len(saves)
  BY <1>1, <1>2, <1>5, LenProperties
<1>7. \A i \in DOMAIN saves : saves'[i] = silenced(i)
  BY <1>1, <1>2
<1>8. \A i \in DOMAIN saves :
         /\ saves'[i].form = saves[i].form /\ saves'[i].walk = saves[i].walk
         /\ saves'[i].status = saves[i].status
         /\ saves'[i].answer = IF saves[i].answer = "waiting" THEN "lost"
                                                            ELSE saves[i].answer
  BY <1>1, <1>7 DEF Save
<1>9. QED
  BY <1>1, <1>5, <1>6, <1>8 DEF Relaunch, OpenForm

LEMMA TypeStep == TypeOK /\ [Next]_vars => TypeOK'
<1> SUFFICES ASSUME TypeOK, [Next]_vars PROVE TypeOK'
  OBVIOUS
<1>0. /\ Top \in DOMAIN forms /\ forms[Top] \in Form
      /\ forms[Top].text \in Walk
      /\ Unanswered \in SUBSET Nat
      /\ left \in SUBSET Nat /\ draft \in Walk /\ NextForm \in Nat
  BY Indices DEF Form, TypeOK, NextForm
<1> DEFINE SavesSame  == saves' = saves
           FormsSame  == forms' = forms
           OthersOK   == screen' \in Screen /\ carried' \in Value /\ left' \in SUBSET Nat
           DraftOK    == draft' \in Walk
<1>a. ASSUME draft' \in Walk, FormsSame, SavesSame, OthersOK PROVE TypeOK'
  BY <1>a DEF TypeOK
<1>b. ASSUME NEW f, NEW form, OneFormChanged(f, form), draft' \in Walk, SavesSame, OthersOK
      PROVE  TypeOK'
  BY <1>b, FormReplaced DEF TypeOK, OneFormChanged
<1>c. ASSUME NEW walk \in Walk, NEW unanswered \in SUBSET Nat,
             OpenForm(walk, unanswered), SavesSame, left' \in SUBSET Nat
      PROVE  TypeOK'
  <2>1. Len(forms') \in 1..MaxForms /\ DOMAIN forms \subseteq DOMAIN forms'
    BY <1>c, FormOpened, Indices, BoundsAreNat DEF TypeOK
  <2>2. QED
    BY <1>c, <2>1, FormOpened DEF TypeOK
<1>1. ASSUME NEW k \in Keys, ChooseTapped(k) PROVE TypeOK'
  BY <1>1, <1>a, <1>0 DEF ChooseTapped, Leave, TypeOK, Screen, Required
<1>2. ASSUME NEW k \in Keys, TextTyped(k) PROVE TypeOK'
  <2> DEFINE form == [forms[Top] EXCEPT !.text = [@ EXCEPT ![k] = Top]]
  <2>1. [forms[Top].text EXCEPT ![k] = Top] \in Walk
    BY <1>0, Indices DEF Walk, Value
  <2>2. form \in Form
    BY <2>1, <1>0 DEF Form
  <2>3. OneFormChanged(Top, form)
    BY <2>2, <1>2, <1>0 DEF TextTyped, OneFormChanged
  <2>4. QED
    BY <2>3, <1>2, <1>b, <1>0 DEF TextTyped, TypeOK
<1>3. CASE PickerSaved
  <2>1. ASSUME NEW v \in Value, OpenForm([draft EXCEPT ![screen] = v], left),
               screen \in Required
        PROVE  TypeOK'
    <3>1. [draft EXCEPT ![screen] = v] \in Walk
      BY <2>1, <1>0 DEF Walk
    <3>2. QED
      BY <3>1, <2>1, <1>3, <1>c, <1>0 DEF PickerSaved
  <2>2. ASSUME OpenForm(draft, left) PROVE TypeOK'
    BY <2>2, <1>3, <1>c, <1>0 DEF PickerSaved
  <2>3. Kinds \subseteq Value /\ {NextForm} \subseteq Value
    BY <1>0 DEF Value
  <2>4. QED
    BY <1>3, <2>1, <2>2, <2>3 DEF PickerSaved
<1>4. CASE PickerEmpty
  BY <1>4, <1>a, <1>0 DEF PickerEmpty, TypeOK, Screen
<1>5. CASE AddNoteTapped
  <2>1. draft["note"] \in Value
    BY <1>0 DEF Walk, Keys
  <2>2. QED
    BY <2>1, <1>5, <1>a, <1>0 DEF AddNoteTapped, Leave, TypeOK, Screen
<1>6. CASE NoteChosen
  <2>1. PICK text \in {carried, NextForm, None} :
           OpenForm(IF text = None THEN draft ELSE [draft EXCEPT !["note"] = text], left)
    BY <1>6 DEF NoteChosen
  <2>2. text \in Value
    BY <1>0 DEF TypeOK, Value
  <2>3. (IF text = None THEN draft ELSE [draft EXCEPT !["note"] = text]) \in Walk
    BY <2>2, <1>0 DEF Walk
  <2>4. QED
    BY <2>1, <2>3, <1>6, <1>c, <1>0 DEF NoteChosen
<1>7. CASE CameraTapped
  BY <1>7, <1>a, <1>0 DEF CameraTapped, Leave, TypeOK, Screen
<1>8. CASE ImageDeleted
  <2>1. draft' \in Walk
    BY <1>8, <1>0 DEF ImageDeleted, Walk, Value
  <2>2. QED
    BY <2>1, <1>8, <1>a DEF ImageDeleted, TypeOK
<1>9. CASE ImageChosen
  <2>1. [draft EXCEPT !["img"] = NextForm] \in Walk
    BY <1>0 DEF Walk, Value
  <2>2. QED
    BY <2>1, <1>9, <1>c, <1>0 DEF ImageChosen
<1>10. CASE MapTapped
  BY <1>10, <1>a, <1>0 DEF MapTapped, Leave, TypeOK, Screen
<1>11. CASE MapSaved
  <2>1. PICK new \in {{"track"}, {"track", "path"}} :
          OpenForm([k \in Keys |-> IF k \in new THEN NextForm ELSE draft[k]], left)
    BY <1>11 DEF MapSaved
  <2>2. [k \in Keys |-> IF k \in new THEN NextForm ELSE draft[k]] \in Walk
    BY <1>0 DEF Walk, Value
  <2>3. QED
    BY <2>1, <2>2, <1>11, <1>c, <1>0 DEF MapSaved
<1>12. CASE MoreWalksTapped
  <2>1. [forms[Top] EXCEPT !.more = ~@] \in Form
    BY <1>0 DEF Form
  <2>2. OneFormChanged(Top, [forms[Top] EXCEPT !.more = ~@])
    BY <2>1, <1>12, <1>0 DEF MoreWalksTapped, OneFormChanged
  <2>3. QED
    BY <2>2, <1>12, <1>b, <1>0 DEF MoreWalksTapped, TypeOK
<1>13. CASE SaveTappedIncomplete
  <2>1. [forms[Top] EXCEPT !.busy = FALSE] \in Form
    BY <1>0 DEF Form
  <2>2. OneFormChanged(Top, [forms[Top] EXCEPT !.busy = FALSE])
    BY <2>1, <1>13, <1>0 DEF SaveTappedIncomplete, OneFormChanged
  <2>3. QED
    BY <2>2, <1>13, <1>b, <1>0 DEF SaveTappedIncomplete, TypeOK, Screen
<1>14. CASE SaveTapped
  <2>0. \A i \in DOMAIN saves : saves[i].form \in DOMAIN forms
    BY DEF TypeOK
  <2>a. /\ DOMAIN forms' = DOMAIN forms
        /\ DOMAIN saves = 1..Len(saves) /\ Len(saves) \in Nat
        /\ DOMAIN saves' = 1..(Len(saves) + 1)
        /\ \A i \in DOMAIN saves : saves'[i] = saves[i]
        /\ saves'[Len(saves) + 1].form = Top
    BY <1>14, SaveTappedEffect, Indices
  <2>1. \A i \in DOMAIN saves' : saves'[i].form \in DOMAIN forms'
    BY <1>0, <2>0, <2>a
  <2>2. QED
    BY <1>14, <2>1, SaveTappedEffect DEF SaveTapped, TypeOK
<1>15. CASE SaveTappedAgain
  <2>1. [forms[Top] EXCEPT !.busy = TRUE] \in Form
    BY <1>0 DEF Form
  <2>2. OneFormChanged(Top, [forms[Top] EXCEPT !.busy = TRUE])
    BY <2>1, <1>15, <1>0 DEF SaveTappedAgain, OneFormChanged
  <2>3. QED
    BY <2>2, <1>15, <1>b, <1>0 DEF SaveTappedAgain, TypeOK
<1>16. CASE ClearTapped
  BY <1>16, <1>a DEF ClearTapped, TypeOK, Screen
<1>17. CASE ClearConfirmed
  <2>1. OneFormChanged(Top, ClearedAll(forms[Top]))
    BY FormTypes, <1>17, <1>0 DEF ClearConfirmed, OneFormChanged
  <2>2. Without(draft, AllWalk) \in Walk
    BY FormTypes, <1>0
  <2>3. QED
    BY <2>1, <2>2, <1>17, <1>b DEF ClearConfirmed, TypeOK, Screen
<1>18. CASE AlertClosed
  BY <1>18, <1>a DEF AlertClosed, TypeOK, Screen
<1>19. CASE HistoryTapped
  <2>1. OneFormChanged(Top, ClearedAll(forms[Top]))
    BY FormTypes, <1>19, <1>0 DEF HistoryTapped, OneFormChanged
  <2>2. Without(draft, AllWalk) \in Walk
    BY FormTypes, <1>0
  <2>3. QED
    BY <2>1, <2>2, <1>19, <1>0, <1>b DEF HistoryTapped, Leave, TypeOK, Screen
<1>20. CASE SettingsTapped
  BY <1>20, <1>a, <1>0 DEF SettingsTapped, Leave, TypeOK, Screen
<1>21. CASE Return
  BY <1>21, <1>c, <1>0 DEF Return
<1>22. CASE LoggedOut
  <2>1. draft' \in Walk
    BY <1>22 DEF LoggedOut, Walk, Value
  <2>2. QED
    BY <2>1, <1>22, <1>a DEF LoggedOut, TypeOK, Screen
<1>23. CASE AdDismissed
  BY <1>23, <1>a DEF AdDismissed, TypeOK, Screen
<1>24. ASSUME NEW i \in DOMAIN saves, NEW status \in {"stored", "refused"},
              ServerAnswers(i, status)
       PROVE  TypeOK'
  <2>1. [saves[i] EXCEPT !.status = status] \in Save
    BY Indices, SaveTypes
  <2>2. saves' = [saves EXCEPT ![i] = [saves[i] EXCEPT !.status = status]]
    BY <1>24 DEF ServerAnswers
  <2>3. [saves[i] EXCEPT !.status = status].form = saves[i].form
    BY Indices DEF Save
  <2>4. QED
    BY <2>1, <2>2, <2>3, <1>24, SaveReplaced DEF ServerAnswers, TypeOK
<1>25. ASSUME NEW i \in DOMAIN saves, SaveFailed(i) \/ SaveSucceeded(i) PROVE TypeOK'
  <2>1. [saves[i] EXCEPT !.answer = "called"] \in Save
        /\ [saves[i] EXCEPT !.answer = "called"].form = saves[i].form
    BY Indices, SaveTypes DEF Save
  <2>2. \A j \in DOMAIN saves : saves'[j].form = saves[j].form
    BY <1>25, <2>1, HandlerEffect, SaveReplaced
  <2>3. QED
    BY <1>25, <2>2, HandlerEffect DEF TypeOK
<1>26. CASE Relaunch
  <2>1. /\ draft' \in Walk /\ forms' \in Seq(Form) /\ Len(forms') \in 1..MaxForms
        /\ DOMAIN forms \subseteq DOMAIN forms'
        /\ screen' \in Screen /\ carried' \in Value
    <3>1. CASE OpenForm(draft, Unanswered)
      BY <1>0, <3>1, FormOpened, Indices, BoundsAreNat DEF TypeOK
    <3>2. CASE draft' = draft /\ UNCHANGED <<forms, screen, carried>>
      BY <3>2 DEF TypeOK
    <3>3. QED
      BY <1>26, <3>1, <3>2, RelaunchEffect
  <2>2. QED
    BY <1>26, <2>1, RelaunchEffect DEF TypeOK
<1>27. CASE SheetClosed
  BY <1>27, <1>a, <1>0 DEF SheetClosed, TypeOK, Screen, Value
<1>28. CASE UNCHANGED vars
  BY <1>28 DEF vars, TypeOK
<1>29. CASE LoggedIn
  BY <1>29, <1>c, <1>0 DEF LoggedIn
<1>30. QED
  BY <1>1, <1>2, <1>3, <1>4, <1>5, <1>6, <1>7, <1>8, <1>9, <1>10, <1>11, <1>12, <1>13,
     <1>14, <1>15, <1>16, <1>17, <1>18, <1>19, <1>20, <1>21, <1>22, <1>23, <1>24, <1>25,
     <1>26, <1>27, <1>28, <1>29 DEF Next, User, Server, Handler

\* The type invariant holds of every reachable state.
THEOREM TypeCorrect == Spec => []TypeOK
<1>1. Init => TypeOK
  <2> SUFFICES ASSUME Init PROVE TypeOK
    OBVIOUS
  <2>1. PICK given \in InitKeys, kind \in Kinds :
          LET walk == [k \in Keys |-> IF k \notin given THEN None
                                      ELSE IF k = "what" THEN kind ELSE 1]
          IN  draft = walk /\ forms = <<NewForm(walk, {})>> /\ saves = <<>>
              /\ screen = "form" /\ carried = None /\ left = {}
    BY DEF Init
  <2>2. draft \in Walk
    BY <2>1 DEF Walk, Value
  <2>3. NewForm(draft, {}) \in Form
    BY <2>2 DEF NewForm, Form
  <2>4. forms \in Seq(Form) /\ Len(forms) = 1
    BY <2>1, <2>3
  <2>5. QED
    BY <2>1, <2>2, <2>4, BoundsAreNat DEF TypeOK, Screen, Value
<1>2. QED
  BY <1>1, TypeStep, PTL DEF Spec

-----------------------------------------------------------------------------
(* At most one save of a form reaches the server *)

\* A step that touches no save, locks and unlocks no form, starts the indicator of none
\* that is open, and enters no dog; signing in opens a form.
Quiet ==
    /\ saves' = saves
    /\ DOMAIN forms' = 1..Len(forms')
    /\ Len(forms') \in {Len(forms), Len(forms) + 1}
    /\ \A f \in DOMAIN forms :
          /\ f \in DOMAIN forms'
          /\ forms'[f].allowSave = forms[f].allowSave
          /\ forms'[f].busy => forms[f].busy \/ forms[f].allowSave
          /\ forms'[f].text["dog"] \in {None, forms[f].text["dog"]}
    /\ \A f \in DOMAIN forms' \ DOMAIN forms : ~forms'[f].allowSave /\ ~forms'[f].busy
    /\ SignedOut => SignedOut' \/ Len(forms') = Len(forms) + 1

\* What is left to look at: every other step is quiet.
LEMMA QuietSteps ==
    ASSUME TypeOK, [Next]_vars
    PROVE  \/ Quiet
           \/ SaveTapped
           \/ \E i \in DOMAIN saves : \E status \in {"stored", "refused"} :
                 ServerAnswers(i, status)
           \/ \E i \in DOMAIN saves : SaveFailed(i) \/ SaveSucceeded(i)
           \/ Relaunch
<1>0. /\ Top \in DOMAIN forms /\ forms[Top] \in Form
      /\ forms[Top].text \in Walk
      /\ left \in SUBSET Nat /\ draft \in Walk /\ NextForm \in Nat
      /\ DOMAIN forms = 1..Len(forms) /\ Len(forms) \in Nat
  BY Indices DEF Form, TypeOK, NextForm, Top
<1>a. ASSUME forms' = forms, saves' = saves, SignedOut => SignedOut' PROVE Quiet
  BY <1>a, <1>0 DEF Quiet
<1>b. ASSUME NEW form \in Form, forms' = [forms EXCEPT ![Top] = form], saves' = saves,
             form.allowSave = forms[Top].allowSave, ~SignedOut,
             form.busy => forms[Top].busy \/ forms[Top].allowSave,
             form.text["dog"] \in {None, forms[Top].text["dog"]}
      PROVE  Quiet
  BY <1>b, <1>0, FormReplaced DEF Quiet
<1>c. ASSUME NEW walk \in Walk, OpenForm(walk, left), saves' = saves
      PROVE  Quiet
  <2>1. ~NewForm(walk, left).allowSave /\ ~NewForm(walk, left).busy
    BY DEF NewForm
  <2>2. QED
    BY <1>c, <1>0, <2>1, FormOpened DEF Quiet
<1>1. ASSUME \/ \E k \in Keys : ChooseTapped(k)
             \/ PickerEmpty \/ AddNoteTapped \/ CameraTapped \/ ImageDeleted \/ MapTapped
             \/ ClearTapped \/ AlertClosed \/ SettingsTapped \/ SheetClosed \/ LoggedOut
             \/ AdDismissed \/ UNCHANGED vars
      PROVE  Quiet
  BY <1>1, <1>a DEF ChooseTapped, PickerEmpty, AddNoteTapped, CameraTapped, ImageDeleted,
     MapTapped, ClearTapped, AlertClosed, SettingsTapped, SheetClosed, LoggedOut,
     AdDismissed, vars, Leave, SignedOut, Required, Sheets
<1>2. ASSUME NEW k \in Keys, TextTyped(k) PROVE Quiet
  <2> DEFINE form == [forms[Top] EXCEPT !.text = [@ EXCEPT ![k] = Top]]
  <2>1. [forms[Top].text EXCEPT ![k] = Top] \in Walk
    BY <1>0, Indices DEF Walk, Value
  <2>2. /\ form \in Form /\ form.allowSave = forms[Top].allowSave
        /\ form.busy = forms[Top].busy
        /\ form.text = [forms[Top].text EXCEPT ![k] = Top]
    BY <2>1, <1>0 DEF Form
  <2>3. k # "dog"
    BY <1>2 DEF TextTyped, Typable
  <2>4. form.text["dog"] = forms[Top].text["dog"]
    BY <2>2, <2>3, <1>0 DEF Walk, Keys
  <2>5. forms' = [forms EXCEPT ![Top] = form] /\ saves' = saves /\ ~SignedOut
    BY <1>2 DEF TextTyped, SignedOut
  <2>6. QED
    BY <2>2, <2>4, <2>5, <1>b
<1>3. CASE PickerSaved
  <2>1. ASSUME NEW v \in Value, OpenForm([draft EXCEPT ![screen] = v], left) PROVE Quiet
    <3>1. [draft EXCEPT ![screen] = v] \in Walk
      BY <1>0 DEF Walk
    <3>2. QED
      BY <3>1, <2>1, <1>3, <1>c DEF PickerSaved
  <2>2. ASSUME OpenForm(draft, left) PROVE Quiet
    BY <2>2, <1>3, <1>c, <1>0 DEF PickerSaved
  <2>3. Kinds \subseteq Value /\ {NextForm} \subseteq Value
    BY <1>0 DEF Value
  <2>4. QED
    BY <1>3, <2>1, <2>2, <2>3 DEF PickerSaved
<1>4. CASE NoteChosen
  <2>1. PICK text \in {carried, NextForm, None} :
           OpenForm(IF text = None THEN draft ELSE [draft EXCEPT !["note"] = text], left)
    BY <1>4 DEF NoteChosen
  <2>2. text \in Value
    BY <1>0 DEF TypeOK, Value
  <2>3. (IF text = None THEN draft ELSE [draft EXCEPT !["note"] = text]) \in Walk
    BY <2>2, <1>0 DEF Walk
  <2>4. QED
    BY <2>1, <2>3, <1>4, <1>c DEF NoteChosen
<1>5. CASE ImageChosen
  <2>1. [draft EXCEPT !["img"] = NextForm] \in Walk
    BY <1>0 DEF Walk, Value
  <2>2. QED
    BY <2>1, <1>5, <1>c DEF ImageChosen
<1>6. CASE MapSaved
  <2>1. PICK new \in {{"track"}, {"track", "path"}} :
          OpenForm([k \in Keys |-> IF k \in new THEN NextForm ELSE draft[k]], left)
    BY <1>6 DEF MapSaved
  <2>2. [k \in Keys |-> IF k \in new THEN NextForm ELSE draft[k]] \in Walk
    BY <1>0 DEF Walk, Value
  <2>3. QED
    BY <2>1, <2>2, <1>6, <1>c DEF MapSaved
<1>7. CASE Return \/ LoggedIn
  BY <1>7, <1>c, <1>0 DEF Return, LoggedIn
<1>8. ASSUME MoreWalksTapped \/ SaveTappedIncomplete \/ SaveTappedAgain PROVE Quiet
  <2>1. PICK form \in {[forms[Top] EXCEPT !.more = ~@], [forms[Top] EXCEPT !.busy = FALSE],
                       [forms[Top] EXCEPT !.busy = TRUE]} :
           /\ forms' = [forms EXCEPT ![Top] = form] /\ saves' = saves
           /\ \/ form = [forms[Top] EXCEPT !.busy = TRUE] /\ forms[Top].allowSave
              \/ form \in {[forms[Top] EXCEPT !.more = ~@], [forms[Top] EXCEPT !.busy = FALSE]}
    BY <1>8 DEF MoreWalksTapped, SaveTappedIncomplete, SaveTappedAgain
  <2>2. form \in Form /\ form.allowSave = forms[Top].allowSave /\ form.text = forms[Top].text
    BY <1>0 DEF Form
  <2>3. form.busy => forms[Top].busy \/ forms[Top].allowSave
    BY <1>0, <2>1 DEF Form
  <2>4. ~SignedOut
    BY <1>8 DEF MoreWalksTapped, SaveTappedIncomplete, SaveTappedAgain, SignedOut
  <2>5. QED
    BY <2>1, <2>2, <2>3, <2>4, <1>b
<1>9. ASSUME ClearConfirmed \/ HistoryTapped PROVE Quiet
  <2>1. /\ forms' = [forms EXCEPT ![Top] = ClearedAll(forms[Top])] /\ saves' = saves
        /\ ~SignedOut
    BY <1>9 DEF ClearConfirmed, HistoryTapped, Leave, SignedOut
  <2>2. ~ClearedAll(forms[Top]).busy
    BY <1>0 DEF ClearedAll, Form
  <2>3. QED
    BY <2>1, <2>2, <1>0, <1>b, ClearedForms
<1>10. QED
  BY <1>1, <1>2, <1>3, <1>4, <1>5, <1>6, <1>7, <1>8, <1>9 DEF Next, User, Server, Handler

LEMMA SaveInvStep == TypeOK /\ SaveInv /\ [Next]_vars => SaveInv'
<1> SUFFICES ASSUME TypeOK, SaveInv, [Next]_vars PROVE SaveInv'
  OBVIOUS
<1>0. /\ DOMAIN forms = 1..Len(forms) /\ Len(forms) \in Nat /\ Top \in DOMAIN forms
      /\ DOMAIN saves = 1..Len(saves) /\ Len(saves) \in Nat
      /\ \A i \in DOMAIN saves : saves[i] \in Save /\ saves[i].form \in DOMAIN forms
      /\ Top = Len(forms)
  BY Indices DEF TypeOK, Top
<1>1. CASE Quiet
  <2>0. Len(forms') = Len(forms) \/ Len(forms') = Len(forms) + 1
    BY <1>1 DEF Quiet
  <2>1. Top \in Nat /\ Top' \in Nat /\ Top <= Top'
    BY <1>0, <2>0 DEF Top
  <2>2. \A i \in DOMAIN saves :
           /\ saves[i].form \in Nat
           /\ saves[i].answer = "lost" => saves[i].form < Top \/ SignedOut
           /\ saves[i].form <= Top
    BY <1>0 DEF SaveInv
  <2>3. \A i \in DOMAIN saves : saves[i].answer = "lost" => saves[i].form < Top' \/ SignedOut'
    <3>1. SignedOut => SignedOut' \/ Top' = Top + 1
      BY <1>1 DEF Quiet, Top
    <3>2. QED
      BY <2>1, <2>2, <3>1
  <2>4. saves' = saves
    BY <1>1 DEF Quiet
  <2>5. \A i \in DOMAIN saves :
          /\ saves[i].answer # "called" => forms'[saves[i].form].allowSave
          /\ saves[i].answer = "called" /\ saves[i].status = "stored" =>
                forms'[saves[i].form].text["dog"] = None
    BY <1>0, <1>1 DEF SaveInv, Quiet
  <2>6. QED
    BY <2>3, <2>4, <2>5 DEF SaveInv, AtMostOneSavePerForm
<1>2. CASE SaveTapped
  <2> DEFINE n == Len(saves) + 1
  <2>1. /\ DOMAIN forms' = DOMAIN forms /\ Len(forms') = Len(forms)
        /\ \A f \in DOMAIN forms \ {Top} : forms'[f] = forms[f]
        /\ forms'[Top].allowSave
        /\ forms'[Top].text = WithDefaults(forms[Top].text)
        /\ DOMAIN saves' = DOMAIN saves \cup {n} /\ n \notin DOMAIN saves
        /\ \A i \in DOMAIN saves : saves'[i] = saves[i]
        /\ saves'[n].form = Top /\ saves'[n].answer = "waiting"
        /\ saves'[n].status = "queued"
    BY <1>0, <1>2, SaveTappedEffect
  <2>2. forms[Top].text["dog"] # None /\ ~forms[Top].allowSave /\ ~SignedOut
    BY <1>2 DEF SaveTapped, Complete, Required, SignedOut
  <2>3. forms'[Top].text["dog"] = forms[Top].text["dog"]
    BY <2>1 DEF WithDefaults, Keys, Defaulted
  <2>4. \A i \in DOMAIN saves : saves[i].form = Top =>
           saves[i].answer = "called" /\ saves[i].status = "refused"
    BY <1>0, <2>2 DEF SaveInv, Save
  <2>5. \A i \in DOMAIN saves :
           /\ saves[i].answer # "called" => forms'[saves[i].form].allowSave
           /\ saves[i].answer = "called" /\ saves[i].status = "stored" =>
                 forms'[saves[i].form].text["dog"] = None
    BY <1>0, <2>1, <2>3, <2>4 DEF SaveInv
  <2>6. \A i \in DOMAIN saves' :
          /\ saves'[i].answer # "called" => forms'[saves'[i].form].allowSave
          /\ saves'[i].answer = "lost" => saves'[i].form < Top' \/ SignedOut'
          /\ saves'[i].answer = "called" => saves'[i].status # "queued"
          /\ saves'[i].answer = "called" /\ saves'[i].status = "stored" =>
                forms'[saves'[i].form].text["dog"] = None
    BY <1>0, <2>1, <2>2, <2>5 DEF SaveInv, Top
  <2>7. \A i, j \in DOMAIN saves' :
          saves'[i].form = saves'[j].form
             /\ saves'[i].answer # "called" /\ saves'[j].answer # "called" => i = j
    BY <2>1, <2>4 DEF SaveInv
  <2>8. AtMostOneSavePerForm'
    BY <2>1, <2>4 DEF SaveInv, AtMostOneSavePerForm
  <2>9. QED
    BY <2>6, <2>7, <2>8 DEF SaveInv
<1>3. ASSUME NEW i \in DOMAIN saves, NEW status \in {"stored", "refused"},
             ServerAnswers(i, status)
      PROVE  SaveInv'
  <2>1. [saves[i] EXCEPT !.status = status] \in Save
    BY <1>0, SaveTypes
  <2>2. /\ [saves[i] EXCEPT !.status = status].form = saves[i].form
        /\ [saves[i] EXCEPT !.status = status].answer = saves[i].answer
        /\ [saves[i] EXCEPT !.status = status].status = status
    BY <1>0 DEF Save
  <2>3. saves' = [saves EXCEPT ![i] = [saves[i] EXCEPT !.status = status]]
    BY <1>3 DEF ServerAnswers
  <2>4. /\ DOMAIN saves' = DOMAIN saves
        /\ \A j \in DOMAIN saves :
              /\ saves'[j].form = saves[j].form /\ saves'[j].answer = saves[j].answer
              /\ saves'[j].status = IF j = i THEN status ELSE saves[j].status
    BY <2>1, <2>2, <2>3, SaveReplaced
  <2>5. saves[i].status = "queued" /\ forms' = forms /\ screen' = screen
    BY <1>3 DEF ServerAnswers
  <2>6. QED
    BY <2>4, <2>5 DEF SaveInv, AtMostOneSavePerForm, Top, SignedOut
<1>4. ASSUME NEW i \in DOMAIN saves, SaveFailed(i) \/ SaveSucceeded(i)
      PROVE  SaveInv'
  <2> DEFINE f == saves[i].form
  <2>1. /\ DOMAIN forms' = DOMAIN forms /\ Len(forms') = Len(forms)
        /\ \A g \in DOMAIN forms \ {f} : forms'[g] = forms[g]
        /\ saves' = [saves EXCEPT ![i] = [saves[i] EXCEPT !.answer = "called"]]
        /\ saves[i].answer = "waiting" /\ (SignedOut => SignedOut')
        /\ forms'[f].text["dog"] \in {None, forms[f].text["dog"]}
        /\ \/ saves[i].status = "refused" /\ ~forms'[f].allowSave
           \/ saves[i].status = "stored" /\ forms'[f].text["dog"] = None
    BY <1>4, HandlerEffect
  <2>2. [saves[i] EXCEPT !.answer = "called"] \in Save
    BY <1>0, SaveTypes
  <2>3. /\ [saves[i] EXCEPT !.answer = "called"].form = saves[i].form
        /\ [saves[i] EXCEPT !.answer = "called"].answer = "called"
        /\ [saves[i] EXCEPT !.answer = "called"].status = saves[i].status
    BY <1>0 DEF Save
  <2>4. /\ DOMAIN saves' = DOMAIN saves
        /\ \A j \in DOMAIN saves :
              /\ saves'[j].form = saves[j].form /\ saves'[j].status = saves[j].status
              /\ saves'[j].answer = IF j = i THEN "called" ELSE saves[j].answer
    BY <2>1, <2>2, <2>3, SaveReplaced
  <2>5. \A j \in DOMAIN saves : j # i /\ saves[j].answer # "called" => saves[j].form # f
    BY <2>1 DEF SaveInv
  <2>6. \A j \in DOMAIN saves :
          /\ saves'[j].answer # "called" => forms'[saves[j].form].allowSave
          /\ saves'[j].answer = "called" /\ saves'[j].status = "stored" =>
                forms'[saves[j].form].text["dog"] = None
    BY <1>0, <2>1, <2>4, <2>5 DEF SaveInv
  <2>7. \A j \in DOMAIN saves :
          /\ saves'[j].answer = "lost" => saves'[j].form < Top' \/ SignedOut'
          /\ saves'[j].answer = "called" => saves'[j].status # "queued"
    BY <1>0, <2>1, <2>4 DEF SaveInv, Top
  <2>8. AtMostOneSavePerForm'
    BY <2>4 DEF SaveInv, AtMostOneSavePerForm
  <2>9. QED
    BY <2>4, <2>6, <2>7, <2>8 DEF SaveInv
<1>5. CASE Relaunch
  <2>1. /\ DOMAIN saves' = DOMAIN saves
        /\ \A i \in DOMAIN saves :
              /\ saves'[i].form = saves[i].form /\ saves'[i].status = saves[i].status
              /\ saves'[i].answer = IF saves[i].answer = "waiting" THEN "lost"
                                                                 ELSE saves[i].answer
    BY <1>5, RelaunchEffect
  <2>2. /\ \A f \in DOMAIN forms : forms'[f] = forms[f]
        /\ \A i \in DOMAIN saves : saves[i].form < Top' \/ SignedOut'
    <3>1. CASE OpenForm(draft, Unanswered)
      <4>1. /\ Len(forms') = Len(forms) + 1
            /\ \A f \in DOMAIN forms : forms'[f] = forms[f]
        BY <3>1, FormOpened, Indices DEF TypeOK
      <4>2. QED
        BY <1>0, <4>1 DEF Top
    <3>2. CASE SignedOut /\ UNCHANGED <<forms, screen, carried>>
      BY <3>2 DEF SignedOut
    <3>3. QED
      BY <1>5, <3>1, <3>2, RelaunchEffect
  <2>3. QED
    BY <1>0, <2>1, <2>2, SMTT(30) DEF SaveInv, AtMostOneSavePerForm
<1>6. QED
  BY <1>1, <1>2, <1>3, <1>4, <1>5, QuietSteps

\* However often Save is tapped on a form, and however the answers of the server
\* and the ends of the process interleave with it, the server takes at most one of
\* its documents, and none can follow the one it took.
THEOREM SaveInvHolds == Spec => []SaveInv
<1>1. Init => SaveInv
  BY DEF Init, SaveInv, AtMostOneSavePerForm
<1>2. QED
  BY <1>1, SaveInvStep, TypeCorrect, PTL DEF Spec

THEOREM OneSavePerForm == Spec => []AtMostOneSavePerForm
<1>1. SaveInv => AtMostOneSavePerForm
  BY DEF SaveInv
<1>2. QED
  BY <1>1, SaveInvHolds, PTL

-----------------------------------------------------------------------------
(* No form stays locked for nothing, and every stored walk can be shown *)

LEMMA SavesAfterHandler ==
    ASSUME TypeOK, NEW i \in DOMAIN saves, SaveFailed(i) \/ SaveSucceeded(i)
    PROVE  /\ DOMAIN saves' = DOMAIN saves
           /\ \A j \in DOMAIN saves :
                 /\ saves'[j].form = saves[j].form /\ saves'[j].walk = saves[j].walk
                 /\ saves'[j].status = saves[j].status
                 /\ saves'[j].answer = IF j = i THEN "called" ELSE saves[j].answer
<1>1. saves[i] \in Save /\ [saves[i] EXCEPT !.answer = "called"] \in Save
  BY Indices, SaveTypes
<1>2. saves' = [saves EXCEPT ![i] = [saves[i] EXCEPT !.answer = "called"]]
  BY HandlerEffect
<1>3. /\ [saves[i] EXCEPT !.answer = "called"].form = saves[i].form
      /\ [saves[i] EXCEPT !.answer = "called"].walk = saves[i].walk
      /\ [saves[i] EXCEPT !.answer = "called"].status = saves[i].status
      /\ [saves[i] EXCEPT !.answer = "called"].answer = "called"
  BY <1>1 DEF Save
<1>4. QED
  BY <1>1, <1>2, <1>3, SaveReplaced

LEMMA SavesAfterAnswer ==
    ASSUME TypeOK, NEW i \in DOMAIN saves, NEW status \in {"stored", "refused"},
           ServerAnswers(i, status)
    PROVE  /\ DOMAIN saves' = DOMAIN saves /\ forms' = forms
           /\ saves[i].status = "queued"
           /\ \A j \in DOMAIN saves :
                 /\ saves'[j].form = saves[j].form /\ saves'[j].walk = saves[j].walk
                 /\ saves'[j].answer = saves[j].answer
                 /\ saves'[j].status = IF j = i THEN status ELSE saves[j].status
<1>1. saves[i] \in Save /\ [saves[i] EXCEPT !.status = status] \in Save
  BY Indices, SaveTypes
<1>2. saves' = [saves EXCEPT ![i] = [saves[i] EXCEPT !.status = status]]
  BY DEF ServerAnswers
<1>3. /\ [saves[i] EXCEPT !.status = status].form = saves[i].form
      /\ [saves[i] EXCEPT !.status = status].walk = saves[i].walk
      /\ [saves[i] EXCEPT !.status = status].answer = saves[i].answer
      /\ [saves[i] EXCEPT !.status = status].status = status
  BY <1>1 DEF Save
<1>4. QED
  BY <1>1, <1>2, <1>3, SaveReplaced DEF ServerAnswers

LEMMA LockStep == TypeOK /\ LockMeansSavingOrSaved /\ [Next]_vars => LockMeansSavingOrSaved'
<1> SUFFICES ASSUME TypeOK, LockMeansSavingOrSaved, [Next]_vars
             PROVE  LockMeansSavingOrSaved'
  OBVIOUS
<1> USE DEF LockMeansSavingOrSaved
<1>0. /\ DOMAIN forms = 1..Len(forms) /\ Len(forms) \in Nat /\ Top \in DOMAIN forms
      /\ \A i \in DOMAIN saves : saves[i] \in Save /\ saves[i].form \in DOMAIN forms
  BY Indices DEF TypeOK
<1>1. CASE Quiet
  BY <1>1 DEF Quiet
<1>2. CASE SaveTapped
  <2>1. /\ DOMAIN forms' = DOMAIN forms
        /\ \A f \in DOMAIN forms \ {Top} : forms'[f] = forms[f]
        /\ \A i \in DOMAIN saves : i \in DOMAIN saves' /\ saves'[i] = saves[i]
        /\ Len(saves) + 1 \in DOMAIN saves'
        /\ saves'[Len(saves) + 1].form = Top /\ saves'[Len(saves) + 1].answer = "waiting"
    BY <1>2, SaveTappedEffect, Indices
  <2>2. QED
    BY <2>1
<1>3. ASSUME NEW i \in DOMAIN saves, NEW status \in {"stored", "refused"},
             ServerAnswers(i, status)
      PROVE  LockMeansSavingOrSaved'
  BY <1>3, SavesAfterAnswer
<1>4. ASSUME NEW i \in DOMAIN saves, SaveFailed(i) \/ SaveSucceeded(i)
      PROVE  LockMeansSavingOrSaved'
  <2>1. /\ DOMAIN forms' = DOMAIN forms
        /\ \A f \in DOMAIN forms : f # saves[i].form => forms'[f] = forms[f]
        /\ forms'[saves[i].form].allowSave \/ forms'[saves[i].form].busy =>
              saves[i].status = "stored"
    BY <1>4, HandlerEffect
  <2>2. /\ DOMAIN saves' = DOMAIN saves
        /\ \A j \in DOMAIN saves :
              /\ saves'[j].form = saves[j].form /\ saves'[j].status = saves[j].status
              /\ j # i => saves'[j].answer = saves[j].answer
    BY <1>4, SavesAfterHandler
  <2>3. QED
    BY <2>1, <2>2
<1>5. CASE Relaunch
  <2>1. \A f \in DOMAIN forms' :
           \/ f \in DOMAIN forms /\ forms'[f] = forms[f]
           \/ ~forms'[f].allowSave /\ ~forms'[f].busy
    <3>1. CASE OpenForm(draft, Unanswered)
      <4>1. draft \in Walk /\ Unanswered \in SUBSET Nat
        BY Indices DEF TypeOK
      <4>2. /\ DOMAIN forms' = 1..(Len(forms) + 1)
            /\ \A f \in DOMAIN forms : forms'[f] = forms[f]
            /\ forms'[Len(forms) + 1] = NewForm(draft, Unanswered)
        BY <3>1, <4>1, FormOpened
      <4>3. ~NewForm(draft, Unanswered).allowSave /\ ~NewForm(draft, Unanswered).busy
        BY DEF NewForm
      <4>4. QED
        BY <1>0, <4>2, <4>3
    <3>2. CASE forms' = forms
      BY <3>2
    <3>3. QED
      BY <1>5, <3>1, <3>2, RelaunchEffect
  <2>2. QED
    BY <1>0, <1>5, <2>1, RelaunchEffect, SMTT(30)
<1>6. QED
  BY <1>1, <1>2, <1>3, <1>4, <1>5, QuietSteps

\* A form that refuses to save, or whose indicator runs, has a save in flight or has stored
\* its walk.
THEOREM LockExplained == Spec => []LockMeansSavingOrSaved
<1>1. Init => LockMeansSavingOrSaved
  BY DEF Init, LockMeansSavingOrSaved, NewForm
<1>2. QED
  BY <1>1, LockStep, TypeCorrect, PTL DEF Spec

\* Every document handed to Firestore can be shown, stored or not.
SavesDisplayable == \A i \in DOMAIN saves : Displayable(saves[i].walk)

LEMMA DisplayableStep == TypeOK /\ SavesDisplayable /\ [Next]_vars => SavesDisplayable'
<1> SUFFICES ASSUME TypeOK, SavesDisplayable, [Next]_vars PROVE SavesDisplayable'
  OBVIOUS
<1>1. CASE Quiet
  BY <1>1 DEF Quiet, SavesDisplayable
<1>2. CASE SaveTapped
  <2>1. Displayable(WithDefaults(forms[Top].text))
    <3>1. 0 # None
      BY NoneIsNoValue
    <3>2. \A k \in Required : k \in Keys /\ k \notin Defaulted /\ forms[Top].text[k] # None
      BY <1>2 DEF SaveTapped, Complete, Required, Defaulted, Keys
    <3>3. Defaulted \subseteq Keys
      BY DEF Defaulted, Keys
    <3>4. QED
      BY <3>1, <3>2, <3>3 DEF Displayable, WithDefaults
  <2>2. /\ DOMAIN saves' = DOMAIN saves \cup {Len(saves) + 1}
        /\ \A i \in DOMAIN saves : i # Len(saves) + 1 /\ saves'[i] = saves[i]
        /\ saves'[Len(saves) + 1].walk = WithDefaults(forms[Top].text)
    BY <1>2, SaveTappedEffect, Indices
  <2>3. QED
    BY <2>1, <2>2 DEF SavesDisplayable
<1>3. ASSUME NEW i \in DOMAIN saves, NEW status \in {"stored", "refused"},
             ServerAnswers(i, status)
      PROVE  SavesDisplayable'
  BY <1>3, SavesAfterAnswer DEF SavesDisplayable
<1>4. ASSUME NEW i \in DOMAIN saves, SaveFailed(i) \/ SaveSucceeded(i)
      PROVE  SavesDisplayable'
  BY <1>4, SavesAfterHandler DEF SavesDisplayable
<1>5. CASE Relaunch
  BY <1>5, RelaunchEffect DEF SavesDisplayable
<1>6. QED
  BY <1>1, <1>2, <1>3, <1>4, <1>5, QuietSteps

\* Whatever the map screen brought back, a stored walk has the required fields and
\* a coordinate.
THEOREM WalksDisplayable == Spec => []StoredWalksDisplayable
<1>1. Init => SavesDisplayable
  BY DEF Init, SavesDisplayable
<1>2. SavesDisplayable => StoredWalksDisplayable
  BY DEF SavesDisplayable, StoredWalksDisplayable, Stored
<1>3. QED
  BY <1>1, <1>2, DisplayableStep, TypeCorrect, PTL DEF Spec

-----------------------------------------------------------------------------
(* Which walk a handler clears, and when a walk is stored twice *)

Dog(i) == saves[i].walk["dog"]

\* The screens under which the last form is still the one in use.
Here == {"form", "incomplete", "clear"}

\* Who is elsewhere left a form when at least the saves unanswered now were unanswered, and
\* the next form will remember it.  So a dog of the draft that has been handed to Firestore is
\* unanswered, and the last form, if it did not hand it over itself, came up over its save.
DogInv ==
    /\ draft["dog"] \in {None} \cup 1..Top
    /\ forms[Top].text["dog"] \in {None} \cup 1..Top
    /\ draft["dog"] \in {None, forms[Top].text["dog"]}
    /\ screen \notin Here => Unanswered \subseteq left
    /\ \A i \in DOMAIN saves :
          /\ Dog(i) \in 1..Top
          /\ draft["dog"] = Dog(i) => saves[i].answer # "called" \/ saves[i].status = "refused"
          /\ saves[i].form < Top /\ saves[i].answer = "waiting" => i \in forms[Top].over
          /\ saves[i].form < Top /\ forms[Top].text["dog"] = Dog(i)
                => i \in forms[Top].over \/ saves[i].status = "refused"
          /\ saves[i].form = Top /\ saves[i].answer = "waiting"
                => forms[Top].text["dog"] \in {None, Dog(i)}
    /\ \A i, j \in DOMAIN saves : i < j /\ Dog(i) = Dog(j) =>
          \/ saves[i].status = "refused" \/ saves[i].form = saves[j].form
          \/ i \in forms[saves[j].form].over

\* The last form stays: it and the draft keep their dog or lose it, both at once.
Stay ==
    /\ saves' = saves /\ Len(forms') = Len(forms)
    /\ \A f \in DOMAIN forms : forms'[f].over = forms[f].over
    /\ forms'[Top].text["dog"] \in {None, forms[Top].text["dog"]}
    /\ draft'["dog"] \in {None, draft["dog"]}
    /\ draft'["dog"] \in {None, forms[Top].text["dog"]} =>
          draft'["dog"] \in {None, forms'[Top].text["dog"]}
    /\ screen' \notin Here => left' = Unanswered \/ (screen \notin Here /\ left' = left)

\* The user comes back from elsewhere to a new form, with the dog of the draft or another.
Back ==
    /\ saves' = saves /\ screen \notin Here /\ screen' = "form"
    /\ Len(forms') = Len(forms) + 1
    /\ \A f \in DOMAIN forms : forms'[f] = forms[f]
    /\ forms'[Len(forms) + 1].over = left
    /\ forms'[Len(forms) + 1].text["dog"] = draft'["dog"]
    /\ draft'["dog"] \in {draft["dog"], NextForm}

LEMMA BackWith ==
    ASSUME TypeOK, NEW walk \in Walk, OpenForm(walk, left), saves' = saves,
           screen \notin Here, walk["dog"] \in {draft["dog"], NextForm}
    PROVE  Back
<1>1. left \in SUBSET Nat
  BY DEF TypeOK
<1>2. /\ Len(forms') = Len(forms) + 1
      /\ \A f \in DOMAIN forms : forms'[f] = forms[f]
      /\ forms'[Len(forms) + 1] = NewForm(walk, left)
  BY <1>1, FormOpened
<1>3. NewForm(walk, left).over = left /\ NewForm(walk, left).text = walk
  BY DEF NewForm
<1>4. draft' = walk /\ screen' = "form"
  BY DEF OpenForm
<1> QED
  BY <1>2, <1>3, <1>4 DEF Back

LEMMA StayWith ==
    ASSUME TypeOK, NEW form \in Form, forms' = [forms EXCEPT ![Top] = form], saves' = saves,
           form.over = forms[Top].over,
           \/ /\ form.text["dog"] = forms[Top].text["dog"]
              /\ draft'["dog"] = draft["dog"]
           \/ form.text["dog"] = None /\ draft'["dog"] = None,
           screen' \notin Here => left' = Unanswered \/ (screen \notin Here /\ left' = left)
    PROVE  Stay
<1>1. Top \in DOMAIN forms
  BY Indices
<1>2. /\ Len(forms') = Len(forms)
      /\ \A g \in DOMAIN forms : forms'[g] = IF g = Top THEN form ELSE forms[g]
  BY <1>1, FormReplaced
<1> QED
  BY <1>1, <1>2 DEF Stay

LEMMA StaySame ==
    ASSUME TypeOK, forms' = forms, saves' = saves, draft'["dog"] \in {None, draft["dog"]},
           screen' \notin Here => left' = Unanswered \/ (screen \notin Here /\ left' = left)
    PROVE  Stay
  BY DEF Stay

\* Every other step stays or comes back.
LEMMA DogSteps ==
    ASSUME TypeOK, [Next]_vars
    PROVE  \/ Stay
           \/ Back
           \/ SaveTapped
           \/ \E i \in DOMAIN saves : \E status \in {"stored", "refused"} :
                 ServerAnswers(i, status)
           \/ \E i \in DOMAIN saves : SaveFailed(i) \/ SaveSucceeded(i)
           \/ Relaunch
<1>0. /\ Top \in DOMAIN forms /\ forms[Top] \in Form
      /\ forms[Top].text \in Walk /\ Top \in Nat
      /\ left \in SUBSET Nat /\ draft \in Walk /\ NextForm \in Nat
  BY Indices DEF Form, TypeOK, NextForm, Top
<1>1. ASSUME \/ \E k \in Keys : ChooseTapped(k)
             \/ AddNoteTapped \/ CameraTapped \/ MapTapped \/ SettingsTapped
      PROVE  Stay
  BY <1>1, StaySame DEF ChooseTapped, AddNoteTapped, CameraTapped, MapTapped, SettingsTapped,
     Leave
<1>2. ASSUME PickerEmpty \/ ClearTapped \/ AlertClosed \/ SheetClosed \/ AdDismissed
             \/ UNCHANGED vars
      PROVE  Stay
  BY <1>2, StaySame DEF PickerEmpty, ClearTapped, AlertClosed, SheetClosed, AdDismissed, vars,
     Here
<1>3. ASSUME ImageDeleted \/ LoggedOut PROVE Stay
  <2>1. draft'["dog"] \in {None, draft["dog"]}
    BY <1>0, <1>3 DEF ImageDeleted, LoggedOut, Walk, Keys
  <2> QED
    BY <1>3, <2>1, StaySame DEF ImageDeleted, LoggedOut, Here
<1>4. ASSUME NEW k \in Keys, TextTyped(k) PROVE Stay
  <2> DEFINE form == [forms[Top] EXCEPT !.text = [@ EXCEPT ![k] = Top]]
  <2>1. [forms[Top].text EXCEPT ![k] = Top] \in Walk
    BY <1>0 DEF Walk, Value
  <2>2. /\ form \in Form /\ form.over = forms[Top].over
        /\ form.text = [forms[Top].text EXCEPT ![k] = Top]
    BY <2>1, <1>0 DEF Form
  <2>3. k # "dog"
    BY <1>4 DEF TextTyped, Typable
  <2>4. form.text["dog"] = forms[Top].text["dog"]
    BY <2>2, <2>3, <1>0 DEF Walk, Keys
  <2>5. /\ forms' = [forms EXCEPT ![Top] = form] /\ saves' = saves
        /\ draft'["dog"] = draft["dog"] /\ screen' \in Here
    BY <1>4 DEF TextTyped, Here
  <2> HIDE DEF form
  <2> QED
    BY <2>2, <2>4, <2>5, StayWith
<1>5. ASSUME MoreWalksTapped \/ SaveTappedIncomplete \/ SaveTappedAgain PROVE Stay
  <2>1. PICK form \in {[forms[Top] EXCEPT !.more = ~@], [forms[Top] EXCEPT !.busy = FALSE],
                       [forms[Top] EXCEPT !.busy = TRUE]} :
           forms' = [forms EXCEPT ![Top] = form]
    BY <1>5 DEF MoreWalksTapped, SaveTappedIncomplete, SaveTappedAgain
  <2>2. form \in Form /\ form.over = forms[Top].over /\ form.text = forms[Top].text
    BY <1>0 DEF Form
  <2>3. /\ saves' = saves /\ draft'["dog"] = draft["dog"] /\ screen' \in Here
        /\ form.text["dog"] = forms[Top].text["dog"]
    BY <1>5, <2>2 DEF MoreWalksTapped, SaveTappedIncomplete, SaveTappedAgain, Here
  <2> QED
    BY <2>1, <2>2, <2>3, StayWith
<1>6. ASSUME ClearConfirmed \/ HistoryTapped PROVE Stay
  <2>1. PICK form : form = ClearedAll(forms[Top])
    OBVIOUS
  <2>2. form \in Form /\ form.text["dog"] = None
    BY <1>0, <2>1, ClearedForms
  <2>3. form.over = forms[Top].over
    BY <1>0, <2>1 DEF ClearedAll, Form
  <2>4. /\ forms' = [forms EXCEPT ![Top] = form] /\ saves' = saves
        /\ draft' = Without(draft, AllWalk)
    BY <1>6, <2>1 DEF ClearConfirmed, HistoryTapped
  <2>5. draft'["dog"] = None
    BY <2>4 DEF Without, AllWalk, Keys
  <2>6. screen' \in Here \/ left' = Unanswered
    BY <1>6 DEF ClearConfirmed, HistoryTapped, Leave, Here
  <2> QED
    BY <2>2, <2>3, <2>4, <2>5, <2>6, StayWith
<1>7. CASE PickerSaved
  <2>0. screen \notin Here /\ saves' = saves
    BY <1>7 DEF PickerSaved, Here, Required
  <2>1. ASSUME NEW v \in IF screen = "what" THEN Kinds ELSE {NextForm},
               OpenForm([draft EXCEPT ![screen] = v], left)
        PROVE  Back
    <3>1. [draft EXCEPT ![screen] = v] \in Walk
      BY <1>0 DEF Walk, Value
    <3>2. [draft EXCEPT ![screen] = v]["dog"] \in {draft["dog"], NextForm}
      BY <1>0 DEF Walk, Keys
    <3> QED
      BY <2>0, <2>1, <3>1, <3>2, BackWith
  <2>2. ASSUME OpenForm(draft, left) PROVE Back
    BY <1>0, <2>0, <2>2, BackWith
  <2> QED
    BY <1>7, <2>1, <2>2 DEF PickerSaved
<1>8. CASE NoteChosen
  <2>1. PICK text \in {carried, NextForm, None} :
           OpenForm(IF text = None THEN draft ELSE [draft EXCEPT !["note"] = text], left)
    BY <1>8 DEF NoteChosen
  <2>2. text \in Value
    BY <1>0 DEF TypeOK, Value
  <2>3. PICK walk : walk = IF text = None THEN draft ELSE [draft EXCEPT !["note"] = text]
    OBVIOUS
  <2>4. walk \in Walk /\ walk["dog"] = draft["dog"]
    BY <1>0, <2>2, <2>3 DEF Walk, Keys
  <2> QED
    BY <1>8, <2>1, <2>3, <2>4, BackWith DEF NoteChosen, Here
<1>9. CASE ImageChosen
  <2>1. PICK walk : walk = [draft EXCEPT !["img"] = NextForm]
    OBVIOUS
  <2>2. walk \in Walk /\ walk["dog"] = draft["dog"]
    BY <1>0, <2>1 DEF Walk, Value, Keys
  <2> QED
    BY <1>9, <2>1, <2>2, BackWith DEF ImageChosen, Here
<1>10. CASE MapSaved
  <2>1. PICK new \in {{"track"}, {"track", "path"}} :
          OpenForm([k \in Keys |-> IF k \in new THEN NextForm ELSE draft[k]], left)
    BY <1>10 DEF MapSaved
  <2>2. PICK walk : walk = [k \in Keys |-> IF k \in new THEN NextForm ELSE draft[k]]
    OBVIOUS
  <2>3. walk \in Walk /\ walk["dog"] = draft["dog"]
    BY <1>0, <2>2 DEF Walk, Value, Keys
  <2> QED
    BY <1>10, <2>1, <2>2, <2>3, BackWith DEF MapSaved, Here
<1>11. CASE Return \/ LoggedIn
  BY <1>0, <1>11, BackWith DEF Return, LoggedIn, SignedOut, Here
<1> QED
  BY <1>1, <1>2, <1>3, <1>4, <1>5, <1>6, <1>7, <1>8, <1>9, <1>10, <1>11
     DEF Next, User, Server, Handler

LEMMA DogTypes ==
    ASSUME TypeOK
    PROVE  /\ Top \in Nat /\ Top \in DOMAIN forms /\ DOMAIN forms = 1..Top /\ Top = Len(forms)
           /\ DOMAIN saves \subseteq Nat
           /\ \A i \in DOMAIN saves : saves[i].form \in Nat /\ saves[i].form <= Top
                                      /\ saves[i].form \in DOMAIN forms
           /\ \A n \in Nat : n # None
  BY Indices, NoneIsNoValue DEF TypeOK, Top

\* What an answer or the end of the process changes is not in DogInv.
LEMMA DogFixed ==
    ASSUME TypeOK, DogInv, Len(forms') = Len(forms), DOMAIN saves' = DOMAIN saves,
           \A f \in DOMAIN forms : forms'[f].over = forms[f].over,
           \A i \in DOMAIN saves :
              /\ saves'[i].form = saves[i].form /\ saves'[i].walk = saves[i].walk
              /\ saves[i].status = "refused" => saves'[i].status = "refused"
              /\ saves'[i].answer = "waiting" => saves[i].answer = "waiting"
              /\ saves[i].answer # "called" /\ saves'[i].answer = "called" =>
                    saves'[i].status = "refused" \/ draft'["dog"] = None,
           \A i \in DOMAIN saves : saves[i].answer = "called" => saves'[i].answer = "called",
           forms'[Top].text["dog"] \in {None, forms[Top].text["dog"]},
           draft'["dog"] \in {None, draft["dog"]},
           draft'["dog"] \in {None, forms'[Top].text["dog"]},
           screen' \notin Here => Unanswered' \subseteq left'
    PROVE  DogInv'
<1>0. /\ Top \in Nat /\ Top' = Top /\ Top \in DOMAIN forms
      /\ \A n \in 1..Top : n # None
      /\ \A i \in DOMAIN saves : saves[i].form \in DOMAIN forms
  BY DogTypes DEF Top
<1>1. \A i \in DOMAIN saves : Dog(i)' = Dog(i) /\ Dog(i) # None
  BY <1>0 DEF Dog, DogInv
<1>2. ASSUME NEW i \in DOMAIN saves
      PROVE  /\ Dog(i)' \in 1..Top'
             /\ draft'["dog"] = Dog(i)'
                   => saves'[i].answer # "called" \/ saves'[i].status = "refused"
             /\ saves'[i].form < Top' /\ saves'[i].answer = "waiting" => i \in forms'[Top'].over
             /\ saves'[i].form < Top' /\ forms'[Top'].text["dog"] = Dog(i)'
                   => i \in forms'[Top'].over \/ saves'[i].status = "refused"
             /\ saves'[i].form = Top' /\ saves'[i].answer = "waiting"
                   => forms'[Top'].text["dog"] \in {None, Dog(i)'}
  BY <1>0, <1>1 DEF DogInv
<1>3. ASSUME NEW i \in DOMAIN saves, NEW j \in DOMAIN saves, i < j, Dog(i)' = Dog(j)'
      PROVE  \/ saves'[i].status = "refused" \/ saves'[i].form = saves'[j].form
             \/ i \in forms'[saves'[j].form].over
  BY <1>0, <1>1, <1>3 DEF DogInv
<1>4. /\ draft'["dog"] \in {None} \cup 1..Top' /\ forms'[Top'].text["dog"] \in {None} \cup 1..Top'
      /\ draft'["dog"] \in {None, forms'[Top'].text["dog"]}
  BY <1>0 DEF DogInv
<1> QED
  BY <1>2, <1>3, <1>4 DEF DogInv

LEMMA DogStay == ASSUME TypeOK, DogInv, Stay PROVE DogInv'
<1>1. Unanswered' = Unanswered
  BY DEF Stay, Unanswered
<1>2. screen' \notin Here => Unanswered' \subseteq left'
  BY <1>1 DEF Stay, DogInv
<1>3. draft'["dog"] \in {None, forms'[Top].text["dog"]}
  BY DEF Stay, DogInv
<1> QED
  BY <1>2, <1>3, DogFixed DEF Stay

\* A new form over all that is unanswered.
LEMMA DogOpened ==
    ASSUME TypeOK, DogInv, DOMAIN saves' = DOMAIN saves, screen' = "form",
           Len(forms') = Len(forms) + 1,
           \A f \in DOMAIN forms : forms'[f] = forms[f],
           Unanswered \subseteq forms'[Len(forms) + 1].over,
           forms'[Len(forms) + 1].text["dog"] = draft'["dog"],
           draft'["dog"] \in {draft["dog"], NextForm},
           \A i \in DOMAIN saves :
              /\ saves'[i].form = saves[i].form /\ saves'[i].walk = saves[i].walk
              /\ saves'[i].status = saves[i].status
              /\ saves'[i].answer = "called" <=> saves[i].answer = "called"
              /\ saves'[i].answer = "waiting" => saves[i].answer = "waiting"
    PROVE  DogInv'
<1>0. /\ Top \in Nat /\ Top' = Top + 1 /\ Top' = Len(forms) + 1 /\ NextForm = Top + 1
      /\ \A n \in Nat : n # None
      /\ \A i \in DOMAIN saves : saves[i].form \in DOMAIN forms /\ saves[i].form <= Top
                                 /\ saves[i].form \in Nat
  BY DogTypes DEF Top, NextForm
<1>1. \A i \in DOMAIN saves : Dog(i)' = Dog(i) /\ Dog(i) \in 1..Top
  BY DEF Dog, DogInv
<1>2. /\ draft'["dog"] \in {None} \cup 1..Top' /\ forms'[Top'].text["dog"] \in {None} \cup 1..Top'
      /\ draft'["dog"] \in {None, forms'[Top'].text["dog"]}
  BY <1>0 DEF DogInv
<1>3. ASSUME NEW i \in DOMAIN saves
      PROVE  /\ Dog(i)' \in 1..Top'
             /\ draft'["dog"] = Dog(i)'
                   => saves'[i].answer # "called" \/ saves'[i].status = "refused"
             /\ saves'[i].form < Top' /\ saves'[i].answer = "waiting" => i \in forms'[Top'].over
             /\ saves'[i].form < Top' /\ forms'[Top'].text["dog"] = Dog(i)'
                   => i \in forms'[Top'].over \/ saves'[i].status = "refused"
             /\ saves'[i].form = Top' /\ saves'[i].answer = "waiting"
                   => forms'[Top'].text["dog"] \in {None, Dog(i)'}
  <2>1. saves'[i].form # Top' /\ Dog(i)' \in 1..Top' /\ Dog(i)' # NextForm
    BY <1>0, <1>1
  <2>2. draft'["dog"] = Dog(i)' => saves[i].answer # "called" \/ saves[i].status = "refused"
    BY <1>1, <2>1 DEF DogInv
  <2>3. saves[i].answer # "called" => i \in forms'[Top'].over
    BY <1>0 DEF Unanswered
  <2> QED
    BY <1>0, <2>1, <2>2, <2>3
<1>4. ASSUME NEW i \in DOMAIN saves, NEW j \in DOMAIN saves, i < j, Dog(i)' = Dog(j)'
      PROVE  \/ saves'[i].status = "refused" \/ saves'[i].form = saves'[j].form
             \/ i \in forms'[saves'[j].form].over
  BY <1>0, <1>1, <1>4 DEF DogInv
<1>5. screen' \in Here
  BY DEF Here
<1> QED
  BY <1>2, <1>3, <1>4, <1>5 DEF DogInv

LEMMA DogBack == ASSUME TypeOK, DogInv, Back PROVE DogInv'
<1>1. Unanswered \subseteq forms'[Len(forms) + 1].over
  BY DEF Back, DogInv
<1> QED
  BY <1>1, DogOpened DEF Back

LEMMA DogRelaunch == ASSUME TypeOK, DogInv, Relaunch PROVE DogInv'
<1>1. /\ draft' = draft /\ left' = Unanswered /\ DOMAIN saves' = DOMAIN saves
      /\ \A i \in DOMAIN saves :
            /\ saves'[i].form = saves[i].form /\ saves'[i].walk = saves[i].walk
            /\ saves'[i].status = saves[i].status
            /\ saves'[i].answer = IF saves[i].answer = "waiting" THEN "lost" ELSE saves[i].answer
  BY RelaunchEffect
<1>2. \A i \in DOMAIN saves :
        /\ saves'[i].answer = "called" <=> saves[i].answer = "called"
        /\ saves'[i].answer = "waiting" => saves[i].answer = "waiting"
  BY <1>1
<1>3. CASE OpenForm(draft, Unanswered)
  <2>1. /\ Len(forms') = Len(forms) + 1
        /\ \A f \in DOMAIN forms : forms'[f] = forms[f]
        /\ forms'[Len(forms) + 1] = NewForm(draft, Unanswered)
    BY <1>3, FormOpened, Indices DEF TypeOK
  <2>2. /\ NewForm(draft, Unanswered).over = Unanswered
        /\ NewForm(draft, Unanswered).text = draft
    BY DEF NewForm
  <2>3. screen' = "form"
    BY <1>3 DEF OpenForm
  <2> QED
    BY <1>1, <1>2, <2>1, <2>2, <2>3, DogOpened
<1>4. CASE forms' = forms
  <2>1. Unanswered' = Unanswered
    BY <1>1, <1>2 DEF Unanswered
  <2>2. draft'["dog"] \in {None, forms'[Top].text["dog"]}
    BY <1>1, <1>4 DEF DogInv
  <2> QED
    BY <1>1, <1>2, <1>4, <2>1, <2>2, DogFixed
<1> QED
  BY <1>3, <1>4, RelaunchEffect

LEMMA DogAnswer ==
    ASSUME TypeOK, DogInv, NEW i \in DOMAIN saves, NEW status \in {"stored", "refused"},
           ServerAnswers(i, status)
    PROVE  DogInv'
<1>1. /\ DOMAIN saves' = DOMAIN saves /\ forms' = forms /\ saves[i].status = "queued"
      /\ \A j \in DOMAIN saves :
            /\ saves'[j].form = saves[j].form /\ saves'[j].walk = saves[j].walk
            /\ saves'[j].answer = saves[j].answer
            /\ saves'[j].status = IF j = i THEN status ELSE saves[j].status
  BY SavesAfterAnswer
<1>2. draft' = draft /\ screen' = screen /\ left' = left
  BY DEF ServerAnswers
<1>3. Unanswered' = Unanswered
  BY <1>1 DEF Unanswered
<1>4. /\ draft'["dog"] \in {None, forms'[Top].text["dog"]}
      /\ screen' \notin Here => Unanswered' \subseteq left'
  BY <1>1, <1>2, <1>3 DEF DogInv
<1> QED
  BY <1>1, <1>2, <1>4, DogFixed

LEMMA DogHandler ==
    ASSUME TypeOK, DogInv, NEW i \in DOMAIN saves, SaveFailed(i) \/ SaveSucceeded(i)
    PROVE  DogInv'
<1> DEFINE f == saves[i].form
<1>0. f \in DOMAIN forms /\ forms[f] \in Form /\ Top \in DOMAIN forms
  BY Indices, DogTypes
<1>1. /\ DOMAIN saves' = DOMAIN saves
      /\ \A j \in DOMAIN saves :
            /\ saves'[j].form = saves[j].form /\ saves'[j].walk = saves[j].walk
            /\ saves'[j].status = saves[j].status
            /\ saves'[j].answer = IF j = i THEN "called" ELSE saves[j].answer
  BY SavesAfterHandler
<1>2. Unanswered' \subseteq Unanswered
  BY <1>1 DEF Unanswered
<1>3. CASE SaveFailed(i)
  <2>1. PICK form : form = Unlocked(forms[f])
    OBVIOUS
  <2>2. form \in Form /\ form.over = forms[f].over /\ form.text = forms[f].text
    BY <1>0, <2>1 DEF Unlocked, Form
  <2>3. forms' = [forms EXCEPT ![f] = form] /\ saves[i].status = "refused"
    BY <1>3, <2>1 DEF SaveFailed
  <2>4. /\ Len(forms') = Len(forms)
        /\ \A g \in DOMAIN forms : forms'[g] = IF g = f THEN form ELSE forms[g]
    BY <1>0, <2>2, <2>3, FormReplaced
  <2>5. draft' = draft /\ screen' = screen /\ left' = left
    BY <1>3 DEF SaveFailed
  <2>6. forms'[Top].text["dog"] = forms[Top].text["dog"]
    BY <1>0, <2>2, <2>4
  <2>7. \A g \in DOMAIN forms : forms'[g].over = forms[g].over
    BY <2>2, <2>4
  <2>8. /\ draft'["dog"] \in {None, forms'[Top].text["dog"]}
        /\ screen' \notin Here => Unanswered' \subseteq left'
    BY <1>2, <2>5, <2>6 DEF DogInv
  <2> HIDE DEF f
  <2> QED
    BY <1>1, <2>3, <2>4, <2>5, <2>6, <2>7, <2>8, DogFixed
<1>4. CASE SaveSucceeded(i)
  <2>1. PICK form \in {ClearedOne(forms[f]), ClearedAll(forms[f])} :
          forms' = [forms EXCEPT ![f] = form]
    BY <1>4 DEF SaveSucceeded
  <2>2. form \in Form /\ form.text["dog"] = None
    BY <1>0, <2>1, ClearedForms
  <2>3. form.over = forms[f].over
    BY <1>0, <2>1 DEF ClearedOne, ClearedAll, Form
  <2>4. /\ Len(forms') = Len(forms)
        /\ \A g \in DOMAIN forms : forms'[g] = IF g = f THEN form ELSE forms[g]
    BY <1>0, <2>1, <2>2, FormReplaced
  <2>5. draft'["dog"] = None
    <3>1. draft' = Without(draft, OneWalk) \/ draft' = Without(draft, AllWalk)
      BY <1>4 DEF SaveSucceeded
    <3> QED
      BY <3>1 DEF Without, OneWalk, AllWalk, Keys
  <2>6. (screen' = screen /\ left' = left) \/ left' = Unanswered'
    BY <1>4 DEF SaveSucceeded, ShowsNext
  <2>7. screen' \notin Here => Unanswered' \subseteq left'
    BY <1>2, <2>6 DEF DogInv
  <2>8. /\ forms'[Top].text["dog"] \in {None, forms[Top].text["dog"]}
        /\ \A g \in DOMAIN forms : forms'[g].over = forms[g].over
    BY <1>0, <2>2, <2>3, <2>4
  <2> HIDE DEF f
  <2> QED
    BY <1>1, <2>4, <2>5, <2>7, <2>8, DogFixed
<1> QED
  BY <1>3, <1>4

LEMMA DogSave == ASSUME TypeOK, DogInv, SaveTapped PROVE DogInv'
<1>a. PICK n : n = Len(saves) + 1
  OBVIOUS
<1>b. PICK dog : dog = forms[Top].text["dog"]
  OBVIOUS
<1>0. /\ Top \in Nat /\ Top \in DOMAIN forms /\ Len(saves) \in Nat /\ DOMAIN saves = 1..Len(saves)
      /\ \A k \in 1..Top : k # None
      /\ \A i \in DOMAIN saves : saves[i].form \in DOMAIN forms /\ saves[i].form \in Nat
                                 /\ saves[i].form <= Top
  BY DogTypes, Indices
<1>1. /\ DOMAIN forms' = DOMAIN forms /\ Len(forms') = Len(forms)
      /\ \A f \in DOMAIN forms \ {Top} : forms'[f] = forms[f]
      /\ forms'[Top].text = WithDefaults(forms[Top].text)
      /\ DOMAIN saves' = DOMAIN saves \cup {n}
      /\ \A i \in DOMAIN saves : saves'[i] = saves[i]
      /\ saves'[n] = [form |-> Top, walk |-> WithDefaults(forms[Top].text),
                      status |-> "queued", answer |-> "waiting"]
  BY <1>0, <1>a, SaveTappedEffect
<1>2. Top' = Top
  BY <1>1 DEF Top
<1>3. dog \in 1..Top /\ WithDefaults(forms[Top].text)["dog"] = dog
  <2>1. dog # None
    BY <1>b DEF SaveTapped, Complete, Required
  <2> QED
    BY <1>b, <2>1 DEF DogInv, WithDefaults, Keys, Defaulted
<1>4. forms'[Top].text["dog"] = dog
  BY <1>1, <1>3
<1>5. \A f \in DOMAIN forms : forms'[f].over = forms[f].over
  <2>1. forms'[Top].over = forms[Top].over
    <3>1. forms[Top] \in Form
      BY Indices
    <3>2. forms'[Top] = [forms[Top] EXCEPT !.text = WithDefaults(forms[Top].text),
                                           !.allowSave = TRUE, !.busy = TRUE]
      BY <1>0 DEF SaveTapped
    <3> QED
      BY <3>1, <3>2 DEF Form
  <2> QED
    BY <1>1, <2>1
<1>6. draft' = draft /\ screen' \in Here
  BY DEF SaveTapped, Here
<1>7. \A i \in DOMAIN saves : Dog(i)' = Dog(i)
  BY <1>1 DEF Dog
<1>8. /\ Dog(n)' = dog /\ saves'[n].form = Top /\ saves'[n].answer = "waiting"
      /\ n \in DOMAIN saves' /\ n \notin DOMAIN saves
      /\ \A i \in DOMAIN saves' : i = n \/ (i \in DOMAIN saves /\ i < n)
  BY <1>0, <1>1, <1>3, <1>a DEF Dog
<1>9. ASSUME NEW i \in DOMAIN saves'
      PROVE  /\ Dog(i)' \in 1..Top'
             /\ draft'["dog"] = Dog(i)'
                   => saves'[i].answer # "called" \/ saves'[i].status = "refused"
             /\ saves'[i].form < Top' /\ saves'[i].answer = "waiting" => i \in forms'[Top'].over
             /\ saves'[i].form < Top' /\ forms'[Top'].text["dog"] = Dog(i)'
                   => i \in forms'[Top'].over \/ saves'[i].status = "refused"
             /\ saves'[i].form = Top' /\ saves'[i].answer = "waiting"
                   => forms'[Top'].text["dog"] \in {None, Dog(i)'}
  <2>1. CASE i = n
    BY <1>0, <1>2, <1>3, <1>4, <1>8, <2>1
  <2>2. CASE i \in DOMAIN saves
    BY <1>0, <1>1, <1>2, <1>4, <1>5, <1>6, <1>7, <1>b, <2>2 DEF DogInv
  <2> QED
    BY <1>8, <2>1, <2>2
<1>10. ASSUME NEW i \in DOMAIN saves', NEW j \in DOMAIN saves', i < j, Dog(i)' = Dog(j)'
       PROVE  \/ saves'[i].status = "refused" \/ saves'[i].form = saves'[j].form
              \/ i \in forms'[saves'[j].form].over
  <2>1. i \in DOMAIN saves
    <3>1. n \in Nat
      BY <1>0, <1>a
    <3>2. \A k \in DOMAIN saves' : k \in Nat /\ k <= n
      BY <1>0, <1>8, <3>1
    <3> QED
      BY <1>8, <1>10, <3>1, <3>2
  <2>2. CASE j \in DOMAIN saves
    BY <1>0, <1>1, <1>5, <1>7, <1>10, <2>1, <2>2, SMTT(30) DEF DogInv
  <2>3. CASE j = n
    <3>1. Dog(i) = dog /\ saves'[j].form = Top
      BY <1>7, <1>8, <1>10, <2>1, <2>3
    <3>2. CASE saves[i].form = Top
      BY <1>1, <2>1, <3>1, <3>2
    <3>3. CASE saves[i].form < Top
      BY <1>0, <1>1, <1>5, <1>b, <2>1, <3>1, <3>3 DEF DogInv
    <3> QED
      BY <1>0, <2>1, <3>2, <3>3
  <2> QED
    BY <1>8, <2>2, <2>3
<1>11. /\ draft'["dog"] \in {None} \cup 1..Top' /\ forms'[Top'].text["dog"] \in {None} \cup 1..Top'
       /\ draft'["dog"] \in {None, forms'[Top'].text["dog"]}
  BY <1>2, <1>3, <1>4, <1>6, <1>b DEF DogInv
<1> QED
  BY <1>6, <1>9, <1>10, <1>11 DEF DogInv

LEMMA DogNext == TypeOK /\ DogInv /\ [Next]_vars => DogInv'
  BY DogSteps, DogStay, DogBack, DogSave, DogAnswer, DogHandler, DogRelaunch

LEMMA DogInit == Init => DogInv
<1> SUFFICES ASSUME Init PROVE DogInv
  OBVIOUS
<1>1. PICK given \in InitKeys, kind \in Kinds :
        LET walk == [k \in Keys |-> IF k \notin given THEN None
                                    ELSE IF k = "what" THEN kind ELSE 1]
        IN  draft = walk /\ forms = <<NewForm(walk, {})>> /\ saves = <<>> /\ screen = "form"
  BY DEF Init
<1>2. draft["dog"] \in {None, 1} /\ forms = <<NewForm(draft, {})>>
  BY <1>1 DEF Keys
<1>3. Top = 1 /\ forms[Top].text = draft
  BY <1>2 DEF Top, NewForm
<1> QED
  BY <1>1, <1>2, <1>3 DEF DogInv, Here

LEMMA DogInvHolds == Spec => []DogInv
  BY DogInit, DogNext, TypeCorrect, PTL DEF Spec

\* A walk is stored twice only by leaving its form while the first save is unanswered and
\* saving again from the form that comes up next, for any number of forms and saves: the
\* handlers clear the shared draft (removeUserDefaults, removeAllUserDefaults), and a form
\* that comes up later has another dog.
THEOREM DuplicatesExplained == Spec => []DuplicateNeedsUnansweredSave
<1>1. TypeOK /\ SaveInv /\ DogInv => DuplicateNeedsUnansweredSave
  <2> SUFFICES ASSUME TypeOK, SaveInv, DogInv, NEW i \in Stored, NEW j \in Stored, i < j,
                      Dog(i) = Dog(j)
               PROVE  i \in forms[saves[j].form].over
    BY DEF DuplicateNeedsUnansweredSave, Dog
  <2>1. i # j /\ i \in DOMAIN saves /\ j \in DOMAIN saves
    BY DogTypes DEF Stored
  <2>2. saves[i].status # "refused" /\ saves[i].form # saves[j].form
    BY <2>1 DEF SaveInv, AtMostOneSavePerForm, Stored
  <2> QED
    BY <2>1, <2>2 DEF DogInv
<1> QED
  BY <1>1, DogInvHolds, SaveInvHolds, TypeCorrect, PTL

\* A handler takes its own dog from the draft or none, unless the last form came up while
\* its save was unanswered.
THEOREM HandlersClearTheirs == Spec => HandlerRemovesItsOwnWalk
<1>1. TypeOK /\ DogInv =>
        \A i \in DOMAIN saves : Called(i) /\ saves[i].status = "stored" =>
            draft["dog"] \in {None, saves[i].walk["dog"]} \/ i \in forms[Top].over
  <2> SUFFICES ASSUME TypeOK, DogInv, NEW i \in DOMAIN saves, saves[i].answer = "waiting"
               PROVE  draft["dog"] \in {None, Dog(i)} \/ i \in forms[Top].over
    BY DEF Called, Dog
  <2>1. saves[i].form < Top \/ saves[i].form = Top
    BY DogTypes
  <2> QED
    BY <2>1 DEF DogInv
<1> QED
  BY <1>1, DogInvHolds, TypeCorrect, PTL DEF HandlerRemovesItsOwnWalk

-----------------------------------------------------------------------------
(* What takes an entry from the draft *)

\* Nothing but Clear, History, the removal of the images, logging out and the handler of a
\* stored walk takes an entry from the draft; the end of the process and a refused save,
\* which run removeUserDefaults nowhere, leave it as it is.
THEOREM FailuresKeepTheDraft == Spec => DraftOutlivesFailure
<1> DEFINE Explained(k) ==
        \/ screen = "settings"
        \/ k # "person" /\ (screen = "clear" \/ (screen = "form" /\ screen' = "history"))
        \/ k = "img" /\ screen = "image"
        \/ k # "person" /\ \E i \in Stored : Called(i)
<1>1. TypeOK /\ [Next]_vars =>
        \A k \in Keys : draft[k] # None /\ draft'[k] = None => Explained(k)
  <2> SUFFICES ASSUME TypeOK, [Next]_vars, NEW k \in Keys, draft[k] # None, draft'[k] = None
               PROVE  Explained(k)
    OBVIOUS
  <2>0. draft \in Walk /\ NextForm \in Nat /\ NextForm # None /\ None \notin Kinds
    BY Indices, NoneIsNoValue DEF TypeOK, NextForm
  <2>1. draft' # draft
    OBVIOUS
  <2>2. CASE PickerSaved
    <3>1. PICK v : v # None /\ OpenForm([draft EXCEPT ![screen] = v], left)
      BY <2>0, <2>1, <2>2 DEF PickerSaved, OpenForm
    <3> QED
      BY <2>0, <3>1 DEF OpenForm, Walk
  <2>3. CASE NoteChosen
    <3>1. PICK text : text # None /\ OpenForm([draft EXCEPT !["note"] = text], left)
      BY <2>1, <2>3 DEF NoteChosen, OpenForm
    <3> QED
      BY <2>0, <3>1 DEF OpenForm, Walk
  <2>4. CASE ImageChosen
    BY <2>0, <2>4 DEF ImageChosen, OpenForm, Walk
  <2>5. CASE MapSaved
    BY <2>0, <2>5 DEF MapSaved, OpenForm
  <2>6. CASE ImageDeleted
    <3>1. k = "img"
      BY <2>0, <2>6 DEF ImageDeleted, Walk
    <3> QED
      BY <2>6, <3>1 DEF ImageDeleted
  <2>7. CASE ClearConfirmed \/ HistoryTapped
    <3>1. k # "person"
      BY <2>7 DEF ClearConfirmed, HistoryTapped, Without, AllWalk
    <3> QED
      BY <2>7, <3>1 DEF ClearConfirmed, HistoryTapped, Leave
  <2>8. CASE LoggedOut
    BY <2>8 DEF LoggedOut
  <2>9. ASSUME NEW i \in DOMAIN saves, SaveSucceeded(i) PROVE Explained(k)
    <3>1. k # "person"
      BY <2>9 DEF SaveSucceeded, Without, AllWalk, OneWalk
    <3>2. saves[i].status = "stored" /\ Called(i)
      BY <2>9, SavesAfterHandler DEF SaveSucceeded, Called
    <3> QED
      BY <3>1, <3>2 DEF Stored
  <2>10. CASE Return \/ LoggedIn \/ Relaunch
    BY <2>1, <2>10 DEF Return, LoggedIn, Relaunch, OpenForm
  <2>11. ~ UNCHANGED vars
    BY <2>1 DEF vars
  <2>12. CASE Server \/ \E i \in DOMAIN saves : SaveFailed(i)
    BY <2>1, <2>12 DEF Server, ServerAnswers, SaveFailed
  <2>13. CASE \/ \E l \in Keys : ChooseTapped(l) \/ TextTyped(l)
              \/ PickerEmpty \/ AddNoteTapped \/ CameraTapped \/ MapTapped \/ MoreWalksTapped
              \/ SaveTappedIncomplete \/ SaveTapped \/ SaveTappedAgain
              \/ ClearTapped \/ AlertClosed \/ SettingsTapped \/ SheetClosed \/ AdDismissed
    BY <2>1, <2>13 DEF ChooseTapped, TextTyped, PickerEmpty, AddNoteTapped, CameraTapped,
       MapTapped, MoreWalksTapped, SaveTappedIncomplete, SaveTapped, SaveTappedAgain,
       ClearTapped, AlertClosed, SettingsTapped, SheetClosed, AdDismissed
  <2> HIDE DEF Explained
  <2> QED
    BY <2>2, <2>3, <2>4, <2>5, <2>6, <2>7, <2>8, <2>9, <2>10, <2>11, <2>12, <2>13
       DEF Next, User, Handler
<1> QED
  BY <1>1, TypeCorrect, PTL DEF Spec, DraftOutlivesFailure

-----------------------------------------------------------------------------
(* The form implements WalkLog, for every number of forms and of saves.    *)

\* The state WalkForm shows to WalkLog.
Phases  == [f \in 1..MaxForms |-> Phase(f)]
Entries == {[session |-> saves[i].form, id |-> i] : i \in Stored}

\* The forms whose walk is stored.
Saved == {saves[i].form : i \in Stored}

\* A step that moves one session and leaves the log is a step of WalkLog.
LEMMA Moves ==
    ASSUME NEW f \in 1..MaxForms, NEW from, NEW to,
           \/ from = "unopened" /\ to = "editing"
           \/ from = "editing" /\ to = "saving"
           \/ from = "saving" /\ to = "editing",
           Phases[f] = from, Phases'[f] = to,
           \A g \in 1..MaxForms \ {f} : Phases'[g] = Phases[g],
           Entries' = Entries
    PROVE  Log!Next
<1>1. Phases[f] = from /\ Phases' = [Phases EXCEPT ![f] = to]
  BY DEF Phases
<1>2. Log!Open(f) \/ Log!Submit(f) \/ Log!Refuse(f)
  BY <1>1 DEF Log!Open, Log!Submit, Log!Refuse, Log!Goes, Phases, Entries
<1>3. QED
  BY <1>2 DEF Log!Next

\* A step that ends one session and adds its document to the log is one, too.
LEMMA Takes ==
    ASSUME NEW f \in 1..MaxForms, NEW i \in 1..MaxSaves,
           Phases[f] = "saving", Phases'[f] = "saved",
           \A g \in 1..MaxForms \ {f} : Phases'[g] = Phases[g],
           Entries' = Entries \cup {[session |-> f, id |-> i]}
    PROVE  Log!Next
<1>1. Phases[f] = "saving" /\ Phases' = [Phases EXCEPT ![f] = "saved"]
  BY DEF Phases
<1>2. Log!Take(f)
  BY <1>1 DEF Log!Take, Log!Goes, Phases, Entries
<1>3. QED
  BY <1>2 DEF Log!Next

\* A step that moves no session and leaves the log is a stutter of WalkLog.
LEMMA Stutters ==
    ASSUME \A g \in 1..MaxForms : Phases'[g] = Phases[g], Entries' = Entries
    PROVE  UNCHANGED Log!vars
  BY DEF Log!vars, Phases, Entries

\* The phase of one form, before and after a step.
LEMMA PhaseOf ==
    ASSUME NEW f \in 1..MaxForms
    PROVE  /\ Phases[f] = IF f \notin DOMAIN forms THEN "unopened"
                          ELSE IF f \in Saved THEN "saved"
                          ELSE IF forms[f].allowSave THEN "saving" ELSE "editing"
           /\ Phases'[f] = IF f \notin DOMAIN forms' THEN "unopened"
                           ELSE IF f \in Saved' THEN "saved"
                           ELSE IF forms'[f].allowSave THEN "saving" ELSE "editing"
  BY DEF Phases, Phase, Saved

\* Saves that keep form and status leave the log, and which forms are saved.
LEMMA SameLog ==
    ASSUME DOMAIN saves \subseteq DOMAIN saves',
           \A i \in DOMAIN saves : saves'[i].form = saves[i].form
                                   /\ saves'[i].status = saves[i].status,
           \A i \in DOMAIN saves' \ DOMAIN saves : saves'[i].status # "stored"
    PROVE  /\ Entries' = Entries
           /\ Saved' = Saved
<1>1. Stored' = Stored
  BY DEF Stored
<1>2. \A i \in Stored : saves'[i].form = saves[i].form
  BY DEF Stored
<1>3. QED
  BY <1>1, <1>2 DEF Entries, Saved

\* A form opened on top: its session leaves "unopened" for "editing".
LEMMA Opens ==
    ASSUME TypeOK, TypeOK',
           DOMAIN forms' = 1..(Len(forms) + 1), Len(forms') = Len(forms) + 1,
           \A f \in DOMAIN forms : forms'[f].allowSave = forms[f].allowSave,
           ~forms'[Len(forms) + 1].allowSave,
           Entries' = Entries, Saved' = Saved
    PROVE  Log!Next
<1> DEFINE n == Len(forms) + 1
<1>1. DOMAIN forms = 1..Len(forms) /\ Len(forms) \in Nat /\ n \in 1..MaxForms
  BY Indices, BoundsAreNat DEF TypeOK
<1>2. DOMAIN forms' = DOMAIN forms \cup {n} /\ n \notin DOMAIN forms
  BY <1>1
<1>3. n \notin Saved
  BY <1>2 DEF TypeOK, Saved, Stored
<1>4. Phases[n] = "unopened" /\ Phases'[n] = "editing"
  <2>1. n \notin Saved'
    BY <1>3
  <2>2. n \in DOMAIN forms' /\ n \notin DOMAIN forms
    BY <1>2
  <2>3. QED
    BY <1>1, <1>3, <2>1, <2>2, PhaseOf
<1>5. \A g \in 1..MaxForms \ {n} : Phases'[g] = Phases[g]
  BY <1>2, PhaseOf
<1>6. QED
  BY <1>1, <1>4, <1>5, Moves

LEMMA LogStep ==
    ASSUME TypeOK, TypeOK', SaveInv, SaveInv', [Next]_vars
    PROVE  [Log!Next]_(Log!vars)
<1>0. /\ DOMAIN forms = 1..Len(forms) /\ Len(forms) \in Nat /\ Top \in DOMAIN forms
      /\ DOMAIN saves = 1..Len(saves) /\ Len(saves) \in Nat
      /\ \A i \in DOMAIN saves : saves[i] \in Save /\ saves[i].form \in DOMAIN forms
      /\ Top = Len(forms) /\ Len(forms) <= MaxForms /\ Len(saves) <= MaxSaves
      /\ MaxForms \in Nat /\ MaxSaves \in Nat
  BY Indices, BoundsAreNat DEF TypeOK, Top
<1>a. \A f \in DOMAIN forms : f \in 1..MaxForms
  BY <1>0
<1>b. \A i \in DOMAIN saves : i \in 1..MaxSaves
  BY <1>0
<1>1. CASE Quiet
  <2>1. /\ Entries' = Entries
        /\ Saved' = Saved
    BY <1>1, SameLog DEF Quiet
  <2>2. Len(forms') = Len(forms) \/ Len(forms') = Len(forms) + 1
    BY <1>1 DEF Quiet
  <2>3. CASE Len(forms') = Len(forms)
    <3>1. DOMAIN forms' = DOMAIN forms
      BY <1>0, <1>1, <2>3 DEF Quiet
    <3>2. \A g \in 1..MaxForms : Phases'[g] = Phases[g]
      BY <3>1, <2>1, <1>1, PhaseOf DEF Quiet
    <3>3. QED
      BY <3>2, <2>1, Stutters
  <2>4. CASE Len(forms') = Len(forms) + 1
    <3>1. DOMAIN forms' = 1..(Len(forms) + 1)
      BY <1>1, <2>4 DEF Quiet
    <3>2. Len(forms) + 1 \in DOMAIN forms' \ DOMAIN forms
      BY <1>0, <3>1
    <3>3. \A f \in DOMAIN forms : forms'[f].allowSave = forms[f].allowSave
      BY <1>1 DEF Quiet
    <3>4. ~forms'[Len(forms) + 1].allowSave
      BY <1>1, <3>2 DEF Quiet
    <3>5. QED
      BY <2>1, <2>4, <3>1, <3>4, <3>3, Opens
  <2>5. QED
    BY <2>2, <2>3, <2>4
<1>2. CASE SaveTapped
  <2>1. /\ DOMAIN forms' = DOMAIN forms
        /\ \A f \in DOMAIN forms \ {Top} : forms'[f] = forms[f]
        /\ forms'[Top].allowSave
        /\ DOMAIN saves' = DOMAIN saves \cup {Len(saves) + 1}
        /\ \A i \in DOMAIN saves : saves'[i] = saves[i]
        /\ saves'[Len(saves) + 1].status = "queued"
    BY <1>0, <1>2, SaveTappedEffect
  <2>2. /\ Entries' = Entries
        /\ Saved' = Saved
    BY <2>1, SameLog
  <2>3. forms[Top].text["dog"] # None /\ ~forms[Top].allowSave
    BY <1>2 DEF SaveTapped, Complete, Required
  <2>4. Top \notin Saved
    BY <1>0, <2>3 DEF Saved, Stored, SaveInv, Save
  <2>5. Phases[Top] = "editing" /\ Phases'[Top] = "saving"
    BY <1>0, <2>1, <2>2, <2>3, <2>4, PhaseOf
  <2>6. \A g \in 1..MaxForms \ {Top} : Phases'[g] = Phases[g]
    BY <2>1, <2>2, PhaseOf
  <2>7. QED
    BY <1>0, <1>a, <2>2, <2>5, <2>6, Moves
<1>3. ASSUME NEW i \in DOMAIN saves, ServerAnswers(i, "refused")
      PROVE  UNCHANGED Log!vars
  <2>1. /\ DOMAIN saves' = DOMAIN saves /\ forms' = forms
        /\ saves[i].status = "queued"
        /\ \A j \in DOMAIN saves :
              /\ saves'[j].form = saves[j].form
              /\ saves'[j].status = IF j = i THEN "refused" ELSE saves[j].status
    BY <1>3, SavesAfterAnswer
  <2>2. Stored' = Stored
    BY <2>1 DEF Stored
  <2>3. \A j \in Stored : saves'[j].form = saves[j].form
    BY <2>1 DEF Stored
  <2>4. Entries' = Entries /\ Saved' = Saved
    BY <2>2, <2>3 DEF Entries, Saved
  <2>5. \A g \in 1..MaxForms : Phases'[g] = Phases[g]
    BY <2>1, <2>4, PhaseOf
  <2>6. QED
    BY <2>4, <2>5, Stutters
<1>4. ASSUME NEW i \in DOMAIN saves, ServerAnswers(i, "stored")
      PROVE  Log!Next
  <2> DEFINE f == saves[i].form
  <2>1. /\ DOMAIN saves' = DOMAIN saves /\ forms' = forms
        /\ saves[i].status = "queued"
        /\ \A j \in DOMAIN saves :
              /\ saves'[j].form = saves[j].form
              /\ saves'[j].status = IF j = i THEN "stored" ELSE saves[j].status
    BY <1>4, SavesAfterAnswer
  <2>2. Stored' = Stored \cup {i}
    BY <2>1 DEF Stored
  <2>3. \A j \in Stored \cup {i} : saves'[j].form = saves[j].form
    BY <2>1 DEF Stored
  <2>4. Entries' = Entries \cup {[session |-> f, id |-> i]}
    BY <2>2, <2>3 DEF Entries
  <2>5. Saved' = Saved \cup {f}
    BY <2>2, <2>3 DEF Saved
  <2>6. f \notin Saved
    BY <2>1 DEF Saved, Stored, SaveInv, AtMostOneSavePerForm
  <2>7. forms[f].allowSave
    BY <2>1 DEF SaveInv
  <2>8. Phases[f] = "saving" /\ Phases'[f] = "saved"
    BY <1>0, <2>1, <2>5, <2>6, <2>7, PhaseOf
  <2>9. \A g \in 1..MaxForms \ {f} : Phases'[g] = Phases[g]
    BY <2>1, <2>5, PhaseOf
  <2>10. QED
    BY <1>0, <1>a, <1>b, <2>4, <2>8, <2>9, Takes
<1>5. ASSUME NEW i \in DOMAIN saves, SaveFailed(i) \/ SaveSucceeded(i)
      PROVE  [Log!Next]_(Log!vars)
  <2> DEFINE f == saves[i].form
  <2>1. /\ DOMAIN forms' = DOMAIN forms
        /\ \A g \in DOMAIN forms \ {f} : forms'[g] = forms[g]
        /\ saves[i].answer = "waiting"
        /\ \/ saves[i].status = "refused" /\ ~forms'[f].allowSave
           \/ saves[i].status = "stored"
    BY <1>5, HandlerEffect
  <2>2. /\ DOMAIN saves' = DOMAIN saves
        /\ \A j \in DOMAIN saves :
              saves'[j].form = saves[j].form /\ saves'[j].status = saves[j].status
    BY <1>5, SavesAfterHandler
  <2>3. /\ Entries' = Entries
        /\ Saved' = Saved
    BY <2>2, SameLog
  <2>4. \A g \in 1..MaxForms \ {f} : Phases'[g] = Phases[g]
    BY <2>1, <2>3, PhaseOf
  <2>5. CASE f \in Saved
    <3>1. Phases'[f] = Phases[f]
      BY <1>0, <1>a, <2>1, <2>3, <2>5, PhaseOf
    <3>2. QED
      BY <2>3, <2>4, <3>1, Stutters
  <2>6. CASE f \notin Saved
    <3>1. ~forms'[f].allowSave
      BY <2>1, <2>6 DEF Saved, Stored
    <3>2. forms[f].allowSave
      BY <2>1 DEF SaveInv
    <3>3. Phases[f] = "saving" /\ Phases'[f] = "editing"
      BY <1>0, <2>1, <2>3, <2>6, <3>1, <3>2, PhaseOf
    <3>4. QED
      BY <1>0, <1>a, <2>3, <2>4, <3>3, Moves
  <2>7. QED
    BY <2>5, <2>6
<1>6. CASE Relaunch
  <2>1. /\ DOMAIN saves' = DOMAIN saves
        /\ \A i \in DOMAIN saves :
              saves'[i].form = saves[i].form /\ saves'[i].status = saves[i].status
        /\ OpenForm(draft, Unanswered) \/ forms' = forms
    BY <1>6, RelaunchEffect
  <2>2. /\ Entries' = Entries
        /\ Saved' = Saved
    BY <2>1, SameLog
  <2>3. draft \in Walk /\ Unanswered \in SUBSET Nat
    BY Indices DEF TypeOK
  <2>4. CASE OpenForm(draft, Unanswered)
    <3>1. ~NewForm(draft, Unanswered).allowSave
      BY DEF NewForm
    <3>2. /\ Len(forms') = Len(forms) + 1
          /\ DOMAIN forms' = 1..(Len(forms) + 1)
          /\ \A f \in DOMAIN forms : forms'[f] = forms[f]
          /\ ~forms'[Len(forms) + 1].allowSave
      BY <2>3, <2>4, <3>1, FormOpened
    <3>3. QED
      BY <2>2, <3>2, Opens
  <2>5. CASE forms' = forms
    BY <2>2, <2>5, PhaseOf, Stutters
  <2>6. QED
    BY <2>1, <2>4, <2>5
<1>7. QED
  BY <1>1, <1>2, <1>3, <1>4, <1>5, <1>6, QuietSteps

\* The screens, the shared draft, the handlers and the crashes implement the log of
\* one stored walk per session.
THEOREM Refinement == Spec => ImplementsLog
<1>1. Init => Log!Init
  <2> SUFFICES ASSUME Init PROVE Log!Init
    OBVIOUS
  <2>1. /\ saves = <<>> /\ DOMAIN forms = {1} /\ ~forms[1].allowSave
    BY DEF Init, NewForm
  <2>2. Stored = {}
    BY <2>1 DEF Stored
  <2>3. \A f \in 1..MaxForms : Phases[f] = IF f = 1 THEN "editing" ELSE "unopened"
    BY <2>1, <2>2 DEF Phases, Phase
  <2>4. Entries = {}
    BY <2>2 DEF Entries
  <2>5. QED
    BY <2>3, <2>4 DEF Log!Init, Entries, Phases
<1>2. QED
  BY <1>1, LogStep, TypeCorrect, SaveInvHolds, PTL DEF Spec, ImplementsLog, Log!Spec
=============================================================================
