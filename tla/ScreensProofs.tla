---------------------------- MODULE ScreensProofs ----------------------------
(***************************************************************************)
(* Proofs about the three screens of MCScreens: TimerWheel, ImageUpload    *)
(* and DogDocuments.  Each result is stated of the screen's own            *)
(* specification; the first lemma says that what TLC checks side by side   *)
(* are behaviours of each of them.                                         *)
(***************************************************************************)
EXTENDS MCScreens, SequenceTheorems, TLAPS

\* A behaviour of the three screens is one of each.
THEOREM SideBySide == ScreensSpec => Spec /\ Upload!Spec /\ Papers!Spec
<1>1. ScreensInit => Init /\ Upload!Init /\ Papers!Init
  BY DEF ScreensInit
<1>2. [ScreensNext]_allVars => [Next]_vars
  BY DEF ScreensNext, allVars
<1>3. [ScreensNext]_allVars => [Upload!Next]_(Upload!vars)
  BY DEF ScreensNext, allVars, uploadVars, Upload!vars, Upload!screen
<1>4. [ScreensNext]_allVars => [Papers!Next]_(Papers!vars)
  BY DEF ScreensNext, allVars, paperVars, Papers!vars
<1>5. QED
  BY <1>1, <1>2, <1>3, <1>4, PTL DEF ScreensSpec, Spec, Upload!Spec, Papers!Spec

-----------------------------------------------------------------------------
(* The wheel: the two tables are inverse to each other, and the interval of *)
(* a dog goes through it unharmed.                                          *)

\* The code written for a row leads back to that row (getRowID after convertRowIDtoTimer).
LEMMA RowOfCode ==
    ASSUME NEW r \in WheelRows
    PROVE  RowOf(CodeOf[r]) = r
<1>1. CASE r = 0
  <2>1. \A q \in 1..14 : NoTimer # 1800 * q
    BY SMT DEF NoTimer
  <2>2. CodeOf[r] = NoTimer
    BY <1>1 DEF CodeOf, WheelRows
  <2> QED
    BY <1>1, <2>1, <2>2 DEF RowOf
<1>2. CASE r # 0
  <2>1. r \in 1..14
    BY <1>2, SMT DEF WheelRows
  <2>2. CodeOf[r] = 1800 * r
    BY <1>2 DEF CodeOf
  <2>3. \A q \in 1..14 : 1800 * r = 1800 * q => q = r
    BY <2>1, SMT
  <2> QED
    BY <2>1, <2>2, <2>3 DEF RowOf
<1> QED
  BY <1>1, <1>2

\* Every code of the wheel leads to a row that has this code.
LEMMA CodeOfRow ==
    ASSUME NEW c \in Codes
    PROVE  RowOf(c) \in WheelRows /\ CodeOf[RowOf(c)] = c
<1>1. PICK r \in WheelRows : c = CodeOf[r]
  BY DEF Codes
<1> QED
  BY <1>1, RowOfCode

LEMMA CodesOfRows == NoTimer \in Codes /\ \A r \in WheelRows : CodeOf[r] \in Codes
<1>1. 0 \in WheelRows /\ CodeOf[0] = NoTimer
  BY SMT DEF WheelRows, CodeOf
<1> QED
  BY <1>1 DEF Codes

\* No row is the value None.
LEMMA NoneIsNoRow == None \notin WheelRows
BY NoneIsNoNumber DEF WheelRows

\* The interval the editor and the wheel work on is always one the wheel knows.
THEOREM TypeCorrect == Spec => []TypeOK
<1>1. Init => TypeOK
  BY CodesOfRows DEF Init, TypeOK
<1>2. TypeOK /\ [Next]_vars => TypeOK'
  <2> SUFFICES ASSUME TypeOK, [Next]_vars
               PROVE  TypeOK'
    OBVIOUS
  <2> USE CodesOfRows DEF TypeOK
  <2>1. CASE EditTapped
    BY <2>1 DEF EditTapped
  <2>2. CASE PlusTapped
    BY <2>2 DEF PlusTapped, Loaded
  <2>3. CASE TimerTapped
    <3>1. RowOf(timerStr) \in WheelRows
      BY CodeOfRow
    <3> QED
      BY <2>3, <3>1 DEF TimerTapped
  <2>4. CASE EditorClosed
    BY <2>4 DEF EditorClosed
  <2>5. CASE \E r \in WheelRows : Turned(r)
    BY <2>5 DEF Turned
  <2>6. CASE WheelSaved
    <3>1. rowID \in WheelRows
      BY <2>6 DEF WheelSaved
    <3> QED
      BY <2>6, <3>1 DEF WheelSaved
  <2>7. CASE WheelCrashes
    BY <2>7 DEF WheelCrashes
  <2>8. CASE WheelClosed
    BY <2>8 DEF WheelClosed
  <2>9. CASE Saved
    BY <2>9 DEF Saved
  <2>10. CASE Deleted
    BY <2>10 DEF Deleted
  <2>11. CASE Relaunched
    BY <2>11 DEF Relaunched
  <2>12. CASE UNCHANGED vars
    BY <2>12 DEF vars
  <2> QED
    BY <2>1, <2>2, <2>3, <2>4, <2>5, <2>6, <2>7, <2>8, <2>9, <2>10, <2>11, <2>12 DEF Next
<1> QED
  BY <1>1, <1>2, PTL DEF Spec

LEMMA WheelStep ==
    TypeOK /\ WheelShowsTheInterval /\ [Next]_vars => WheelShowsTheInterval'
<1> SUFFICES ASSUME TypeOK, WheelShowsTheInterval, [Next]_vars
             PROVE  WheelShowsTheInterval'
  OBVIOUS
<1> USE DEF WheelShowsTheInterval
<1>1. CASE TimerTapped
  <2>1. RowOf(timerStr) # None /\ CodeOf[RowOf(timerStr)] = timerStr
    BY CodeOfRow, NoneIsNoRow DEF TypeOK
  <2> QED
    BY <1>1, <2>1 DEF TimerTapped
<1>2. CASE \E r \in WheelRows : Turned(r)
  BY <1>2 DEF Turned
<1>3. CASE EditTapped \/ PlusTapped \/ EditorClosed \/ WheelSaved \/ WheelCrashes
           \/ WheelClosed \/ Relaunched
  BY <1>3 DEF EditTapped, PlusTapped, EditorClosed, WheelSaved, WheelCrashes, WheelClosed,
              Relaunched
<1>4. CASE Saved \/ Deleted
  BY <1>4 DEF Saved, Deleted
<1>5. CASE UNCHANGED vars
  BY <1>5 DEF vars
<1> QED
  BY <1>1, <1>2, <1>3, <1>4, <1>5 DEF Next

\* Until it is turned, the wheel of an editing stands at the row of the dog's interval.
THEOREM WheelShows == Spec => []WheelShowsTheInterval
<1>1. Init => WheelShowsTheInterval
  BY DEF Init, WheelShowsTheInterval
<1> QED
  BY <1>1, TypeCorrect, WheelStep, PTL DEF Spec

\* Saving the wheel untouched stores the interval that was there.
THEOREM UntouchedKeeps == Spec => UntouchedWheelKeeps
<1>1. TypeOK /\ WheelShowsTheInterval /\ [Next]_vars
        => [screen = "wheel" /\ screen' = "editor" /\ edit /\ ~turned
                => timerStr' = timerStr]_vars
  <2> SUFFICES ASSUME WheelShowsTheInterval, Next,
                      screen = "wheel", screen' = "editor", edit, ~turned
               PROVE  timerStr' = timerStr
    OBVIOUS
  <2>1. WheelSaved \/ WheelClosed
    BY DEF Next, EditTapped, PlusTapped, TimerTapped, EditorClosed, Turned, WheelCrashes,
           Saved, Deleted, Relaunched
  <2>2. CASE WheelSaved
    BY <2>2 DEF WheelSaved, WheelShowsTheInterval
  <2>3. CASE WheelClosed
    BY <2>3 DEF WheelClosed
  <2> QED
    BY <2>1, <2>2, <2>3
<1> QED
  BY <1>1, TypeCorrect, WheelShows, PTL DEF Spec, UntouchedWheelKeeps

-----------------------------------------------------------------------------
(* Sequences as the screens use them *)

Elems(q) == {q[i] : i \in DOMAIN q}

LEMMA ElemsNames == \A q : Upload!Range(q) = Elems(q) /\ Papers!ToSet(q) = Elems(q)
BY DEF Elems, Upload!Range, Papers!ToSet

LEMMA ElemsIn ==
    ASSUME NEW S, NEW q \in Seq(S)
    PROVE  Elems(q) \subseteq S /\ Elems(<<>>) = {}
<1>1. \A i \in DOMAIN q : q[i] \in S
  BY LenProperties, ElementOfSeq
<1>2. Elems(<<>>) = {}
  BY DEF Elems
<1>3. QED
  BY <1>1, <1>2 DEF Elems

LEMMA ElemsAppend ==
    ASSUME NEW S, NEW q \in Seq(S), NEW x \in S
    PROVE  /\ Append(q, x) \in Seq(S)
           /\ Len(Append(q, x)) = Len(q) + 1 /\ Len(q) \in Nat
           /\ Elems(Append(q, x)) = Elems(q) \cup {x}
<1>1. Len(q) \in Nat /\ DOMAIN q = 1..Len(q)
  BY LenProperties
<1>2. Append(q, x) \in Seq(S) /\ Len(Append(q, x)) = Len(q) + 1
  BY AppendProperties
<1>3. DOMAIN Append(q, x) = 1..(Len(q) + 1)
  BY <1>2, LenProperties
<1>4. (\A i \in 1..Len(q) : Append(q, x)[i] = q[i]) /\ Append(q, x)[Len(q) + 1] = x
  BY AppendProperties
<1>5. \A i \in 1..(Len(q) + 1) : i \in 1..Len(q) \/ i = Len(q) + 1
  BY <1>1
<1>6. 1..Len(q) \subseteq 1..(Len(q) + 1) /\ Len(q) + 1 \in 1..(Len(q) + 1)
  BY <1>1
<1>7. Elems(Append(q, x)) = Elems(q) \cup {x}
  BY <1>1, <1>3, <1>4, <1>5, <1>6 DEF Elems
<1>8. QED
  BY <1>1, <1>2, <1>7

LEMMA ElemsRemove ==
    ASSUME NEW S, NEW q \in Seq(S), NEW i \in 1..Len(q)
    PROVE  Upload!RemoveAt(q, i) \in Seq(S) /\ Elems(Upload!RemoveAt(q, i)) \subseteq Elems(q)
<1> DEFINE T == Elems(q)
           a == SubSeq(q, 1, i - 1)
           b == SubSeq(q, i + 1, Len(q))
<1>1. Len(q) \in Nat /\ DOMAIN q = 1..Len(q)
  BY LenProperties
<1>2. \A j \in 1..Len(q) : q[j] \in T
  BY <1>1 DEF Elems
<1>3. T \subseteq S
  BY ElemsIn
<1>4. 1 \in Int /\ i - 1 \in Int /\ i + 1 \in Int /\ Len(q) \in Int
  BY <1>1
<1> HIDE DEF T
<1>5. a \in Seq(T)
  <2>1. \A j \in 1..(i - 1) : q[j] \in T
    BY <1>1, <1>2
  <2>2. QED
    BY <1>4, <2>1, SubSeqProperties
<1>6. b \in Seq(T)
  <2>1. \A j \in (i + 1)..Len(q) : q[j] \in T
    BY <1>1, <1>2
  <2>2. QED
    BY <1>4, <2>1, SubSeqProperties
<1>7. Upload!RemoveAt(q, i) = a \o b
  BY DEF Upload!RemoveAt
<1> HIDE DEF a, b
<1>8. a \o b \in Seq(T)
  BY <1>5, <1>6, ConcatProperties
<1>9. Elems(a \o b) \subseteq T
  BY <1>8, ElemsIn
<1>10. a \o b \in Seq(S)
  BY <1>3, <1>8, SeqMonotonic
<1>11. QED
  BY <1>7, <1>9, <1>10 DEF T

-----------------------------------------------------------------------------
(* The images of a walk *)

\* A row is selected whenever the alert asks, and it is there.
RowIsThere ==
    /\ Upload!SelectionIsAnImage
    /\ modal = "alert" => selected # 0

LEMMA UploadTypeStep ==
    Upload!TypeOK /\ RowIsThere /\ [Upload!Next]_(Upload!vars) => Upload!TypeOK'
<1> SUFFICES ASSUME Upload!TypeOK, RowIsThere, [Upload!Next]_(Upload!vars)
             PROVE  Upload!TypeOK'
  OBVIOUS
<1> USE DEF Upload!TypeOK
<1>0. /\ \A q \in Seq(Images), x \in Images : Append(q, x) \in Seq(Images)
      /\ \A q \in Seq(Images) : Upload!Range(q) \subseteq Images
      /\ <<>> \in Seq(Images)
  BY ElemsAppend, ElemsIn, ElemsNames, EmptySeq
<1>1. CASE Upload!CameraView
  BY <1>0, <1>1 DEF Upload!CameraView
<1>2. CASE \E l \in fetching : Upload!Retrieved(l)
  <2>1. PICK l \in fetching : Upload!Retrieved(l)
    BY <1>2
  <2>2. l \in Images
    BY <1>0
  <2>3. shown' \in Seq(Images) /\ add' \in BOOLEAN
    BY <1>0, <2>1, <2>2 DEF Upload!Retrieved, Upload!ReloadData
  <2>4. QED
    BY <2>1, <2>3 DEF Upload!Retrieved
<1>3. CASE \E i \in DOMAIN shown : Upload!RowSelected(i)
  <2>1. DOMAIN shown \subseteq Nat
    BY LenProperties
  <2>2. QED
    BY <1>3, <2>1 DEF Upload!RowSelected
<1>4. CASE Upload!PickerOpened \/ Upload!PickerCancelled \/ Upload!RemoveTapped
           \/ Upload!RemoveCancelled
  BY <1>4 DEF Upload!PickerOpened, Upload!PickerCancelled, Upload!RemoveTapped,
              Upload!RemoveCancelled, Upload!screen
<1>5. CASE \E x \in Images : Upload!ImagePicked(x)
  <2>1. PICK x \in Images : Upload!ImagePicked(x)
    BY <1>5
  <2>2. shown' \in Seq(Images) /\ add' \in BOOLEAN
    BY <1>0, <2>1 DEF Upload!ImagePicked, Upload!ReloadData
  <2>3. QED
    BY <2>1, <2>2 DEF Upload!ImagePicked
<1>6. CASE Upload!UploadStored
  <2>1. links' \in Seq(Images)
    BY <1>0, <1>6 DEF Upload!UploadStored
  <2>2. QED
    BY <1>6, <2>1 DEF Upload!UploadStored
<1>7. CASE Upload!UploadRefused
  BY <1>7 DEF Upload!UploadRefused
<1>8. CASE Upload!ChooseTapped
  BY <1>8 DEF Upload!ChooseTapped, Upload!screen
<1>9. CASE Upload!ScreenLeft
  BY <1>9 DEF Upload!ScreenLeft, Upload!screen
<1>10. CASE Upload!WalkStored
  BY <1>0, <1>10 DEF Upload!WalkStored, Upload!screen
<1>11. CASE Upload!RemoveConfirmed
  <2>1. selected \in 1..Len(shown)
    <3>1. Len(shown) \in Nat /\ selected \in Nat /\ selected # 0 /\ selected <= Len(shown)
      BY <1>11, LenProperties DEF Upload!RemoveConfirmed, RowIsThere, Upload!SelectionIsAnImage
    <3>2. QED
      BY <3>1
  <2>2. Upload!RemoveAt(shown, selected) \in Seq(Images)
    BY <2>1, ElemsRemove
  <2>3. shown' \in Seq(Images) /\ add' \in BOOLEAN
    BY <1>11, <2>2 DEF Upload!RemoveConfirmed, Upload!ReloadData
  <2>4. QED
    BY <1>0, <1>11, <2>3 DEF Upload!RemoveConfirmed
<1>12. CASE UNCHANGED Upload!vars
  BY <1>12 DEF Upload!vars, Upload!screen
<1>13. QED
  BY <1>1, <1>2, <1>3, <1>4, <1>5, <1>6, <1>7, <1>8, <1>9, <1>10, <1>11, <1>12
     DEF Upload!Next

LEMMA RowStep ==
    Upload!TypeOK /\ RowIsThere /\ [Upload!Next]_(Upload!vars) => RowIsThere'
<1> SUFFICES ASSUME Upload!TypeOK, RowIsThere, [Upload!Next]_(Upload!vars)
             PROVE  RowIsThere'
  OBVIOUS
<1> USE DEF RowIsThere, Upload!SelectionIsAnImage
<1>0. /\ shown \in Seq(Images) /\ Len(shown) \in Nat /\ DOMAIN shown = 1..Len(shown)
      /\ selected \in Nat /\ selected <= Len(shown)
      /\ \A x \in Images : Len(Append(shown, x)) = Len(shown) + 1
  BY LenProperties, ElemsAppend DEF Upload!TypeOK
<1>1. CASE Upload!CameraView
  <2>1. selected' = 0 /\ Len(shown') = 0 /\ modal' = "none"
    BY <1>1, EmptySeq DEF Upload!CameraView
  <2>2. QED
    BY <2>1
<1>2. CASE \E l \in fetching : Upload!Retrieved(l)
  <2>1. PICK l \in fetching : Upload!Retrieved(l)
    BY <1>2
  <2>2. l \in Images
    BY ElemsIn, ElemsNames DEF Upload!TypeOK
  <2>3. Len(shown') = Len(shown) + 1 \/ shown' = shown
    BY <1>0, <2>1, <2>2 DEF Upload!Retrieved, Upload!ReloadData
  <2>4. selected' = selected /\ modal' = modal
    BY <2>1 DEF Upload!Retrieved
  <2>5. QED
    BY <1>0, <2>3, <2>4
<1>3. CASE \E i \in DOMAIN shown : Upload!RowSelected(i)
  <2>1. PICK i \in DOMAIN shown : Upload!RowSelected(i)
    BY <1>3
  <2>2. selected' = i /\ shown' = shown /\ modal' = "none"
    BY <2>1 DEF Upload!RowSelected
  <2>3. QED
    BY <1>0, <2>1, <2>2
<1>4. CASE Upload!PickerOpened \/ Upload!PickerCancelled \/ Upload!RemoveCancelled
  <2>1. selected' = selected /\ shown' = shown /\ modal' # "alert"
    BY <1>4 DEF Upload!PickerOpened, Upload!PickerCancelled, Upload!RemoveCancelled, Upload!screen
  <2>2. QED
    BY <2>1
<1>5. CASE Upload!RemoveTapped
  <2>1. selected' = selected /\ shown' = shown /\ selected # 0
    BY <1>5 DEF Upload!RemoveTapped, Upload!screen
  <2>2. QED
    BY <2>1
<1>6. CASE \E x \in Images : Upload!ImagePicked(x)
  <2>1. PICK x \in Images : Upload!ImagePicked(x)
    BY <1>6
  <2>2. Len(shown') = Len(shown) + 1 /\ selected' = selected /\ modal' = "none"
    BY <1>0, <2>1 DEF Upload!ImagePicked, Upload!ReloadData
  <2>3. QED
    BY <1>0, <2>2
<1>7. CASE Upload!UploadStored \/ Upload!UploadRefused \/ Upload!ChooseTapped
           \/ Upload!ScreenLeft \/ Upload!WalkStored
  <2>1. UNCHANGED <<selected, shown, modal>>
    BY <1>7 DEF Upload!UploadStored, Upload!UploadRefused, Upload!ChooseTapped,
                Upload!ScreenLeft, Upload!WalkStored, Upload!screen
  <2>2. QED
    BY <2>1
<1>8. CASE Upload!RemoveConfirmed
  <2>1. selected' = 0 /\ modal' = "none" /\ shown' \in Seq(Images)
    BY <1>8, UploadTypeStep DEF Upload!RemoveConfirmed, Upload!TypeOK
  <2>2. Len(shown') \in Nat
    BY <2>1, LenProperties
  <2>3. QED
    BY <2>1, <2>2
<1>9. CASE UNCHANGED Upload!vars
  BY <1>9 DEF Upload!vars, Upload!screen
<1>10. QED
  BY <1>1, <1>2, <1>3, <1>4, <1>5, <1>6, <1>7, <1>8, <1>9 DEF Upload!Next

\* The screen's images: every one is among the links, but for the one whose upload is
\* unanswered; and while one was refused the lock stays closed and Choose disabled.
LinksKept ==
    open => /\ Elems(opened) \subseteq Elems(links)
            /\ uploadNew => upload = None /\ Elems(shown) \subseteq Elems(links)
            /\ upload # None => Elems(shown) \subseteq Elems(links) \cup {upload}
            /\ choose => uploadNew

LEMMA LinksStep ==
    Upload!TypeOK /\ RowIsThere /\ LinksKept /\ [Upload!Next]_(Upload!vars) => LinksKept'
<1> SUFFICES ASSUME Upload!TypeOK, RowIsThere, LinksKept, [Upload!Next]_(Upload!vars), open'
             PROVE  LinksKept'
  BY DEF LinksKept
<1>0. /\ \A q \in Seq(Images), x \in Images : Elems(Append(q, x)) = Elems(q) \cup {x}
      /\ shown \in Seq(Images) /\ links \in Seq(Images) /\ upload \in Images \cup {None}
      /\ opened \in Seq(Images) /\ fetching \subseteq Elems(opened) /\ Elems(opened) \subseteq Images
      /\ Elems(<<>>) = {}
  BY ElemsAppend, ElemsNames, ElemsIn DEF Upload!TypeOK
<1>1. CASE Upload!CameraView
  <2>1. /\ links' = link /\ opened' = link /\ shown' = <<>> /\ upload' = None
        /\ uploadNew' = TRUE /\ choose' = FALSE
    BY <1>1 DEF Upload!CameraView
  <2>2. QED
    BY <1>0, <2>1 DEF LinksKept
<1>2. CASE \E l \in fetching : Upload!Retrieved(l)
  <2>1. PICK l \in fetching : Upload!Retrieved(l)
    BY <1>2
  <2>2. /\ open /\ UNCHANGED <<opened, links, uploadNew, upload, choose>>
        /\ shown' = Append(shown, l) \/ shown' = shown
    BY <2>1 DEF Upload!Retrieved, Upload!ReloadData
  <2>3. l \in Elems(links) /\ l \in Images
    BY <1>0, <2>2 DEF LinksKept
  <2>4. Elems(shown') \subseteq Elems(shown) \cup Elems(links)
    <3>1. Elems(Append(shown, l)) = Elems(shown) \cup {l}
      BY <1>0, <2>3
    <3>2. CASE shown' = Append(shown, l)
      BY <2>3, <3>1, <3>2
    <3>3. CASE shown' = shown
      BY <3>3
    <3>4. QED
      BY <2>2, <3>2, <3>3
  <2>5. QED
    BY <2>2, <2>4 DEF LinksKept
<1>3. CASE \/ \E i \in DOMAIN shown : Upload!RowSelected(i)
           \/ Upload!PickerOpened \/ Upload!PickerCancelled
           \/ Upload!RemoveTapped \/ Upload!RemoveCancelled \/ Upload!WalkStored
           \/ UNCHANGED Upload!vars
  <2>1. UNCHANGED <<open, opened, links, shown, uploadNew, upload, choose>>
    BY <1>3 DEF Upload!RowSelected, Upload!PickerOpened, Upload!PickerCancelled,
                Upload!RemoveTapped, Upload!RemoveCancelled, Upload!WalkStored,
                Upload!vars, Upload!screen
  <2>2. QED
    BY <2>1 DEF LinksKept
<1>4. CASE \E x \in Images : Upload!ImagePicked(x)
  <2>1. PICK x \in Images : Upload!ImagePicked(x)
    BY <1>4
  <2>2. /\ open /\ uploadNew /\ UNCHANGED <<opened, links>>
        /\ uploadNew' = FALSE /\ choose' = FALSE /\ upload' \in {x, None}
        /\ shown' = Append(shown, x)
    BY <2>1 DEF Upload!ImagePicked, Upload!ReloadData
  <2>3. Elems(shown') \subseteq Elems(links') \cup {x}
    BY <1>0, <2>2 DEF LinksKept
  <2>4. QED
    BY <2>2, <2>3 DEF LinksKept
<1>5. CASE Upload!UploadStored
  <2>1. /\ open /\ upload # None /\ UNCHANGED <<opened, shown>>
        /\ links' = Append(links, upload) /\ upload' = None
    BY <1>5 DEF Upload!UploadStored
  <2>2. Elems(links') = Elems(links) \cup {upload}
    BY <1>0, <2>1
  <2>3. uploadNew' = TRUE
    BY <1>5 DEF Upload!UploadStored
  <2>4. QED
    BY <2>1, <2>2, <2>3 DEF LinksKept
<1>6. CASE Upload!UploadRefused
  <2>1. /\ open /\ upload # None /\ UNCHANGED <<opened, shown, links, uploadNew, choose>>
        /\ upload' = None
    BY <1>6 DEF Upload!UploadRefused
  <2>2. QED
    BY <2>1 DEF LinksKept
<1>7. CASE Upload!RemoveConfirmed
  <2>1. /\ open /\ UNCHANGED <<opened, links, uploadNew, upload>> /\ choose' = FALSE
        /\ shown' = Upload!RemoveAt(shown, selected) /\ modal = "alert"
    BY <1>7 DEF Upload!RemoveConfirmed, Upload!ReloadData
  <2>2. selected \in 1..Len(shown)
    <3>1. Len(shown) \in Nat /\ selected \in Nat /\ selected # 0 /\ selected <= Len(shown)
      BY <2>1, LenProperties DEF Upload!TypeOK, RowIsThere, Upload!SelectionIsAnImage
    <3>2. QED
      BY <3>1
  <2>3. Elems(shown') \subseteq Elems(shown)
    BY <1>0, <2>1, <2>2, ElemsRemove
  <2>4. QED
    BY <2>1, <2>3 DEF LinksKept
<1>8. CASE Upload!ChooseTapped \/ Upload!ScreenLeft
  <2>1. ~open'
    BY <1>8 DEF Upload!ChooseTapped, Upload!ScreenLeft
  <2>2. QED
    BY <2>1
<1>9. QED
  BY <1>1, <1>2, <1>3, <1>4, <1>5, <1>6, <1>7, <1>8 DEF Upload!Next

\* Links come from images that were picked, and a stored walk's are apart from those
\* of the draft and of the screen, unless the walk was stored under the screen.
StoredApart ==
    /\ Elems(link) \cup cleared \subseteq chosen
    /\ open => Elems(links) \subseteq chosen /\ (upload # None => upload \in chosen)
    /\ ~under => /\ Elems(link) \cap cleared = {}
                 /\ open => /\ Elems(links) \cap cleared = {}
                            /\ upload # None => upload \notin cleared

LEMMA ApartStep ==
    Upload!TypeOK /\ StoredApart /\ [Upload!Next]_(Upload!vars) => StoredApart'
<1> SUFFICES ASSUME Upload!TypeOK, StoredApart, [Upload!Next]_(Upload!vars)
             PROVE  StoredApart'
  OBVIOUS
<1>0. /\ \A q \in Seq(Images), x \in Images : Elems(Append(q, x)) = Elems(q) \cup {x}
      /\ links \in Seq(Images) /\ upload \in Images \cup {None} /\ under \in BOOLEAN
      /\ Elems(<<>>) = {}
  BY ElemsAppend, ElemsIn, EmptySeq DEF Upload!TypeOK
<1>1. CASE Upload!CameraView
  <2>1. links' = link /\ upload' = None /\ UNCHANGED <<link, chosen, cleared, under>>
    BY <1>1 DEF Upload!CameraView
  <2>2. QED
    BY <2>1 DEF StoredApart
<1>2. CASE \/ \E l \in fetching : Upload!Retrieved(l)
           \/ \E i \in DOMAIN shown : Upload!RowSelected(i)
           \/ Upload!PickerOpened \/ Upload!PickerCancelled
           \/ Upload!RemoveTapped \/ Upload!RemoveCancelled
           \/ UNCHANGED Upload!vars
  <2>1. UNCHANGED <<open, link, links, upload, chosen, cleared, under>>
    BY <1>2 DEF Upload!Retrieved, Upload!RowSelected, Upload!PickerOpened,
                Upload!PickerCancelled, Upload!RemoveTapped, Upload!RemoveCancelled,
                Upload!vars, Upload!screen
  <2>2. QED
    BY <2>1 DEF StoredApart
<1>3. CASE \E x \in Images : Upload!ImagePicked(x)
  <2>1. PICK x \in Images : Upload!ImagePicked(x)
    BY <1>3
  <2>2. /\ open /\ x \notin chosen /\ chosen' = chosen \cup {x} /\ upload' \in {x, None}
        /\ UNCHANGED <<open, link, links, cleared, under>>
    BY <2>1 DEF Upload!ImagePicked
  <2>3. x \notin cleared
    BY <2>2 DEF StoredApart
  <2>4. QED
    BY <2>2, <2>3 DEF StoredApart
<1>4. CASE Upload!UploadStored
  <2>1. /\ open /\ upload # None /\ links' = Append(links, upload) /\ upload' = None
        /\ UNCHANGED <<open, link, chosen, cleared, under>>
    BY <1>4 DEF Upload!UploadStored
  <2>2. Elems(links') = Elems(links) \cup {upload}
    BY <1>0, <2>1
  <2>3. QED
    BY <2>1, <2>2 DEF StoredApart
<1>5. CASE Upload!UploadRefused
  <2>1. upload' = None /\ UNCHANGED <<open, link, links, chosen, cleared, under>>
    BY <1>5 DEF Upload!UploadRefused
  <2>2. QED
    BY <2>1 DEF StoredApart
<1>6. CASE Upload!RemoveConfirmed
  <2>1. link' = <<>> /\ UNCHANGED <<open, links, upload, chosen, cleared, under>>
    BY <1>6 DEF Upload!RemoveConfirmed
  <2>2. Elems(link') = {}
    BY <1>0, <2>1
  <2>3. QED
    BY <2>1, <2>2 DEF StoredApart
<1>7. CASE Upload!ChooseTapped
  <2>1. /\ open /\ ~open'
        /\ link' = link \/ link' = links
        /\ UNCHANGED <<links, upload, chosen, cleared, under>>
    BY <1>7 DEF Upload!ChooseTapped, Upload!screen
  <2>2. QED
    BY <2>1 DEF StoredApart
<1>8. CASE Upload!ScreenLeft
  <2>1. ~open' /\ UNCHANGED <<link, chosen, cleared, under>>
    BY <1>8 DEF Upload!ScreenLeft
  <2>2. QED
    BY <2>1 DEF StoredApart
<1>9. CASE Upload!WalkStored
  <2>1. /\ link' = <<>> /\ cleared' = cleared \cup Elems(link) /\ under' = (under \/ open)
        /\ UNCHANGED <<open, links, upload, chosen>>
    BY <1>9, ElemsNames DEF Upload!WalkStored, Upload!screen
  <2>2. Elems(link') = {}
    BY <1>0, <2>1
  <2>3. Elems(link') \cup cleared' \subseteq chosen'
    BY <2>1, <2>2 DEF StoredApart
  <2>4. QED
    BY <2>1, <2>2, <2>3 DEF StoredApart
<1>10. QED
  BY <1>1, <1>2, <1>3, <1>4, <1>5, <1>6, <1>7, <1>8, <1>9 DEF Upload!Next

UploadInv == Upload!TypeOK /\ RowIsThere /\ LinksKept /\ StoredApart

LEMMA UploadInvariance == Upload!Spec => []UploadInv
<1>1. Upload!Init => UploadInv
  <2> SUFFICES ASSUME Upload!Init PROVE UploadInv
    OBVIOUS
  <2>1. <<>> \in Seq(Images) /\ Len(<<>>) = 0 /\ Elems(<<>>) = {} /\ Upload!Range(<<>>) = {}
    BY EmptySeq, ElemsIn, ElemsNames
  <2>2. Upload!TypeOK
    BY <2>1 DEF Upload!Init, Upload!TypeOK
  <2>3. RowIsThere
    <3>1. selected = 0 /\ Len(shown) = 0 /\ modal = "none"
      BY <2>1 DEF Upload!Init
    <3>2. QED
      BY <3>1 DEF RowIsThere, Upload!SelectionIsAnImage
  <2>4. LinksKept /\ StoredApart
    BY <2>1 DEF Upload!Init, LinksKept, StoredApart
  <2>5. QED
    BY <2>2, <2>3, <2>4 DEF UploadInv
<1>2. UploadInv /\ [Upload!Next]_(Upload!vars) => UploadInv'
  BY UploadTypeStep, RowStep, LinksStep, ApartStep DEF UploadInv
<1>3. QED
  BY <1>1, <1>2, PTL DEF Upload!Spec

\* Whenever Choose can be tapped it writes the links of all images shown.
THEOREM ShownAreChosen == Upload!Spec => []ShownIsChosen
<1>1. UploadInv => ShownIsChosen
  BY ElemsNames DEF UploadInv, LinksKept, ShownIsChosen, Upload!ShownIsChosen
<1>2. QED
  BY <1>1, UploadInvariance, PTL

\* The row a confirmed removal takes out is there.
THEOREM RemovesAnImage == Upload!Spec => []SelectionIsAnImage
<1>1. UploadInv => SelectionIsAnImage
  BY DEF UploadInv, RowIsThere, SelectionIsAnImage
<1>2. QED
  BY <1>1, UploadInvariance, PTL

\* Images of a stored walk are in a later draft only if it was stored under the screen.
THEOREM SavedImagesAway == Upload!Spec => []SavedImagesStayAway
<1>1. UploadInv => SavedImagesStayAway
  BY ElemsNames DEF UploadInv, StoredApart, SavedImagesStayAway, Upload!SavedImagesStayAway
<1>2. QED
  BY <1>1, UploadInvariance, PTL

-----------------------------------------------------------------------------
(* The papers of a dog *)

\* A screen that handles an answer, a picked image or Save, and no other, changes.
Changes(i, s) ==
    /\ DOMAIN pile' = DOMAIN pile
    /\ \A j \in DOMAIN pile : pile'[j] = IF j = i THEN s ELSE pile[j]

LEMMA Changed ==
    ASSUME Papers!TypeOK, NEW i \in DOMAIN pile, NEW s \in Papers!Screen,
           pile' = [pile EXCEPT ![i] = s]
    PROVE  /\ pile' \in Seq(Papers!Screen) /\ Len(pile') = Len(pile) /\ Changes(i, s)
           /\ (pile' = <<>>) = (pile = <<>>)
<1>1. pile \in Seq(Papers!Screen) /\ i \in 1..Len(pile) /\ DOMAIN pile = 1..Len(pile)
  BY LenProperties DEF Papers!TypeOK
<1>2. pile' \in Seq(Papers!Screen) /\ Len(pile') = Len(pile)
  BY <1>1, ExceptSeq
<1>3. DOMAIN pile' = DOMAIN pile
  OBVIOUS
<1>4. \A j \in DOMAIN pile : pile'[j] = IF j = i THEN s ELSE pile[j]
  OBVIOUS
<1>5. (pile' = <<>>) = (pile = <<>>)
  BY <1>1, <1>2, EmptySeq
<1>6. QED
  BY <1>2, <1>3, <1>4, <1>5 DEF Changes

LEMMA PapersTop ==
    ASSUME Papers!TypeOK
    PROVE  /\ Len(pile) \in Nat /\ DOMAIN pile = 1..Len(pile) /\ Papers!Top = Len(pile)
           /\ pile # <<>> => Papers!Top \in DOMAIN pile /\ Len(pile) \in Nat \ {0}
           /\ \A i \in DOMAIN pile : pile[i] \in Papers!Screen
           /\ <<>> \in Seq(Images) /\ <<>> \in Seq(Papers!Screen) /\ Len(<<>>) = 0
<1>1. pile \in Seq(Papers!Screen)
  BY DEF Papers!TypeOK
<1>2. Len(pile) \in Nat /\ DOMAIN pile = 1..Len(pile)
  BY <1>1, LenProperties
<1>3. pile # <<>> => Len(pile) \in Nat \ {0}
  BY <1>1, EmptySeq
<1>4. \A i \in DOMAIN pile : pile[i] \in Papers!Screen
  BY <1>1, <1>2, ElementOfSeq
<1>5. Papers!Top = Len(pile)
  BY DEF Papers!Top
<1>6. <<>> \in Seq(Images) /\ <<>> \in Seq(Papers!Screen) /\ Len(<<>>) = 0
  BY EmptySeq
<1>7. QED
  BY <1>2, <1>3, <1>4, <1>5, <1>6

\* What the handlers and the user do to one screen.
Delivered(s, l)  == [s EXCEPT !.fetching = @ \ {l}, !.shown = Append(@, l)]
Undelivered(s, l) == [s EXCEPT !.fetching = @ \ {l}]
StoredOn(s, x)   == [s EXCEPT !.uploads = @ \ {x}, !.links = Append(@, x)]
RefusedOn(s, x)  == [s EXCEPT !.uploads = @ \ {x}, !.failed = @ \cup {x}]
SavedOn(s)       == [s EXCEPT !.covered = TRUE]
PickedOn(s, x, png) == [s EXCEPT !.shown = Append(@, x),
                                 !.uploads = IF png THEN @ \cup {x} ELSE @,
                                 !.failed = IF png THEN @ ELSE @ \cup {x}]

\* An image on a screen is one of its links, or its upload is unanswered or failed.
PaperOK(s) ==
    /\ Elems(s.shown) \subseteq Elems(s.links) \cup s.uploads \cup s.failed
    /\ s.fetching \subseteq Elems(s.links)

\* No change to a screen forgets a link or the Save that was tapped on it.
Grows(s, t) == Elems(s.links) \subseteq Elems(t.links) /\ (s.covered => t.covered)

LEMMA PaperChanges ==
    ASSUME NEW s \in Papers!Screen, NEW x \in Images, NEW png \in BOOLEAN
    PROVE  \A t \in {Undelivered(s, x), Delivered(s, x), StoredOn(s, x), RefusedOn(s, x),
                     SavedOn(s), PickedOn(s, x, png)} :
              t \in Papers!Screen /\ Grows(s, t)
<1>0. /\ s.links \in Seq(Images) /\ s.shown \in Seq(Images)
      /\ Append(s.links, x) \in Seq(Images) /\ Append(s.shown, x) \in Seq(Images)
      /\ Elems(Append(s.links, x)) = Elems(s.links) \cup {x}
  BY ElemsAppend DEF Papers!Screen
<1>1. Undelivered(s, x) \in Papers!Screen /\ Grows(s, Undelivered(s, x))
  BY DEF Undelivered, Papers!Screen, Grows
<1>2. Delivered(s, x) \in Papers!Screen /\ Grows(s, Delivered(s, x))
  BY <1>0 DEF Delivered, Papers!Screen, Grows
<1>3. StoredOn(s, x) \in Papers!Screen /\ Grows(s, StoredOn(s, x))
  BY <1>0 DEF StoredOn, Papers!Screen, Grows
<1>4. RefusedOn(s, x) \in Papers!Screen /\ Grows(s, RefusedOn(s, x))
  BY DEF RefusedOn, Papers!Screen, Grows
<1>5. SavedOn(s) \in Papers!Screen /\ Grows(s, SavedOn(s))
  BY DEF SavedOn, Papers!Screen, Grows
<1>6. PickedOn(s, x, png) \in Papers!Screen /\ Grows(s, PickedOn(s, x, png))
  BY <1>0 DEF PickedOn, Papers!Screen, Grows
<1>7. QED
  BY <1>1, <1>2, <1>3, <1>4, <1>5, <1>6

LEMMA PaperStaysOK ==
    ASSUME NEW s \in Papers!Screen, NEW x \in Images, NEW png \in BOOLEAN, PaperOK(s)
    PROVE  /\ PaperOK(Undelivered(s, x)) /\ PaperOK(RefusedOn(s, x))
           /\ x \in s.fetching => PaperOK(Delivered(s, x))
           /\ x \in s.uploads => PaperOK(StoredOn(s, x))
           /\ PaperOK(SavedOn(s)) /\ PaperOK(PickedOn(s, x, png))
<1>0. /\ Elems(Append(s.links, x)) = Elems(s.links) \cup {x}
      /\ Elems(Append(s.shown, x)) = Elems(s.shown) \cup {x}
  BY ElemsAppend DEF Papers!Screen
<1>1. PaperOK(Undelivered(s, x)) /\ PaperOK(RefusedOn(s, x)) /\ PaperOK(SavedOn(s))
  BY DEF PaperOK, Undelivered, RefusedOn, SavedOn, Papers!Screen
<1>2. x \in s.fetching => PaperOK(Delivered(s, x))
  <2>1. /\ Delivered(s, x).shown = Append(s.shown, x) /\ Delivered(s, x).links = s.links
        /\ Delivered(s, x).fetching = s.fetching \ {x}
        /\ Delivered(s, x).uploads = s.uploads /\ Delivered(s, x).failed = s.failed
    BY DEF Delivered, Papers!Screen
  <2>2. QED
    BY <1>0, <2>1 DEF PaperOK
<1>3. x \in s.uploads => PaperOK(StoredOn(s, x))
  <2>1. /\ StoredOn(s, x).shown = s.shown /\ StoredOn(s, x).links = Append(s.links, x)
        /\ StoredOn(s, x).fetching = s.fetching
        /\ StoredOn(s, x).uploads = s.uploads \ {x} /\ StoredOn(s, x).failed = s.failed
    BY DEF StoredOn, Papers!Screen
  <2>2. QED
    BY <1>0, <2>1 DEF PaperOK
<1>4. PaperOK(PickedOn(s, x, png))
  <2> DEFINE t == PickedOn(s, x, png)
  <2>1. /\ t.shown = Append(s.shown, x) /\ t.links = s.links /\ t.fetching = s.fetching
        /\ t.uploads \cup t.failed = s.uploads \cup s.failed \cup {x}
    BY DEF PickedOn, Papers!Screen
  <2> HIDE DEF t
  <2>2. PaperOK(t)
    BY <1>0, <2>1 DEF PaperOK
  <2>3. QED
    BY <2>2 DEF t
<1>5. QED
  BY <1>1, <1>2, <1>3, <1>4

LEMMA OneScreenChanges ==
    ASSUME Papers!TypeOK,
           \/ \E x \in Images : Papers!ImagePicked(x)
           \/ Papers!ChooseTapped
           \/ Papers!Handler
    PROVE  \E i \in DOMAIN pile, t \in Papers!Screen :
              /\ pile' = [pile EXCEPT ![i] = t]
              /\ Grows(pile[i], t)
              /\ PaperOK(pile[i]) => PaperOK(t)
              /\ Papers!ChooseTapped => i = Len(pile) /\ t.covered
              /\ ~Papers!ChooseTapped => UNCHANGED <<saved, menu>>
<1>0. /\ \A i \in DOMAIN pile : pile[i] \in Papers!Screen
      /\ \A i \in DOMAIN pile : pile[i].fetching \subseteq Images /\ pile[i].uploads \subseteq Images
      /\ pile # <<>> => Papers!Top \in DOMAIN pile /\ Papers!Top = Len(pile)
  BY PapersTop DEF Papers!Screen
<1>1. CASE Papers!ChooseTapped
  <2> DEFINE i == Len(pile)
             t == SavedOn(pile[i])
  <2>1. i \in DOMAIN pile
    BY <1>0, <1>1 DEF Papers!ChooseTapped, Papers!OnTop
  <2>2. t \in Papers!Screen /\ Grows(pile[i], t)
    BY <1>0, <2>1 DEF SavedOn, Papers!Screen, Grows
  <2>3. PaperOK(pile[i]) => PaperOK(t)
    BY <1>0, <2>1 DEF SavedOn, PaperOK, Papers!Screen
  <2>4. pile' = [pile EXCEPT ![i] = t]
    <3>1. Papers!Top = i
      BY DEF Papers!Top
    <3>2. pile' = [pile EXCEPT ![i].covered = TRUE]
      BY <1>1, <3>1, Zenon DEF Papers!ChooseTapped
    <3>3. QED
      BY <2>1, <3>2 DEF SavedOn
  <2>5. t.covered
    BY <1>0, <2>1 DEF SavedOn, Papers!Screen
  <2> HIDE DEF t
  <2>6. QED
    BY <1>1, <2>1, <2>2, <2>3, <2>4, <2>5
<1>2. CASE ~Papers!ChooseTapped /\ \E x \in Images : Papers!ImagePicked(x)
  <2>1. PICK x \in Images : Papers!ImagePicked(x)
    BY <1>2
  <2> DEFINE i == Len(pile)
  <2>2. i \in DOMAIN pile /\ i = Papers!Top /\ pile[i] \in Papers!Screen
    BY <1>0, <2>1 DEF Papers!ImagePicked, Papers!TypeOK
  <2>3. PICK png \in BOOLEAN :
           pile' = [pile EXCEPT ![i].shown = Append(@, x),
                                ![i].uploads = IF png THEN @ \cup {x} ELSE @,
                                ![i].failed = IF png THEN @ ELSE @ \cup {x}]
    BY <2>1, <2>2, Zenon DEF Papers!ImagePicked
  <2>4. pile' = [pile EXCEPT ![i] = PickedOn(pile[i], x, png)]
    BY <2>2, <2>3 DEF PickedOn
  <2>5. UNCHANGED <<saved, menu>>
    BY <2>1 DEF Papers!ImagePicked
  <2>6. PickedOn(pile[i], x, png) \in Papers!Screen /\ Grows(pile[i], PickedOn(pile[i], x, png))
    BY <2>2, PaperChanges
  <2>7. PaperOK(pile[i]) => PaperOK(PickedOn(pile[i], x, png))
    BY <2>2, PaperStaysOK
  <2>8. QED
    BY <1>2, <2>2, <2>4, <2>5, <2>6, <2>7
<1>3. CASE ~Papers!ChooseTapped /\ Papers!Handler
  <2>1. PICK i \in DOMAIN pile :
           \/ \E l \in pile[i].fetching : Papers!Retrieved(i, l)
           \/ \E x \in pile[i].uploads : Papers!UploadStored(i, x) \/ Papers!UploadRefused(i, x)
    BY <1>3 DEF Papers!Handler
  <2> DEFINE s == pile[i]
  <2>2. s \in Papers!Screen
    BY <1>0
  <2>3. CASE \E l \in s.fetching : Papers!Retrieved(i, l)
    <3>1. PICK l \in s.fetching : Papers!Retrieved(i, l)
      BY <2>3
    <3>2. l \in Images /\ TRUE \in BOOLEAN /\ UNCHANGED <<saved, menu>>
      BY <1>0, <3>1 DEF Papers!Retrieved
    <3>3. \/ pile' = [pile EXCEPT ![i].fetching = @ \ {l}, ![i].shown = Append(@, l)]
          \/ pile' = [pile EXCEPT ![i].fetching = @ \ {l}]
      BY <3>1 DEF Papers!Retrieved
    <3>4. \/ pile' = [pile EXCEPT ![i] = Delivered(s, l)]
          \/ pile' = [pile EXCEPT ![i] = Undelivered(s, l)]
      BY <3>3 DEF Delivered, Undelivered
    <3>5. /\ Delivered(s, l) \in Papers!Screen /\ Grows(s, Delivered(s, l))
          /\ Undelivered(s, l) \in Papers!Screen /\ Grows(s, Undelivered(s, l))
      BY <2>2, <3>2, PaperChanges
    <3>6. PaperOK(s) => PaperOK(Delivered(s, l)) /\ PaperOK(Undelivered(s, l))
      BY <2>2, <3>1, <3>2, PaperStaysOK
    <3>7. QED
      BY <1>3, <3>2, <3>4, <3>5, <3>6
  <2>4. CASE \E x \in s.uploads : Papers!UploadStored(i, x)
    <3>1. PICK x \in s.uploads : Papers!UploadStored(i, x)
      BY <2>4
    <3>2. x \in Images /\ TRUE \in BOOLEAN /\ UNCHANGED <<saved, menu>>
      BY <1>0, <3>1 DEF Papers!UploadStored
    <3>3. pile' = [pile EXCEPT ![i].uploads = @ \ {x}, ![i].links = Append(@, x)]
      BY <3>1 DEF Papers!UploadStored
    <3>4. pile' = [pile EXCEPT ![i] = StoredOn(s, x)]
      BY <3>3 DEF StoredOn
    <3>5. StoredOn(s, x) \in Papers!Screen /\ Grows(s, StoredOn(s, x))
      BY <2>2, <3>2, PaperChanges
    <3>6. PaperOK(s) => PaperOK(StoredOn(s, x))
      BY <2>2, <3>1, <3>2, PaperStaysOK
    <3>7. QED
      BY <1>3, <3>2, <3>4, <3>5, <3>6
  <2>5. CASE \E x \in s.uploads : Papers!UploadRefused(i, x)
    <3>1. PICK x \in s.uploads : Papers!UploadRefused(i, x)
      BY <2>5
    <3>2. x \in Images /\ TRUE \in BOOLEAN /\ UNCHANGED <<saved, menu>>
      BY <1>0, <3>1 DEF Papers!UploadRefused
    <3>3. pile' = [pile EXCEPT ![i].uploads = @ \ {x}, ![i].failed = @ \cup {x}]
      BY <3>1 DEF Papers!UploadRefused
    <3>4. pile' = [pile EXCEPT ![i] = RefusedOn(s, x)]
      BY <3>3 DEF RefusedOn
    <3>5. RefusedOn(s, x) \in Papers!Screen /\ Grows(s, RefusedOn(s, x))
      BY <2>2, <3>2, PaperChanges
    <3>6. PaperOK(s) => PaperOK(RefusedOn(s, x))
      BY <2>2, <3>2, PaperStaysOK
    <3>7. QED
      BY <1>3, <3>2, <3>4, <3>5, <3>6
  <2>6. QED
    BY <2>1, <2>3, <2>4, <2>5
<1>4. QED
  BY <1>1, <1>2, <1>3

\* What a sheet swiped down leaves.
LEMMA FrontOfPile ==
    ASSUME Papers!TypeOK, pile # <<>>, pile' = Papers!Front(pile)
    PROVE  /\ pile' \in Seq(Papers!Screen) /\ Len(pile') = Len(pile) - 1
           /\ DOMAIN pile' \subseteq DOMAIN pile
           /\ \A j \in DOMAIN pile' : pile'[j] = pile[j] /\ j # Len(pile)
<1>1. /\ Len(pile) \in Nat \ {0} /\ DOMAIN pile = 1..Len(pile)
      /\ \A i \in DOMAIN pile : pile[i] \in Papers!Screen
  BY PapersTop
<1>2. 1 \in Int /\ Len(pile) - 1 \in Int /\ \A j \in 1..(Len(pile) - 1) : j \in 1..Len(pile)
  BY <1>1
<1>3. \A j \in 1..(Len(pile) - 1) : pile[j] \in Papers!Screen
  BY <1>1, <1>2
<1>4. /\ SubSeq(pile, 1, Len(pile) - 1) \in Seq(Papers!Screen)
      /\ Len(SubSeq(pile, 1, Len(pile) - 1)) = IF 1 <= Len(pile) - 1 THEN (Len(pile) - 1) - 1 + 1 ELSE 0
      /\ \A i \in 1..((Len(pile) - 1) - 1 + 1) : SubSeq(pile, 1, Len(pile) - 1)[i] = pile[1 + i - 1]
  BY <1>2, <1>3, SubSeqProperties
<1>5. pile' = SubSeq(pile, 1, Len(pile) - 1)
  BY DEF Papers!Front
<1>6. \A n \in Nat \ {0} : /\ (IF 1 <= n - 1 THEN (n - 1) - 1 + 1 ELSE 0) = n - 1
                           /\ (n - 1) - 1 + 1 = n - 1
  OBVIOUS
<1>7. pile' \in Seq(Papers!Screen) /\ Len(pile') = Len(pile) - 1
  BY <1>1, <1>4, <1>5, <1>6, Zenon
<1>8. DOMAIN pile' = 1..(Len(pile) - 1)
  BY <1>7, LenProperties
<1>9. \A i \in 1..(Len(pile) - 1) : pile'[i] = pile[1 + i - 1]
  BY <1>1, <1>4, <1>5, <1>6, Zenon
<1>10. \A i \in 1..(Len(pile) - 1) : 1 + i - 1 = i /\ i # Len(pile)
  <2>1. \A n \in Nat \ {0} : \A i \in 1..(n - 1) : 1 + i - 1 = i /\ i # n
    OBVIOUS
  <2>2. QED
    BY <1>1, <2>1, Zenon
<1>11. QED
  BY <1>1, <1>2, <1>7, <1>8, <1>9, <1>10

LEMMA OpenedOK ==
    ASSUME Papers!TypeOK
    PROVE  /\ Papers!Opened \in Papers!Screen /\ PaperOK(Papers!Opened)
           /\ Papers!Opened.links = saved /\ ~Papers!Opened.covered
<1>1. saved \in Seq(Images) /\ Elems(saved) \subseteq Images /\ Elems(<<>>) = {}
  BY ElemsIn DEF Papers!TypeOK
<1>2. <<>> \in Seq(Images)
  BY EmptySeq
<1>3. Papers!ToSet(saved) = Elems(saved)
  BY ElemsNames
<1>4. Papers!Opened = [links |-> saved, shown |-> <<>>, fetching |-> Elems(saved),
                       uploads |-> {}, failed |-> {}, covered |-> FALSE]
  BY <1>3 DEF Papers!Opened
<1>5. Papers!Opened \in Papers!Screen
  BY <1>1, <1>2, <1>4 DEF Papers!Screen
<1>6. PaperOK(Papers!Opened)
  BY <1>1, <1>4 DEF PaperOK
<1>7. QED
  BY <1>4, <1>5, <1>6

\* A screen joins the pile.
LEMMA PileGrew ==
    ASSUME Papers!TypeOK, Papers!RowSelected
    PROVE  /\ pile' \in Seq(Papers!Screen) /\ Len(pile') = Len(pile) + 1 /\ Len(pile) \in Nat
           /\ DOMAIN pile' = 1..(Len(pile) + 1)
           /\ \A i \in DOMAIN pile : pile'[i] = pile[i]
           /\ pile'[Len(pile) + 1] = Papers!Opened
           /\ \A i \in DOMAIN pile' : i \in DOMAIN pile \/ i = Len(pile) + 1
<1>1. pile \in Seq(Papers!Screen) /\ Papers!Opened \in Papers!Screen
  BY OpenedOK DEF Papers!TypeOK
<1>2. pile' = Append(pile, Papers!Opened)
  BY DEF Papers!RowSelected
<1>3. Len(pile) \in Nat /\ DOMAIN pile = 1..Len(pile)
  BY PapersTop
<1>4. pile' \in Seq(Papers!Screen) /\ Len(pile') = Len(pile) + 1
  BY <1>1, <1>2, AppendProperties
<1>5. DOMAIN pile' = 1..(Len(pile) + 1)
  BY <1>4, LenProperties
<1>6. \A i \in 1..Len(pile) : pile'[i] = pile[i]
  BY <1>1, <1>2, AppendProperties
<1>7. pile'[Len(pile) + 1] = Papers!Opened
  BY <1>1, <1>2, AppendProperties
<1>8. \A i \in 1..(Len(pile) + 1) : i \in 1..Len(pile) \/ i = Len(pile) + 1
  BY <1>3
<1>9. QED
  BY <1>3, <1>4, <1>5, <1>6, <1>7, <1>8

LEMMA PapersTypeStep == Papers!TypeOK /\ [Papers!Next]_(Papers!vars) => Papers!TypeOK'
<1> SUFFICES ASSUME Papers!TypeOK, [Papers!Next]_(Papers!vars)
             PROVE  Papers!TypeOK'
  OBVIOUS
<1>0. /\ Len(pile) \in Nat /\ Len(pile) <= MaxScreens /\ MaxScreens \in Nat
      /\ Papers!Top = Len(pile)
      /\ saved \in Seq(Images)
      /\ \A i \in DOMAIN pile : pile[i] \in Papers!Screen
  BY PapersTop, ScreensBound DEF Papers!TypeOK
<1>1. CASE Papers!RowSelected
  <2>1. /\ pile' \in Seq(Papers!Screen) /\ Len(pile') = Len(pile) + 1 /\ DOMAIN pile' # {}
    <3>1. Len(pile) + 1 \in 1..(Len(pile) + 1)
      BY <1>0
    <3>2. QED
      BY <1>1, <3>1, PileGrew
  <2>2. Len(pile') <= MaxScreens /\ pile' # <<>>
    BY <1>0, <1>1, <2>1 DEF Papers!RowSelected
  <2>3. QED
    BY <1>1, <2>1, <2>2 DEF Papers!RowSelected, Papers!TypeOK
<1>2. CASE Papers!PickerOpened \/ Papers!PickerCancelled
  <2>1. /\ UNCHANGED <<saved, pile, menu, picked>>
        /\ \/ picker' = TRUE /\ ~menu
           \/ picker' = FALSE
    BY <1>2, Zenon DEF Papers!PickerOpened, Papers!PickerCancelled, Papers!OnTop
  <2>2. picker' \in BOOLEAN /\ (picker' => ~menu')
    BY <2>1
  <2>3. QED
    BY <2>1, <2>2 DEF Papers!TypeOK
<1>3. CASE \/ \E x \in Images : Papers!ImagePicked(x)
           \/ Papers!ChooseTapped
           \/ Papers!Handler
  <2>1. PICK i \in DOMAIN pile, t \in Papers!Screen : pile' = [pile EXCEPT ![i] = t]
    BY <1>3, OneScreenChanges
  <2>2. /\ pile' \in Seq(Papers!Screen) /\ Len(pile') = Len(pile)
        /\ (pile' = <<>>) = (pile = <<>>)
    BY <2>1, Changed
  <2>3. CASE \E x \in Images : Papers!ImagePicked(x)
    <3>1. PICK x \in Images : Papers!ImagePicked(x)
      BY <2>3
    <3>2. picked' \subseteq Images /\ picker' = FALSE /\ UNCHANGED <<saved, menu>>
      BY <3>1 DEF Papers!ImagePicked, Papers!TypeOK
    <3>3. QED
      BY <2>2, <3>2 DEF Papers!TypeOK
  <2>4. CASE Papers!ChooseTapped
    <3>1. saved' \in Seq(Images)
      <4>1. Papers!Top \in DOMAIN pile
        BY <2>4, PapersTop DEF Papers!ChooseTapped, Papers!OnTop
      <4>2. pile[Papers!Top].links \in Seq(Images)
        BY <1>0, <4>1 DEF Papers!Screen
      <4>3. QED
        BY <1>0, <2>4, <4>2 DEF Papers!ChooseTapped
    <3>2. menu' = TRUE /\ picker' = FALSE /\ picked' = picked
      BY <2>4 DEF Papers!ChooseTapped, Papers!OnTop, Papers!TypeOK
    <3>3. QED
      BY <2>2, <3>1, <3>2 DEF Papers!TypeOK
  <2>5. CASE Papers!Handler
    <3>1. UNCHANGED <<saved, menu, picker, picked>>
      BY <2>5, Zenon DEF Papers!Handler, Papers!Retrieved, Papers!UploadStored, Papers!UploadRefused
    <3>2. QED
      BY <2>2, <3>1 DEF Papers!TypeOK
  <2>6. QED
    BY <1>3, <2>3, <2>4, <2>5
<1>4. CASE Papers!SheetClosed
  <2>1. pile # <<>> /\ menu' = ~menu /\ ~picker /\ UNCHANGED <<saved, picker, picked>>
    BY <1>4 DEF Papers!SheetClosed
  <2>2. CASE menu
    <3>1. pile' = pile
      BY <1>4, <2>2 DEF Papers!SheetClosed
    <3>2. QED
      BY <2>1, <2>2, <3>1 DEF Papers!TypeOK
  <2>3. CASE ~menu
    <3>1. pile' = Papers!Front(pile)
      BY <1>4, <2>3 DEF Papers!SheetClosed
    <3>2. pile' \in Seq(Papers!Screen) /\ Len(pile') = Len(pile) - 1
      BY <2>1, <3>1, FrontOfPile
    <3>3. Len(pile') <= MaxScreens
      BY <1>0, <3>2
    <3>4. menu' = TRUE
      BY <2>1, <2>3
    <3>5. QED
      BY <2>1, <3>2, <3>3, <3>4 DEF Papers!TypeOK
  <2>4. QED
    BY <2>2, <2>3
<1>5. CASE Papers!LoggedOut
  BY <1>5, PapersTop DEF Papers!LoggedOut, Papers!TypeOK
<1>6. CASE Papers!Relaunch
  <2>1. pile' = <<>> /\ Len(<<>>) <= MaxScreens /\ <<>> \in Seq(Papers!Screen)
    BY <1>0, <1>6, PapersTop DEF Papers!Relaunch
  <2>2. QED
    BY <1>6, <2>1 DEF Papers!Relaunch, Papers!TypeOK
<1>7. CASE UNCHANGED Papers!vars
  BY <1>7 DEF Papers!vars, Papers!TypeOK
<1>8. QED
  BY <1>1, <1>2, <1>3, <1>4, <1>5, <1>6, <1>7 DEF Papers!Next, Papers!User

PapersOK == \A i \in DOMAIN pile : PaperOK(pile[i])

LEMMA PapersStep ==
    Papers!TypeOK /\ PapersOK /\ [Papers!Next]_(Papers!vars) => PapersOK'
<1> SUFFICES ASSUME Papers!TypeOK, PapersOK, [Papers!Next]_(Papers!vars)
             PROVE  PapersOK'
  OBVIOUS
<1>1. CASE Papers!RowSelected
  <2>1. PaperOK(Papers!Opened)
    BY OpenedOK
  <2>2. QED
    BY <1>1, <2>1, PileGrew DEF PapersOK
<1>2. CASE \/ \E x \in Images : Papers!ImagePicked(x)
           \/ Papers!ChooseTapped
           \/ Papers!Handler
  <2>1. PICK i \in DOMAIN pile, t \in Papers!Screen :
           /\ pile' = [pile EXCEPT ![i] = t]
           /\ PaperOK(pile[i]) => PaperOK(t)
    BY <1>2, OneScreenChanges
  <2>2. Changes(i, t)
    BY <2>1, Changed
  <2>3. QED
    BY <2>1, <2>2 DEF PapersOK, Changes
<1>3. CASE Papers!SheetClosed
  <2>1. CASE menu
    BY <1>3, <2>1 DEF Papers!SheetClosed, PapersOK
  <2>2. CASE ~menu
    <3>1. pile # <<>> /\ pile' = Papers!Front(pile)
      BY <1>3, <2>2 DEF Papers!SheetClosed
    <3>2. DOMAIN pile' \subseteq DOMAIN pile /\ \A j \in DOMAIN pile' : pile'[j] = pile[j]
      BY <3>1, FrontOfPile
    <3>3. QED
      BY <3>2 DEF PapersOK
  <2>3. QED
    BY <2>1, <2>2
<1>4. CASE Papers!Relaunch
  BY <1>4 DEF Papers!Relaunch, PapersOK
<1>5. CASE \/ Papers!PickerOpened \/ Papers!PickerCancelled \/ Papers!LoggedOut
           \/ UNCHANGED Papers!vars
  <2>1. pile' = pile
    BY <1>5, Zenon DEF Papers!PickerOpened, Papers!PickerCancelled, Papers!LoggedOut, Papers!vars
  <2>2. QED
    BY <2>1 DEF PapersOK
<1>6. QED
  BY <1>1, <1>2, <1>3, <1>4, <1>5 DEF Papers!Next, Papers!User

\* A screen on which Save was not tapped is on top, and its Save would lose nothing:
\* the key was read when it opened and no screen has been over it since.
NothingBehind ==
    \A i \in DOMAIN pile : ~pile[i].covered =>
       /\ i = Len(pile) /\ ~menu
       /\ Elems(saved) \subseteq Elems(pile[i].links)

LEMMA BehindStep ==
    Papers!TypeOK /\ NothingBehind /\ [Papers!Next]_(Papers!vars) => NothingBehind'
<1> SUFFICES ASSUME Papers!TypeOK, NothingBehind, [Papers!Next]_(Papers!vars)
             PROVE  NothingBehind'
  OBVIOUS
<1>1. CASE Papers!RowSelected
  <2>1. /\ Len(pile') = Len(pile) + 1 /\ menu /\ ~menu' /\ saved' = saved
        /\ \A i \in DOMAIN pile : pile'[i] = pile[i]
        /\ pile'[Len(pile) + 1] = Papers!Opened
        /\ \A i \in DOMAIN pile' : i \in DOMAIN pile \/ i = Len(pile) + 1
    BY <1>1, PileGrew DEF Papers!RowSelected
  <2>2. Papers!Opened.links = saved
    BY OpenedOK
  <2>3. \A i \in DOMAIN pile : pile'[i].covered
    BY <2>1 DEF NothingBehind
  <2>4. QED
    BY <2>1, <2>2, <2>3 DEF NothingBehind
<1>2. CASE \/ \E x \in Images : Papers!ImagePicked(x)
           \/ Papers!ChooseTapped
           \/ Papers!Handler
  <2>1. PICK i \in DOMAIN pile, t \in Papers!Screen :
           /\ pile' = [pile EXCEPT ![i] = t]
           /\ Grows(pile[i], t)
           /\ Papers!ChooseTapped => i = Len(pile) /\ t.covered
           /\ ~Papers!ChooseTapped => UNCHANGED <<saved, menu>>
    BY <1>2, OneScreenChanges
  <2>2. Changes(i, t) /\ Len(pile') = Len(pile)
    BY <2>1, Changed
  <2>3. CASE Papers!ChooseTapped
    <3>1. \A j \in DOMAIN pile : pile'[j].covered
      BY <2>1, <2>2, <2>3 DEF Changes, NothingBehind
    <3>2. QED
      BY <2>2, <3>1 DEF Changes, NothingBehind
  <2>4. CASE ~Papers!ChooseTapped
    <3>1. saved' = saved /\ menu' = menu
      BY <2>1, <2>4
    <3>2. \A j \in DOMAIN pile : Grows(pile[j], pile'[j])
      BY <2>1, <2>2 DEF Changes, Grows
    <3>3. QED
      BY <2>2, <3>1, <3>2 DEF Changes, Grows, NothingBehind
  <2>5. QED
    BY <2>3, <2>4
<1>3. CASE Papers!SheetClosed
  <2>1. saved' = saved
    BY <1>3 DEF Papers!SheetClosed
  <2>2. CASE menu
    <3>1. pile' = pile
      BY <1>3, <2>2 DEF Papers!SheetClosed
    <3>2. QED
      BY <2>2, <3>1 DEF NothingBehind
  <2>3. CASE ~menu
    <3>1. pile # <<>> /\ pile' = Papers!Front(pile)
      BY <1>3, <2>3 DEF Papers!SheetClosed
    <3>2. /\ DOMAIN pile' \subseteq DOMAIN pile
          /\ \A j \in DOMAIN pile' : pile'[j] = pile[j] /\ j # Len(pile)
      BY <3>1, FrontOfPile
    <3>3. QED
      BY <3>2 DEF NothingBehind
  <2>4. QED
    BY <2>2, <2>3
<1>4. CASE Papers!Relaunch \/ Papers!LoggedOut
  <2>1. pile' = <<>>
    BY <1>4 DEF Papers!Relaunch, Papers!LoggedOut
  <2>2. QED
    BY <2>1 DEF NothingBehind
<1>5. CASE Papers!PickerOpened \/ Papers!PickerCancelled \/ UNCHANGED Papers!vars
  <2>1. UNCHANGED <<saved, pile, menu>>
    BY <1>5, Zenon DEF Papers!PickerOpened, Papers!PickerCancelled, Papers!vars
  <2>2. QED
    BY <2>1 DEF NothingBehind
<1>6. QED
  BY <1>1, <1>2, <1>3, <1>4, <1>5 DEF Papers!Next, Papers!User

PapersInv == Papers!TypeOK /\ PapersOK /\ NothingBehind

LEMMA PapersInvariance == Papers!Spec => []PapersInv
<1>1. Papers!Init => PapersInv
  <2> SUFFICES ASSUME Papers!Init PROVE PapersInv
    OBVIOUS
  <2>1. <<>> \in Seq(Images) /\ <<>> \in Seq(Papers!Screen) /\ Len(<<>>) = 0
    BY EmptySeq
  <2>2. Papers!TypeOK
    <3>1. /\ saved = <<>> /\ pile = <<>> /\ picked = {}
          /\ menu \in BOOLEAN /\ picker \in BOOLEAN /\ menu /\ ~picker
      BY DEF Papers!Init
    <3>2. Len(pile) <= MaxScreens
      <4>1. 0 <= MaxScreens
        BY ScreensBound
      <4>2. QED
        BY <2>1, <3>1, <4>1
    <3>3. QED
      BY <2>1, <3>1, <3>2 DEF Papers!TypeOK
  <2>3. QED
    BY <2>2 DEF Papers!Init, PapersInv, PapersOK, NothingBehind
<1>2. QED
  BY <1>1, PapersTypeStep, PapersStep, BehindStep, PTL DEF Papers!Spec, PapersInv

\* Every image on a screen is one of its links, or its upload is unanswered or failed.
THEOREM ShownAreKnown == Papers!Spec => []ShownIsKnown
<1>1. PapersInv => ShownIsKnown
  BY ElemsNames DEF PapersInv, PapersOK, PaperOK, ShownIsKnown, Papers!ShownIsKnown
<1>2. QED
  BY <1>1, PapersInvariance, PTL

\* An image leaves the key by a logout, or by Save on a screen the user came back to.
THEOREM LossIsReturn == Papers!Spec => LossNeedsReturn
<1>1. PapersInv /\ [Papers!Next]_(Papers!vars) =>
         [~(Papers!ToSet(saved) \subseteq Papers!ToSet(saved'))
             => saved' = <<>> \/ pile[Papers!Top].covered]_(Papers!vars)
  <2> SUFFICES ASSUME PapersInv, Papers!Next, ~(Elems(saved) \subseteq Elems(saved'))
               PROVE  saved' = <<>> \/ pile[Papers!Top].covered
    BY ElemsNames
  <2>1. saved' # saved
    OBVIOUS
  <2>2. Papers!ChooseTapped \/ Papers!LoggedOut
    BY <2>1, Zenon DEF Papers!Next, Papers!User, Papers!Handler, Papers!RowSelected, Papers!PickerOpened,
           Papers!PickerCancelled, Papers!ImagePicked, Papers!SheetClosed, Papers!Relaunch,
           Papers!Retrieved, Papers!UploadStored, Papers!UploadRefused
  <2>3. CASE Papers!ChooseTapped
    <3>1. Papers!Top \in DOMAIN pile
      BY <2>3, PapersTop DEF PapersInv, Papers!ChooseTapped, Papers!OnTop
    <3>2. saved' = pile[Papers!Top].links
      BY <2>1, <2>3 DEF Papers!ChooseTapped
    <3>3. ~pile[Papers!Top].covered => Elems(saved) \subseteq Elems(saved')
      BY <3>1, <3>2 DEF PapersInv, NothingBehind
    <3>4. QED
      BY <3>3
  <2>4. CASE Papers!LoggedOut
    BY <2>4 DEF Papers!LoggedOut
  <2>5. QED
    BY <2>2, <2>3, <2>4
<1>2. QED
  BY <1>1, PapersInvariance, PTL DEF Papers!Spec, LossNeedsReturn, Papers!LossNeedsReturn
=============================================================================
