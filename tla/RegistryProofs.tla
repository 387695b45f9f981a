--------------------------- MODULE RegistryProofs ---------------------------
(***************************************************************************)
(* Proofs about Registry for any rows, limits and bounds: its types, that  *)
(* an editing replaces the document it began with, the lock of the editor  *)
(* of a dog, and that no text gets into the document of another.           *)
(***************************************************************************)
EXTENDS Registry, SequenceTheorems, FiniteSetTheorems, WellFoundedInduction, TLAPS

Screen == List \cup Editor \cup Picker \cup Ad

\* Id and edit mode travel together: a screen of an editing that began with a row has its
\* id and is in edit mode, one that began with + has no id.
HandedOn(s) ==
    s.type \in {"editor", "dob", "timer"} => s.doc = s.row /\ (s.row # 0 => s.edit)
GoodScreen == {s \in Screen : HandedOn(s)}

Aimed(w) == (w.op = "set" => w.id = w.row) /\ (w.op = "add" => w.row = 0)
GoodWrite == {w \in Write : Aimed(w)}

\* The type invariant, of screens and writes that are as they should be.
EditInv ==
    /\ docs \in [Ids -> Doc \cup {Gone}]
    /\ writes \in Seq(GoodWrite) /\ Len(writes) <= MaxWrites
    /\ stack \in Seq(GoodScreen)
    /\ draft \in Text /\ sticky \in BOOLEAN
    /\ kind \in Kinds /\ premium \in BOOLEAN
    /\ made \in Nat /\ new \in 0..MaxNew
    /\ ended \in Reasons /\ (ended = "runs" <=> stack # <<>>)
    /\ strayed \in BOOLEAN

-----------------------------------------------------------------------------
(* Numbers and constants *)

LEMMA Numbers ==
    /\ Rows \in Nat /\ MaxNew \in Nat /\ MaxWrites \in Nat /\ MaxScreens \in Nat
    /\ \A i \in Ids : i \in Nat /\ i # 0
    /\ \A i \in Subjects : i \in Nat /\ i # 0
  BY RegistryBounds DEF Ids, Subjects

LEMMA BlankText == Blank \in Text
  BY DEF Blank, Text

\* The greatest of some indices is one of them.
LEMMA MaxIn ==
    ASSUME NEW n \in Nat, NEW S \in SUBSET (1..n), S # {}
    PROVE  Max(S) \in S
<1> DEFINE R == OpToRel(<, Nat)
           T == {n - k : k \in S}
<1>1. \A y, x \in Nat : <<y, x>> \in R <=> y < x
  BY DEF OpToRel
<1>2. IsWellFoundedOn(R, Nat)
  BY NatLessThanWellFounded
<1> HIDE DEF R
<1>3. \A k \in S : n - k \in Nat /\ k \in Nat
  OBVIOUS
<1>4. T \subseteq Nat /\ T # {}
  BY <1>3, Zenon
<1>5. PICK x \in T : \A y \in T : ~ (<<y, x>> \in R)
  BY <1>2, <1>4, WFMin
<1>6. PICK m \in S : x = n - m
  OBVIOUS
<1>7. ASSUME NEW k \in S PROVE m >= k
  <2>1. n - k \in T
    OBVIOUS
  <2>2. ~(n - k < n - m)
    BY <1>1, <1>3, <1>5, <1>6, <2>1, Zenon
  <2> QED
    BY <1>3, <2>2, SMT
<1> QED
  BY <1>7 DEF Max

-----------------------------------------------------------------------------
(* The screens *)

LEMMA ScreenKinds ==
    ASSUME NEW s \in GoodScreen
    PROVE  /\ s.type = "list" => s \in List
           /\ s.type = "editor" =>
                s \in Editor /\ s.doc = s.row /\ (s.row # 0 => s.edit)
           /\ s.type \in {"dob", "timer"} =>
                s \in Picker /\ s.doc = s.row /\ (s.row # 0 => s.edit)
  BY DEF GoodScreen, Screen, HandedOn, List, Editor, Picker, Ad

LEMMA GoodList == ASSUME NEW s \in List PROVE s \in GoodScreen
  BY DEF GoodScreen, Screen, HandedOn, List
LEMMA GoodAd == [type |-> "ad"] \in GoodScreen
  BY DEF GoodScreen, Screen, HandedOn, Ad
LEMMA GoodEditor ==
    ASSUME NEW s \in Editor, s.doc = s.row, s.row # 0 => s.edit
    PROVE  s \in GoodScreen
  BY DEF GoodScreen, Screen, HandedOn
LEMMA GoodPicker ==
    ASSUME NEW s \in Picker, s.doc = s.row, s.row # 0 => s.edit
    PROVE  s \in GoodScreen
  BY DEF GoodScreen, Screen, HandedOn

LEMMA StackIndices ==
    ASSUME EditInv
    PROVE  /\ Len(stack) \in Nat /\ DOMAIN stack = 1..Len(stack)
           /\ \A i \in DOMAIN stack : stack[i] \in GoodScreen
           /\ stack # <<>> => Len(stack) \in DOMAIN stack /\ Top \in GoodScreen
<1>1. stack \in Seq(GoodScreen)
  BY DEF EditInv
<1>2. Len(stack) \in Nat /\ DOMAIN stack = 1..Len(stack)
  BY <1>1, LenProperties
<1>3. \A i \in DOMAIN stack : stack[i] \in GoodScreen
  BY <1>1, <1>2, ElementOfSeq
<1>4. stack # <<>> => Len(stack) \in DOMAIN stack
  BY <1>1, <1>2, EmptySeq
<1> QED
  BY <1>2, <1>3, <1>4 DEF Top

\* One more screen, one screen less, one screen changed.
LEMMA Pushed ==
    ASSUME EditInv, NEW s \in GoodScreen, stack' = Append(stack, s)
    PROVE  /\ stack' \in Seq(GoodScreen) /\ stack' # <<>>
           /\ DOMAIN stack' = DOMAIN stack \cup {Len(stack) + 1}
           /\ \A i \in DOMAIN stack : stack'[i] = stack[i]
           /\ stack'[Len(stack) + 1] = s
<1>1. stack \in Seq(GoodScreen)
  BY DEF EditInv
<1>2. /\ stack' \in Seq(GoodScreen) /\ Len(stack') = Len(stack) + 1
      /\ \A i \in 1..Len(stack) : stack'[i] = stack[i]
      /\ stack'[Len(stack) + 1] = s
  BY <1>1, AppendProperties
<1>3. DOMAIN stack = 1..Len(stack) /\ DOMAIN stack' = 1..Len(stack') /\ Len(stack) \in Nat
  BY <1>1, <1>2, LenProperties
<1>4. stack' # <<>>
  BY <1>2, <1>3, EmptySeq
<1> QED
  BY <1>2, <1>3, <1>4

LEMMA Popped ==
    ASSUME EditInv, stack # <<>>
    PROVE  /\ Front(stack) \in Seq(GoodScreen)
           /\ Len(Front(stack)) = Len(stack) - 1
           /\ DOMAIN Front(stack) \subseteq DOMAIN stack
           /\ \A i \in DOMAIN Front(stack) : Front(stack)[i] = stack[i]
<1>1. /\ stack \in Seq(GoodScreen) /\ DOMAIN stack = 1..Len(stack)
      /\ Len(stack) \in Nat \ {0}
  BY StackIndices, EmptySeq DEF EditInv
<1> DEFINE n == Len(stack) - 1
<1>2. n \in Nat /\ \A i \in 1..n : stack[i] \in GoodScreen
  BY <1>1, ElementOfSeq
<1>3. /\ SubSeq(stack, 1, n) \in Seq(GoodScreen)
      /\ Len(SubSeq(stack, 1, n)) = IF 1 <= n THEN n - 1 + 1 ELSE 0
      /\ \A i \in 1..(n - 1 + 1) : SubSeq(stack, 1, n)[i] = stack[1 + i - 1]
  BY <1>2, SubSeqProperties
<1>4. Len(Front(stack)) = n /\ Front(stack) = SubSeq(stack, 1, n)
  <2>1. Front(stack) = SubSeq(stack, 1, n)
    BY DEF Front
  <2> HIDE DEF n
  <2>2. Len(SubSeq(stack, 1, n)) = n
    BY <1>2, <1>3, SMT
  <2> QED
    BY <2>1, <2>2, Zenon
<1>5. DOMAIN Front(stack) = 1..n
  BY <1>3, <1>4, LenProperties
<1> QED
  BY <1>1, <1>2, <1>3, <1>4, <1>5

LEMMA Changed ==
    ASSUME EditInv, NEW i \in DOMAIN stack, NEW s \in GoodScreen,
           stack' = [stack EXCEPT ![i] = s]
    PROVE  /\ stack' \in Seq(GoodScreen) /\ stack' # <<>> /\ stack # <<>>
           /\ DOMAIN stack' = DOMAIN stack /\ Len(stack') = Len(stack)
           /\ \A j \in DOMAIN stack : stack'[j] = IF j = i THEN s ELSE stack[j]
<1>1. stack \in Seq(GoodScreen) /\ DOMAIN stack = 1..Len(stack) /\ Len(stack) \in Nat
  BY StackIndices DEF EditInv
<1>2. /\ stack' \in Seq(GoodScreen) /\ Len(stack') = Len(stack)
      /\ \A j \in 1..Len(stack) : stack'[j] = IF j = i THEN s ELSE stack[j]
  BY <1>1, ExceptSeq
<1>3. DOMAIN stack' = 1..Len(stack')
  BY <1>2, LenProperties
<1>4. Len(stack) # 0
  BY <1>1
<1>5. stack # <<>> /\ stack' # <<>>
  BY <1>2, <1>4, EmptySeq
<1> QED
  BY <1>1, <1>2, <1>3, <1>5

LEMMA NewListGood ==
    ASSUME NEW no \in Nat
    PROVE  NewList(no) \in List /\ NewList(no) \in GoodScreen
<1>1. NewList(no) \in List
  BY DEF NewList, List
<1> QED
  BY <1>1, GoodList

-----------------------------------------------------------------------------
(* The writes and what queries see *)

LEMMA WriteIndices ==
    ASSUME EditInv
    PROVE  /\ Len(writes) \in Nat /\ DOMAIN writes = 1..Len(writes)
           /\ \A i \in DOMAIN writes : writes[i] \in GoodWrite /\ writes[i] \in Write
                                      /\ Aimed(writes[i])
<1>1. writes \in Seq(GoodWrite)
  BY DEF EditInv
<1>2. Len(writes) \in Nat /\ DOMAIN writes = 1..Len(writes)
  BY <1>1, LenProperties
<1>3. \A i \in DOMAIN writes : writes[i] \in GoodWrite
  BY <1>1, <1>2, ElementOfSeq
<1> QED
  BY <1>2, <1>3 DEF GoodWrite

LEMMA EffectType == ASSUME NEW w \in Write PROVE Effect(w) \in Doc \cup {Gone}
  BY DEF Effect, Write, Doc

\* The rows of a query have the ids of documents.
LEMMA VisibleRows == ASSUME EditInv PROVE RowsOf(Visible) \in SUBSET Row
<1>1. \A i \in Ids : Visible[i] \in Doc \cup {Gone}
  <2> SUFFICES ASSUME NEW i \in Ids PROVE Visible[i] \in Doc \cup {Gone}
    OBVIOUS
  <2>1. CASE QueuedFor(i) = {}
    <3>1. Visible[i] = docs[i]
      BY <2>1 DEF Visible
    <3> QED
      BY <3>1 DEF EditInv
  <2>2. CASE QueuedFor(i) # {}
    <3>1. QueuedFor(i) \in SUBSET (1..Len(writes)) /\ Len(writes) \in Nat
      BY WriteIndices DEF QueuedFor
    <3>2. Max(QueuedFor(i)) \in DOMAIN writes
      BY <2>2, <3>1, MaxIn, WriteIndices
    <3>3. Effect(writes[Max(QueuedFor(i))]) \in Doc \cup {Gone}
      BY <3>2, WriteIndices, EffectType
    <3> QED
      BY <2>2, <3>3 DEF Visible
  <2> QED
    BY <2>1, <2>2
<1> HIDE DEF Visible
<1>2. \A i \in Ids : Visible[i] # Gone =>
         [id |-> i, of |-> Visible[i].of, text |-> Visible[i].text] \in Row
  BY <1>1 DEF Doc, Row
<1> QED
  BY <1>2 DEF RowsOf

LEMMA NewIdType == ASSUME EditInv, Len(writes) < MaxWrites PROVE NewId \in Ids
<1> DEFINE adds == {i \in DOMAIN writes : writes[i].op = "add"}
<1>1. Len(writes) \in Nat /\ DOMAIN writes = 1..Len(writes)
  BY WriteIndices
<1>2. IsFiniteSet(1..Len(writes)) /\ Cardinality(1..Len(writes)) = Len(writes)
  <2>1. /\ IsFiniteSet(1..Len(writes))
        /\ Cardinality(1..Len(writes)) = IF 1 > Len(writes) THEN 0 ELSE Len(writes) - 1 + 1
    BY <1>1, FS_Interval
  <2> QED
    BY <1>1, <2>1, SMT
<1>3. IsFiniteSet(adds) /\ Cardinality(adds) <= Len(writes)
  BY <1>1, <1>2, FS_Subset
<1>4. Cardinality(adds) \in Nat
  BY <1>3, FS_CardinalityType
<1>5. NewId = Rows + 1 + Cardinality(adds)
  BY DEF NewId
<1> HIDE DEF adds
<1>6. Rows + 1 + Cardinality(adds) \in 1..(Rows + MaxWrites)
  BY <1>1, <1>3, <1>4, Numbers, SMT
<1> QED
  BY <1>5, <1>6 DEF Ids

\* A write is handed to Firestore.
LEMMA Handed ==
    ASSUME EditInv, NEW op \in {"add", "set", "delete"}, NEW id \in Ids, NEW of \in Subjects,
           NEW text \in Text, NEW by \in Nat, NEW row \in {0} \cup Ids,
           op = "set" => id = row, op = "add" => row = 0,
           Hand(op, id, of, text, by, row)
    PROVE  /\ writes' \in Seq(GoodWrite) /\ Len(writes') <= MaxWrites
           /\ DOMAIN writes' = DOMAIN writes \cup {Len(writes) + 1}
           /\ \A i \in DOMAIN writes : writes'[i] = writes[i]
           /\ writes'[Len(writes) + 1].op = op /\ writes'[Len(writes) + 1].by = by
<1> DEFINE w == [op |-> op, id |-> id, of |-> of, text |-> text, by |-> by, row |-> row,
                 status |-> "queued", handled |-> FALSE]
<1>1. w \in GoodWrite /\ w.op = op /\ w.by = by
  BY DEF GoodWrite, Write, Aimed
<1>2. writes \in Seq(GoodWrite) /\ Len(writes) \in Nat /\ DOMAIN writes = 1..Len(writes)
  BY WriteIndices DEF EditInv
<1>3. writes' = Append(writes, w) /\ Len(writes) < MaxWrites
  BY DEF Hand
<1> HIDE DEF w
<1>4. /\ writes' \in Seq(GoodWrite) /\ Len(writes') = Len(writes) + 1
      /\ \A i \in 1..Len(writes) : writes'[i] = writes[i]
      /\ writes'[Len(writes) + 1] = w
  BY <1>1, <1>2, <1>3, AppendProperties
<1>5. DOMAIN writes' = 1..Len(writes') /\ Len(writes') <= MaxWrites
  BY <1>2, <1>3, <1>4, LenProperties, Numbers
<1> QED
  BY <1>1, <1>2, <1>4, <1>5

-----------------------------------------------------------------------------
(* An editor opens *)

LEMMA OverlayText ==
    ASSUME EditInv, NEW kept \in Text
    PROVE  Overlay(kept) \in Text
<1>1. DOMAIN kept = {"name", "dob"} /\ \A f \in {"name", "dob"} : kept[f] \in {0} \cup Subjects
  BY DEF Text
<1>2. \A f \in {"name", "dob"} : draft[f] \in {0} \cup Subjects
  BY DEF EditInv, Text
<1> QED
  BY <1>1, <1>2 DEF Overlay, Text

LEMMA EditModeKept ==
    ASSUME EditInv, NEW edit \in BOOLEAN
    PROVE  EditMode(edit) \in BOOLEAN /\ (edit => EditMode(edit))
  BY DEF EditMode, EditInv

\* The new editor, and what it leaves in UserDefaults.
LEMMA Opened ==
    ASSUME EditInv, NEW subject \in Subjects, NEW row \in {0} \cup Ids, NEW edit \in BOOLEAN,
           NEW kept \in Text, row # 0 => edit,
           OpenEditor(subject, row, edit, row, kept)
    PROVE  /\ draft' \in Text /\ sticky' \in BOOLEAN /\ made' = made + 1 /\ made' \in Nat
           /\ stack' \in Seq(GoodScreen) /\ stack' # <<>>
           /\ DOMAIN stack' = DOMAIN stack \cup {Len(stack) + 1}
           /\ \A i \in DOMAIN stack : stack'[i] = stack[i]
           /\ stack'[Len(stack) + 1].type = "editor" /\ stack'[Len(stack) + 1].no = made'
<1> DEFINE s == [type |-> "editor", no |-> Fresh, subject |-> subject, row |-> row,
                 edit |-> EditMode(edit), doc |-> row, kept |-> kept, shown |-> draft',
                 locked |-> FALSE]
<1>1. draft' \in Text
  BY OverlayText DEF OpenEditor
<1>2. sticky' \in BOOLEAN
  <2>1. sticky' = (kind = "dog" /\ EditMode(edit))
    BY DEF OpenEditor
  <2> QED
    BY <2>1
<1>3. made' = Fresh /\ Fresh = made + 1 /\ Fresh \in Nat
  BY DEF OpenEditor, Fresh, EditInv
<1>4. EditMode(edit) \in BOOLEAN /\ (edit => EditMode(edit))
  BY EditModeKept
<1>5. s \in Editor /\ s.doc = s.row /\ (s.row # 0 => s.edit)
  BY <1>1, <1>3, <1>4 DEF Editor
<1>6. s \in GoodScreen /\ s.type = "editor" /\ s.no = Fresh
  BY <1>5, GoodEditor
<1>7. stack' = Append(stack, s)
  BY DEF OpenEditor, Push
<1> HIDE DEF s
<1> QED
  BY <1>1, <1>2, <1>3, <1>6, <1>7, Pushed

-----------------------------------------------------------------------------
(* The actions *)

\* Every action leaves most variables alone or to their types; what differs is the stack,
\* the writes and the documents.
LEMMA Rest ==
    ASSUME EditInv, docs' \in [Ids -> Doc \cup {Gone}], writes' \in Seq(GoodWrite),
           Len(writes') <= MaxWrites, stack' \in Seq(GoodScreen), draft' \in Text,
           sticky' \in BOOLEAN, kind' = kind, premium' = premium, made' \in Nat,
           new' \in 0..MaxNew, ended' \in Reasons, ended' = "runs" <=> stack' # <<>>,
           strayed' \in BOOLEAN
    PROVE  EditInv'
  BY DEF EditInv

\* The process ends.
LEMMA Ended ==
    ASSUME NEW reason \in Reasons \ {"runs"}, Ends(reason)
    PROVE  /\ stack' \in Seq(GoodScreen) /\ stack' = <<>>
           /\ ended' \in Reasons /\ ended' # "runs"
  BY EmptySeq DEF Ends

LEMMA TopRow ==
    ASSUME EditInv, On("list"), NEW r \in Top.rows
    PROVE  /\ r.id \in Ids /\ r.id # 0 /\ r.of \in Subjects /\ r.text \in Text
           /\ Top.no \in Nat
<1>1. Top \in List
  BY StackIndices, ScreenKinds DEF On
<1>2. Top.rows \in SUBSET Row /\ Top.no \in Nat
  BY <1>1 DEF List
<1>3. r \in Row
  BY <1>2
<1> QED
  BY <1>2, <1>3, Numbers DEF Row

LEMMA TopEditor ==
    ASSUME EditInv, On("editor")
    PROVE  /\ stack # <<>> /\ Len(stack) \in DOMAIN stack /\ Top = stack[Len(stack)]
           /\ Top \in Editor /\ Top.doc = Top.row /\ (Top.row # 0 => Top.edit)
           /\ Top.type = "editor" /\ ended = "runs"
<1>1. stack # <<>> /\ Top.type = "editor"
  BY DEF On
<1> QED
  BY <1>1, StackIndices, ScreenKinds DEF Top, EditInv

LEMMA TopPicker ==
    ASSUME EditInv, NEW type \in {"dob", "timer"}, On(type)
    PROVE  /\ Top.subject \in Subjects /\ Top.row \in {0} \cup Ids /\ Top.edit \in BOOLEAN
           /\ Top.doc = Top.row /\ (Top.row # 0 => Top.edit) /\ ended = "runs"
<1>1. stack # <<>> /\ Top.type = type
  BY DEF On
<1>2. Top \in Picker /\ Top.doc = Top.row /\ (Top.row # 0 => Top.edit)
  BY <1>1, StackIndices, ScreenKinds
<1> QED
  BY <1>1, <1>2 DEF Picker, EditInv

LEMMA ListFilled ==
    ASSUME EditInv, NEW i \in DOMAIN stack, RowsArrive(i)
    PROVE  \E s \in List : /\ stack' = [stack EXCEPT ![i] = s]
                           /\ stack[i] \in List /\ s.no = stack[i].no
<1>1. stack[i] \in List /\ stack[i].asked > 0
  BY StackIndices, ScreenKinds DEF RowsArrive
<1>2. PICK rows \in {RowsOf(Visible), stack[i].rows} :
        stack' = [stack EXCEPT ![i].asked = @ - 1, ![i].rows = rows,
                               ![i].enabled = Enabled(rows, @)]
  BY DEF RowsArrive
<1> DEFINE e == Enabled(rows, stack[i].enabled)
           s == [stack[i] EXCEPT !.asked = @ - 1, !.rows = rows, !.enabled = e]
<1>3. rows \in SUBSET Row
  BY <1>1, <1>2, VisibleRows DEF List
<1>4. e \in BOOLEAN
  <2>1. stack[i].enabled \in BOOLEAN
    BY <1>1 DEF List
  <2>2. (premium \/ Cardinality(rows) <= Limit) \in BOOLEAN
    OBVIOUS
  <2> QED
    BY <2>1, <2>2 DEF Enabled
<1>5. stack' = [stack EXCEPT ![i] = s]
  BY <1>2
<1> HIDE DEF e
<1>6. stack[i].asked - 1 \in Nat
  BY <1>1 DEF List
<1>7. s \in List /\ s.no = stack[i].no
  BY <1>1, <1>3, <1>4, <1>6 DEF List
<1> QED
  BY <1>1, <1>5, <1>7

\* What all actions but a save keep: the number and the lock of each editor; a new editor
\* gets a new number; and no document is stored.
EditorsKept(c) ==
    \A i \in DOMAIN stack' : stack'[i].type = "editor" =>
        \/ /\ i \in DOMAIN stack /\ stack[i].type = "editor"
           /\ stack'[i].no = stack[i].no /\ stack'[i].locked = stack[i].locked
        \/ i = c /\ made' = made + 1 /\ stack'[i].no = made'
SavesKept ==
    \A k \in DOMAIN writes' : writes'[k].op # "delete" =>
        /\ k \in DOMAIN writes /\ writes[k].op # "delete"
        /\ writes'[k].by = writes[k].by
Keeps == /\ kind' = kind
         /\ made' = made \/ made' = made + 1
         /\ SavesKept
         /\ \E c : EditorsKept(c)

LEMMA SavesUnchanged == ASSUME writes' = writes PROVE SavesKept
  BY DEF SavesKept
LEMMA EditorsUnchanged == ASSUME stack' = stack PROVE \E c : EditorsKept(c)
<1>1. EditorsKept(0)
  BY DEF EditorsKept
<1> QED
  BY <1>1
LEMMA EditorsEnded == ASSUME stack' = <<>> PROVE \E c : EditorsKept(c)
<1>1. DOMAIN stack' = {}
  OBVIOUS
<1>2. EditorsKept(0)
  BY <1>1 DEF EditorsKept
<1> QED
  BY <1>2

LEMMA StepRowsArrive ==
    ASSUME EditInv, NEW i \in DOMAIN stack, RowsArrive(i)
    PROVE  EditInv' /\ Keeps
<1>1. PICK s \in List : stack' = [stack EXCEPT ![i] = s]
  BY ListFilled
<1>2. /\ stack' \in Seq(GoodScreen) /\ stack' # <<>> /\ stack # <<>>
      /\ DOMAIN stack' = DOMAIN stack
      /\ \A j \in DOMAIN stack : stack'[j] = IF j = i THEN s ELSE stack[j]
  BY <1>1, GoodList, Changed
<1>3. EditorsKept(0)
  BY <1>2 DEF EditorsKept, List
<1>4. EditInv'
  BY <1>2 DEF RowsArrive, EditInv
<1> QED
  BY <1>3, <1>4, SavesUnchanged DEF RowsArrive, Keeps

LEMMA StepRowTapped ==
    ASSUME EditInv, NEW r, RowTapped(r)
    PROVE  EditInv' /\ Keeps
<1>1. r.id \in Ids /\ r.of \in Subjects /\ r.text \in Text
  BY TopRow DEF RowTapped
<1>2. /\ draft' \in Text /\ sticky' \in BOOLEAN /\ made' \in Nat
      /\ stack' \in Seq(GoodScreen) /\ stack' # <<>> /\ made' = made + 1
      /\ EditorsKept(Len(stack) + 1)
  BY <1>1, Opened DEF RowTapped, EditorsKept
<1>3. ended = "runs"
  BY DEF RowTapped, On, EditInv
<1>4. EditInv'
  BY <1>2, <1>3 DEF RowTapped, EditInv
<1> QED
  BY <1>2, <1>4, SavesUnchanged DEF RowTapped, Keeps

LEMMA StepPlusTapped == ASSUME EditInv, PlusTapped PROVE EditInv' /\ Keeps
<1>1. Rows + new + 1 \in Subjects /\ new' \in 0..MaxNew
  BY Numbers DEF PlusTapped, EditInv, Subjects
<1>2. /\ draft' \in Text /\ sticky' \in BOOLEAN /\ made' \in Nat
      /\ stack' \in Seq(GoodScreen) /\ stack' # <<>> /\ made' = made + 1
      /\ EditorsKept(Len(stack) + 1)
  BY <1>1, BlankText, Opened DEF PlusTapped, EditorsKept
<1>3. ended = "runs"
  BY DEF PlusTapped, On, EditInv
<1>4. EditInv'
  BY <1>1, <1>2, <1>3 DEF PlusTapped, EditInv
<1> QED
  BY <1>2, <1>4, SavesUnchanged DEF PlusTapped, Keeps

LEMMA StepRowDeleted ==
    ASSUME EditInv, NEW r \in Top.rows, RowDeleted(r)
    PROVE  EditInv' /\ Keeps
<1>1. r.id \in Ids /\ r.of \in Subjects /\ Top.no \in Nat
  BY TopRow DEF RowDeleted
<1>2. /\ writes' \in Seq(GoodWrite) /\ Len(writes') <= MaxWrites
      /\ DOMAIN writes' = DOMAIN writes \cup {Len(writes) + 1}
      /\ \A i \in DOMAIN writes : writes'[i] = writes[i]
      /\ writes'[Len(writes) + 1].op = "delete"
  BY <1>1, BlankText, Handed DEF RowDeleted
<1>3. EditInv'
  BY <1>2 DEF RowDeleted, EditInv
<1>4. SavesKept
  BY <1>2 DEF SavesKept
<1> QED
  BY <1>3, <1>4, EditorsUnchanged DEF RowDeleted, Keeps

\* An editor with other texts or another mode, the same otherwise.
Edited(e, kept, shown, edit, locked) ==
    [e EXCEPT !.kept = kept, !.shown = shown, !.edit = edit, !.locked = locked]
LEMMA EditorChanged ==
    ASSUME NEW e \in Editor, e.doc = e.row, e.row # 0 => e.edit,
           NEW kept \in Text, NEW shown \in Text, NEW edit \in BOOLEAN, e.edit => edit,
           NEW locked \in BOOLEAN
    PROVE  LET s == Edited(e, kept, shown, edit, locked)
           IN  /\ s \in GoodScreen /\ s \in Editor
               /\ s.no = e.no /\ s.type = "editor" /\ s.locked = locked
<1> DEFINE s == Edited(e, kept, shown, edit, locked)
<1>1. s \in Editor /\ s.doc = s.row /\ (s.row # 0 => s.edit) /\ s.no = e.no
      /\ s.type = "editor" /\ s.locked = locked
  BY DEF Editor, Edited
<1> HIDE DEF s
<1>2. s \in GoodScreen
  BY <1>1, GoodEditor
<1> QED
  BY <1>1, <1>2 DEF s

LEMMA NameTypedTop ==
    ASSUME EditInv, NameTyped
    PROVE  \E s \in GoodScreen : /\ stack' = [stack EXCEPT ![Len(stack)] = s]
                                 /\ s.type = "editor" /\ s.no = Top.no
                                 /\ s.locked = Top.locked
<1>1. Top \in Editor /\ Top.doc = Top.row /\ (Top.row # 0 => Top.edit) /\ Top = stack[Len(stack)]
  BY TopEditor DEF NameTyped
<1> DEFINE shown == [Top.shown EXCEPT !["name"] = Top.subject]
           s == Edited(Top, Top.kept, shown, Top.edit, Top.locked)
<1>2. /\ Top.kept \in Text /\ Top.shown \in Text /\ Top.subject \in Subjects
      /\ Top.edit \in BOOLEAN /\ Top.locked \in BOOLEAN
  BY <1>1 DEF Editor
<1>3. shown \in Text
  BY <1>2 DEF Text
<1>4. stack' = [stack EXCEPT ![Len(stack)] = s]
  <2>1. s = [Top EXCEPT !.shown = shown]
    BY <1>1 DEF Editor, Edited
  <2> QED
    BY <1>1, <2>1 DEF NameTyped
<1> HIDE DEF shown
<1>5. s \in GoodScreen /\ s.no = Top.no /\ s.type = "editor" /\ s.locked = Top.locked
  BY <1>1, <1>2, <1>3, EditorChanged
<1> HIDE DEF s
<1> QED
  BY <1>4, <1>5

LEMMA PremiumTappedTop ==
    ASSUME EditInv, PremiumTapped
    PROVE  /\ draft' \in Text /\ sticky' \in BOOLEAN
           /\ \E s \in GoodScreen : /\ stack' = [stack EXCEPT ![Len(stack)] = s]
                                   /\ s.type = "editor" /\ s.no = Top.no
                                   /\ s.locked = Top.locked
<1>1. Top \in Editor /\ Top.doc = Top.row /\ (Top.row # 0 => Top.edit) /\ Top = stack[Len(stack)]
  BY TopEditor DEF PremiumTapped
<1> DEFINE text == Overlay(Top.kept)
           edit == EditMode(Top.edit)
           s == Edited(Top, Top.kept, text, edit, Top.locked)
<1>2. Top.kept \in Text /\ Top.edit \in BOOLEAN /\ Top.locked \in BOOLEAN
  BY <1>1 DEF Editor
<1>3. text \in Text /\ edit \in BOOLEAN /\ (Top.edit => edit)
  BY <1>2, OverlayText, EditModeKept
<1>4. stack' = [stack EXCEPT ![Len(stack)] = s]
  <2>1. s = [Top EXCEPT !.shown = text, !.edit = edit]
    BY <1>1 DEF Editor, Edited
  <2> QED
    BY <1>1, <2>1 DEF PremiumTapped
<1>5. draft' = text /\ sticky' = edit
  BY DEF PremiumTapped
<1> HIDE DEF text, edit
<1>6. s \in GoodScreen /\ s.no = Top.no /\ s.type = "editor" /\ s.locked = Top.locked
  BY <1>1, <1>2, <1>3, EditorChanged
<1> HIDE DEF s
<1> QED
  BY <1>3, <1>4, <1>5, <1>6

LEMMA PickerTappedTop ==
    ASSUME EditInv, NEW type \in {"dob", "timer"}, PickerTapped(type)
    PROVE  /\ draft' \in Text /\ sticky' \in BOOLEAN
           /\ \E s, p \in GoodScreen :
                 /\ stack' = Append([stack EXCEPT ![Len(stack)] = s], p)
                 /\ s.type = "editor" /\ s.no = Top.no /\ s.locked = Top.locked
                 /\ s.kept = Top.shown /\ s.shown = draft' /\ s.subject = Top.subject
                 /\ p.type = type /\ p.subject = Top.subject
           /\ draft' = Overlay(Top.shown)
<1>1. Top \in Editor /\ Top.doc = Top.row /\ (Top.row # 0 => Top.edit) /\ Top = stack[Len(stack)]
  BY TopEditor DEF PickerTapped
<1> DEFINE text == Overlay(Top.shown)
           edit == EditMode(Top.edit)
           s == Edited(Top, Top.shown, text, edit, Top.locked)
           p == [type |-> type, subject |-> Top.subject, row |-> Top.row,
                 edit |-> edit, doc |-> IF edit THEN Top.doc ELSE 0]
<1>2. /\ Top.shown \in Text /\ Top.edit \in BOOLEAN /\ Top.locked \in BOOLEAN
      /\ Top.subject \in Subjects /\ Top.row \in {0} \cup Ids
  BY <1>1 DEF Editor
<1>3. text \in Text /\ edit \in BOOLEAN /\ (Top.edit => edit)
  BY <1>2, OverlayText, EditModeKept
<1>4. stack' = Append([stack EXCEPT ![Len(stack)] = s], p)
  <2>1. s = [Top EXCEPT !.kept = Top.shown, !.shown = text, !.edit = edit]
    BY <1>1 DEF Editor, Edited
  <2>2. [stack EXCEPT ![Len(stack)].kept = Top.shown, ![Len(stack)].shown = text,
                      ![Len(stack)].edit = edit] = [stack EXCEPT ![Len(stack)] = s]
    BY <1>1, <2>1
  <2>3. stack' = Append([stack EXCEPT ![Len(stack)].kept = Top.shown,
                                      ![Len(stack)].shown = text,
                                      ![Len(stack)].edit = edit], p)
    BY Zenon DEF PickerTapped
  <2> QED
    BY <2>2, <2>3, Zenon
<1>5. draft' = Overlay(Top.shown)
  BY DEF PickerTapped
<1>6. draft' = text /\ sticky' = (kind = "dog" /\ edit)
  BY DEF PickerTapped
<1> HIDE DEF text, edit
<1>7. s \in GoodScreen /\ s.no = Top.no /\ s.type = "editor" /\ s.locked = Top.locked
  BY <1>1, <1>2, <1>3, EditorChanged
<1>8. s.kept = Top.shown /\ s.shown = text /\ s.subject = Top.subject
  BY <1>1 DEF Editor, Edited
<1>9. p \in GoodScreen /\ p.type = type /\ p.subject = Top.subject
  <2>1. p.doc = p.row /\ (p.row # 0 => p.edit) /\ p.type = type
        /\ p.subject = Top.subject
    BY <1>1, <1>3
  <2>2. p \in Picker
    BY <1>1, <1>2, <1>3 DEF Picker
  <2> HIDE DEF p
  <2> QED
    BY <2>1, <2>2, GoodPicker
<1>10. sticky' \in BOOLEAN
  BY <1>6
<1> HIDE DEF s, p
<1> QED
  BY <1>3, <1>4, <1>6, <1>7, <1>9, <1>10, <1>5, <1>8

\* A changed editor with a picker over it.
LEMMA OneMore ==
    ASSUME NEW S, NEW q \in Seq(S), NEW p \in S, NEW r, r = Append(q, p)
    PROVE  /\ r \in Seq(S) /\ r # <<>> /\ DOMAIN r = DOMAIN q \cup {Len(q) + 1}
           /\ \A i \in DOMAIN q : r[i] = q[i]
           /\ r[Len(q) + 1] = p
<1>1. /\ r \in Seq(S) /\ Len(r) = Len(q) + 1
      /\ \A i \in 1..Len(q) : r[i] = q[i]
      /\ r[Len(q) + 1] = p
  BY AppendProperties
<1>2. /\ DOMAIN q = 1..Len(q) /\ DOMAIN r = 1..Len(r) /\ Len(q) \in Nat
  BY <1>1, LenProperties
<1>3. r # <<>>
  BY <1>1, <1>2, EmptySeq
<1> QED
  BY <1>1, <1>2, <1>3

LEMMA PickerStack ==
    ASSUME EditInv, stack # <<>>, NEW s \in GoodScreen, NEW p \in GoodScreen,
           stack' = Append([stack EXCEPT ![Len(stack)] = s], p)
    PROVE  /\ stack' \in Seq(GoodScreen) /\ stack' # <<>>
           /\ DOMAIN stack' = DOMAIN stack \cup {Len(stack) + 1}
           /\ \A j \in DOMAIN stack : stack'[j] = IF j = Len(stack) THEN s ELSE stack[j]
           /\ stack'[Len(stack) + 1] = p
<1>1. PICK t : t = [stack EXCEPT ![Len(stack)] = s]
  OBVIOUS
<1>2. stack \in Seq(GoodScreen) /\ DOMAIN stack = 1..Len(stack) /\ Len(stack) \in 1..Len(stack)
  BY StackIndices DEF EditInv
<1>3. /\ t \in Seq(GoodScreen) /\ Len(t) = Len(stack)
      /\ \A j \in 1..Len(stack) : t[j] = IF j = Len(stack) THEN s ELSE stack[j]
  BY <1>1, <1>2, ExceptSeq
<1>4. DOMAIN t = DOMAIN stack
  BY <1>2, <1>3, LenProperties
<1>5. stack' = Append(t, p)
  BY <1>1
<1>6. /\ stack' \in Seq(GoodScreen) /\ stack' # <<>>
      /\ DOMAIN stack' = DOMAIN t \cup {Len(t) + 1}
      /\ \A i \in DOMAIN t : stack'[i] = t[i]
      /\ stack'[Len(t) + 1] = p
  <2>1. t \in Seq(GoodScreen)
    BY <1>3
  <2>2. PICK r : r = stack'
    OBVIOUS
  <2>3. r = Append(t, p)
    BY <1>5, <2>2, Zenon
  <2>4. /\ r \in Seq(GoodScreen) /\ r # <<>> /\ DOMAIN r = DOMAIN t \cup {Len(t) + 1}
        /\ \A i \in DOMAIN t : r[i] = t[i]
        /\ r[Len(t) + 1] = p
    <3> HIDE <1>1, <1>2, <1>3, <1>5, <2>2
    <3> QED
      BY <2>1, <2>3, OneMore
  <2> QED
    BY <2>2, <2>4, Zenon
<1>7. \A j \in DOMAIN stack : stack'[j] = IF j = Len(stack) THEN s ELSE stack[j]
  BY <1>2, <1>3, <1>4, <1>6
<1>8. Len(t) = Len(stack)
  BY <1>3
<1> QED
  BY <1>4, <1>6, <1>7, <1>8, Zenon

LEMMA SaveTappedTop ==
    ASSUME EditInv, SaveTapped, ~Ends("path")
    PROVE  \E s \in GoodScreen : /\ stack' = [stack EXCEPT ![Len(stack)] = s]
                                 /\ s.type = "editor" /\ s.no = Top.no
                                 /\ s.locked = Locks
<1>1. Top \in Editor /\ Top.doc = Top.row /\ (Top.row # 0 => Top.edit) /\ Top = stack[Len(stack)]
  BY TopEditor DEF SaveTapped
<1> DEFINE s == Edited(Top, Top.kept, Top.shown, Top.edit, Locks)
<1>2. Top.kept \in Text /\ Top.shown \in Text /\ Top.edit \in BOOLEAN
  BY <1>1 DEF Editor
<1>3. Locks \in BOOLEAN
  BY DEF Locks
<1>4. stack' = [stack EXCEPT ![Len(stack)] = s]
  <2>1. s = [Top EXCEPT !.locked = Locks]
    BY <1>1 DEF Editor, Edited
  <2>2. stack' = [stack EXCEPT ![Len(stack)].locked = Locks]
    BY DEF SaveTapped
  <2> QED
    BY <1>1, <2>1, <2>2
<1>5. s \in GoodScreen /\ s.no = Top.no /\ s.type = "editor" /\ s.locked = Locks
  BY <1>1, <1>2, <1>3, EditorChanged
<1> HIDE DEF s
<1> QED
  BY <1>4, <1>5

LEMMA SaveTappedWrites ==
    ASSUME EditInv, SaveTapped
    PROVE  /\ writes' \in Seq(GoodWrite) /\ Len(writes') <= MaxWrites
           /\ \/ writes' = writes
              \/ /\ ~Ends("path")
                 /\ DOMAIN writes' = DOMAIN writes \cup {Len(writes) + 1}
                 /\ \A i \in DOMAIN writes : writes'[i] = writes[i]
                 /\ writes'[Len(writes) + 1].by = Top.no
<1>1. Top \in Editor /\ Top.doc = Top.row /\ (Top.row # 0 => Top.edit)
  BY TopEditor DEF SaveTapped
<1>2. /\ Top.subject \in Subjects /\ Top.shown \in Text /\ Top.no \in Nat
      /\ Top.row \in {0} \cup Ids /\ Top.edit \in BOOLEAN
  BY <1>1 DEF Editor
<1>3. CASE writes' = writes
  BY <1>3 DEF EditInv
<1>4. CASE writes' # writes
  <2> DEFINE op == IF Top.edit THEN "set" ELSE "add"
             id == IF Top.edit THEN Top.doc ELSE NewId
  <2>1. /\ ~(Top.edit /\ Top.doc = 0)
        /\ Hand(op, id, Top.subject, Top.shown, Top.no, Top.row)
        /\ stack' = [stack EXCEPT ![Len(stack)].locked = Locks]
    BY <1>4 DEF SaveTapped
  <2>2. id \in Ids
    <3>1. Len(writes) < MaxWrites
      BY <2>1 DEF Hand
    <3> QED
      BY <1>1, <1>2, <2>1, <3>1, NewIdType
  <2>3. /\ op \in {"add", "set", "delete"}
        /\ (op = "set" => id = Top.row) /\ (op = "add" => Top.row = 0)
    BY <1>1
  <2> HIDE DEF op, id
  <2>4. /\ writes' \in Seq(GoodWrite) /\ Len(writes') <= MaxWrites
        /\ DOMAIN writes' = DOMAIN writes \cup {Len(writes) + 1}
        /\ \A i \in DOMAIN writes : writes'[i] = writes[i]
        /\ writes'[Len(writes) + 1].by = Top.no
    BY <1>2, <2>1, <2>2, <2>3, Handed, ZenonT(30)
  <2>5. ~Ends("path")
    <3>1. ended' = ended /\ ended = "runs"
      BY <1>4, TopEditor DEF SaveTapped
    <3> QED
      BY <3>1 DEF Ends
  <2> QED
    BY <2>4, <2>5
<1> QED
  BY <1>3, <1>4

LEMMA ReplacedEditor ==
    ASSUME EditInv, stack # <<>>, NEW s \in GoodScreen,
           stack' = [stack EXCEPT ![Len(stack)] = s],
           Top.type = "editor", s.no = Top.no, s.locked = Top.locked
    PROVE  stack' \in Seq(GoodScreen) /\ stack' # <<>> /\ EditorsKept(0)
<1>1. Len(stack) \in DOMAIN stack
  BY StackIndices
<1>2. /\ stack' \in Seq(GoodScreen) /\ stack' # <<>> /\ DOMAIN stack' = DOMAIN stack
      /\ \A j \in DOMAIN stack : stack'[j] = IF j = Len(stack) THEN s ELSE stack[j]
  BY <1>1, Changed
<1> QED
  BY <1>1, <1>2 DEF EditorsKept, Top

LEMMA StepNameTyped == ASSUME EditInv, NameTyped PROVE EditInv' /\ Keeps
<1>1. PICK s \in GoodScreen : /\ stack' = [stack EXCEPT ![Len(stack)] = s]
                              /\ s.no = Top.no /\ s.locked = Top.locked
  BY NameTypedTop
<1>2. stack # <<>> /\ Top.type = "editor" /\ ended = "runs"
  BY TopEditor DEF NameTyped
<1>3. stack' \in Seq(GoodScreen) /\ stack' # <<>> /\ EditorsKept(0)
  BY <1>1, <1>2, ReplacedEditor
<1>4. EditInv'
  BY <1>2, <1>3 DEF NameTyped, EditInv
<1> QED
  BY <1>3, <1>4, SavesUnchanged DEF NameTyped, Keeps

LEMMA StepPremiumTapped == ASSUME EditInv, PremiumTapped PROVE EditInv' /\ Keeps
<1>1. PICK s \in GoodScreen : /\ stack' = [stack EXCEPT ![Len(stack)] = s]
                              /\ s.no = Top.no /\ s.locked = Top.locked
  BY PremiumTappedTop
<1>2. stack # <<>> /\ Top.type = "editor" /\ ended = "runs"
  BY TopEditor DEF PremiumTapped
<1>3. stack' \in Seq(GoodScreen) /\ stack' # <<>> /\ EditorsKept(0)
  BY <1>1, <1>2, ReplacedEditor
<1>4. draft' \in Text /\ sticky' \in BOOLEAN
  BY PremiumTappedTop
<1>5. EditInv'
  BY <1>2, <1>3, <1>4 DEF PremiumTapped, EditInv
<1> QED
  BY <1>3, <1>5, SavesUnchanged DEF PremiumTapped, Keeps

LEMMA StepPickerTapped ==
    ASSUME EditInv, NEW type \in {"dob", "timer"}, PickerTapped(type)
    PROVE  EditInv' /\ Keeps
<1>1. PICK s, p \in GoodScreen : /\ stack' = Append([stack EXCEPT ![Len(stack)] = s], p)
                                 /\ s.no = Top.no /\ s.locked = Top.locked /\ p.type = type
  BY PickerTappedTop
<1>2. stack # <<>> /\ Top.type = "editor" /\ ended = "runs"
  BY TopEditor DEF PickerTapped
<1>3. /\ stack' \in Seq(GoodScreen) /\ stack' # <<>>
      /\ DOMAIN stack' = DOMAIN stack \cup {Len(stack) + 1}
      /\ \A j \in DOMAIN stack : stack'[j] = IF j = Len(stack) THEN s ELSE stack[j]
      /\ stack'[Len(stack) + 1] = p
  BY <1>1, <1>2, PickerStack
<1>4. EditorsKept(0)
  BY <1>1, <1>2, <1>3 DEF EditorsKept, Top
<1>5. draft' \in Text /\ sticky' \in BOOLEAN
  BY PickerTappedTop
<1>6. EditInv'
  BY <1>2, <1>3, <1>5 DEF PickerTapped, EditInv
<1> QED
  BY <1>4, <1>6, SavesUnchanged DEF PickerTapped, Keeps

LEMMA StepDobChosen == ASSUME EditInv, DobChosen PROVE EditInv' /\ Keeps
<1> DEFINE kept == [Blank EXCEPT !["dob"] = Top.subject]
<1>1. /\ Top.subject \in Subjects /\ Top.row \in {0} \cup Ids /\ Top.edit \in BOOLEAN
      /\ Top.doc = Top.row /\ (Top.row # 0 => Top.edit) /\ ended = "runs"
  BY TopPicker DEF DobChosen
<1>2. kept \in Text
  BY <1>1, BlankText DEF Text
<1>3. OpenEditor(Top.subject, Top.row, Top.edit, Top.row, kept)
  BY <1>1 DEF DobChosen
<1> HIDE DEF kept
<1>4. /\ draft' \in Text /\ sticky' \in BOOLEAN /\ made' \in Nat
      /\ stack' \in Seq(GoodScreen) /\ stack' # <<>> /\ made' = made + 1
      /\ EditorsKept(Len(stack) + 1)
  BY <1>1, <1>2, <1>3, Opened DEF EditorsKept
<1>5. EditInv'
  BY <1>1, <1>4 DEF DobChosen, EditInv
<1> QED
  BY <1>4, <1>5, SavesUnchanged DEF DobChosen, Keeps

LEMMA StepTimerSaved ==
    ASSUME EditInv, NEW turned \in BOOLEAN, TimerSaved(turned)
    PROVE  EditInv' /\ Keeps
<1>1. /\ Top.subject \in Subjects /\ Top.row \in {0} \cup Ids /\ Top.edit \in BOOLEAN
      /\ Top.doc = Top.row /\ (Top.row # 0 => Top.edit) /\ ended = "runs"
  BY TopPicker DEF TimerSaved
<1>2. CASE premium \/ ~(turned \/ Top.edit)
  <2>1. Ends(IF premium THEN "ad" ELSE "wheel") /\ UNCHANGED <<draft, sticky, made>>
    BY <1>2 DEF TimerSaved
  <2>2. (IF premium THEN "ad" ELSE "wheel") \in Reasons \ {"runs"}
    BY DEF Reasons
  <2>3. /\ stack' \in Seq(GoodScreen) /\ stack' = <<>> /\ ended' \in Reasons /\ ended' # "runs"
    BY <2>1, <2>2, Ended
  <2>4. EditInv'
    BY <2>1, <2>3 DEF TimerSaved, EditInv
  <2> QED
    BY <2>1, <2>3, <2>4, EditorsEnded, SavesUnchanged DEF TimerSaved, Keeps
<1>3. CASE ~(premium \/ ~(turned \/ Top.edit))
  <2>1. OpenEditor(Top.subject, Top.row, Top.edit, Top.row, Blank) /\ ended' = ended
    BY <1>1, <1>3 DEF TimerSaved
  <2>2. /\ draft' \in Text /\ sticky' \in BOOLEAN /\ made' \in Nat
        /\ stack' \in Seq(GoodScreen) /\ stack' # <<>> /\ made' = made + 1
        /\ EditorsKept(Len(stack) + 1)
    BY <1>1, <2>1, BlankText, Opened DEF EditorsKept
  <2>3. EditInv'
    BY <1>1, <2>1, <2>2 DEF TimerSaved, EditInv
  <2> QED
    BY <2>2, <2>3, SavesUnchanged DEF TimerSaved, Keeps
<1> QED
  BY <1>2, <1>3

LEMMA StepSheetClosed == ASSUME EditInv, SheetClosed PROVE EditInv' /\ Keeps
<1>1. stack # <<>> /\ Len(stack) > 1
  BY EmptySeq DEF SheetClosed
<1>2. /\ stack' \in Seq(GoodScreen) /\ Len(stack') = Len(stack) - 1
      /\ DOMAIN stack' \subseteq DOMAIN stack
      /\ \A i \in DOMAIN stack' : stack'[i] = stack[i]
  BY <1>1, Popped DEF SheetClosed
<1>3. stack' # <<>> /\ ended = "runs"
  BY <1>1, <1>2, StackIndices, EmptySeq DEF EditInv
<1>4. EditorsKept(0)
  BY <1>2 DEF EditorsKept
<1>5. strayed' \in BOOLEAN
  BY DEF SheetClosed, EditInv
<1>6. EditInv'
  BY <1>2, <1>3, <1>5 DEF SheetClosed, EditInv
<1> QED
  BY <1>4, <1>6, SavesUnchanged DEF SheetClosed, Keeps

LEMMA StepAdDismissed == ASSUME EditInv, AdDismissed PROVE EditInv' /\ Keeps
<1>1. stack # <<>> /\ ended = "runs"
  BY DEF AdDismissed, On, EditInv
<1>2. CASE kind = "dog"
  <2>1. Ends("segue") /\ made' = made
    BY <1>2 DEF AdDismissed
  <2>2. /\ stack' \in Seq(GoodScreen) /\ stack' = <<>> /\ ended' \in Reasons /\ ended' # "runs"
    BY <2>1, Ended DEF Reasons
  <2>3. EditInv'
    BY <2>1, <2>2 DEF AdDismissed, EditInv
  <2> QED
    BY <2>1, <2>2, <2>3, EditorsEnded, SavesUnchanged DEF AdDismissed, Keeps
<1>3. CASE kind # "dog"
  <2> DEFINE l == NewList(Fresh)
  <2>1. stack' = Append(Front(stack), l) /\ made' = made + 1 /\ ended' = ended
    BY <1>3 DEF AdDismissed, Fresh
  <2>2. l \in List /\ l \in GoodScreen
    BY NewListGood DEF EditInv, Fresh
  <2>3. l.type = "list"
    BY <2>2 DEF List
  <2>4. PICK q : q = Front(stack)
    OBVIOUS
  <2>5. /\ q \in Seq(GoodScreen) /\ DOMAIN q \subseteq DOMAIN stack
        /\ \A i \in DOMAIN q : q[i] = stack[i]
    BY <1>1, <2>4, Popped
  <2>6. PICK r : r = stack'
    OBVIOUS
  <2> HIDE DEF l
  <2>7. r = Append(q, l)
    BY <2>1, <2>4, <2>6, Zenon
  <2>8. /\ r \in Seq(GoodScreen) /\ r # <<>> /\ DOMAIN r = DOMAIN q \cup {Len(q) + 1}
        /\ \A i \in DOMAIN q : r[i] = q[i]
        /\ r[Len(q) + 1] = l
    BY <2>2, <2>5, <2>7, OneMore
  <2>9. EditorsKept(0)
    BY <2>3, <2>5, <2>6, <2>8 DEF EditorsKept
  <2>10. EditInv'
    BY <1>1, <2>1, <2>6, <2>8 DEF AdDismissed, EditInv
  <2> QED
    BY <2>1, <2>9, <2>10, SavesUnchanged DEF AdDismissed, Keeps
<1> QED
  BY <1>2, <1>3

LEMMA StepRelaunched == ASSUME EditInv, Relaunched PROVE EditInv' /\ Keeps
<1>1. made' = made + 1 /\ made' \in Nat
  BY DEF Relaunched, Fresh, EditInv
<1> DEFINE l == NewList(Fresh)
<1>2. l \in List /\ l \in GoodScreen
  BY NewListGood DEF EditInv, Fresh
<1>3. l.type = "list"
  BY <1>2 DEF List
<1>4. stack' = <<l>>
  BY DEF Relaunched
<1> HIDE DEF l
<1>5. /\ stack' \in Seq(GoodScreen) /\ stack' # <<>>
      /\ DOMAIN stack' = {1} /\ stack'[1].type = "list"
  BY <1>2, <1>3, <1>4
<1>6. EditorsKept(0)
  BY <1>5 DEF EditorsKept
<1>7. /\ writes \in Seq(GoodWrite) /\ DOMAIN writes = 1..Len(writes) /\ Len(writes) \in Nat
      /\ \A i \in DOMAIN writes : writes[i] \in GoodWrite
  BY WriteIndices DEF EditInv
<1>8. \A i \in DOMAIN writes : [writes[i] EXCEPT !.handled = TRUE] \in GoodWrite
  BY <1>7 DEF GoodWrite, Write, Aimed
<1>9. writes' = [i \in 1..Len(writes) |-> [writes[i] EXCEPT !.handled = TRUE]]
  BY <1>7 DEF Relaunched
<1>10. writes' \in Seq(GoodWrite) /\ Len(writes') = Len(writes)
  BY <1>7, <1>8, <1>9, IsASeq
<1>11. SavesKept
  BY <1>7, <1>9 DEF SavesKept, GoodWrite, Write
<1>12. ended' = "runs" /\ ended' \in Reasons
  BY DEF Relaunched, Reasons
<1>13. strayed' \in BOOLEAN
  BY DEF Relaunched, EditInv
<1>14. EditInv'
  BY <1>1, <1>5, <1>10, <1>12, <1>13 DEF Relaunched, EditInv
<1> QED
  BY <1>1, <1>6, <1>11, <1>14 DEF Relaunched, Keeps

-----------------------------------------------------------------------------
(* The answer of a write *)

LEMMA AnsweredWrites ==
    ASSUME EditInv, NEW i \in DOMAIN writes, NEW w \in GoodWrite,
           writes' = [writes EXCEPT ![i] = w], w.op = writes[i].op, w.by = writes[i].by
    PROVE  writes' \in Seq(GoodWrite) /\ Len(writes') = Len(writes) /\ SavesKept
<1>1. /\ writes \in Seq(GoodWrite) /\ DOMAIN writes = 1..Len(writes) /\ Len(writes) \in Nat
      /\ writes[i] \in GoodWrite
  BY WriteIndices DEF EditInv
<1>2. /\ writes' \in Seq(GoodWrite) /\ Len(writes') = Len(writes)
      /\ \A j \in 1..Len(writes) : writes'[j] = IF j = i THEN w ELSE writes[j]
  BY <1>1, ExceptSeq
<1>3. DOMAIN writes' = DOMAIN writes
  BY <1>1, <1>2, LenProperties
<1> QED
  BY <1>1, <1>2, <1>3 DEF SavesKept

LEMMA AskedAgain ==
    ASSUME NEW l \in List
    PROVE  [l EXCEPT !.rows = {}, !.asked = @ + 1] \in List
<1>1. PICK n \in Nat : n = l.asked + 1
  BY DEF List
<1>2. PICK none \in SUBSET Row : none = {}
  OBVIOUS
<1>3. [l EXCEPT !.rows = none, !.asked = n] \in List
  BY <1>1, <1>2 DEF List
<1> QED
  BY <1>1, <1>2, <1>3

LEMMA SameInterval ==
    ASSUME NEW m \in Nat, NEW n \in Nat, 1..m = 1..n
    PROVE  m = n
  OBVIOUS

\* The handler of a deletion queries again.
LEMMA DeletionShown ==
    ASSUME EditInv, NEW by,
           stack' = [k \in DOMAIN stack |->
               IF stack[k].type = "list" /\ stack[k].no = by
               THEN [stack[k] EXCEPT !.rows = {}, !.asked = @ + 1]
               ELSE stack[k]]
    PROVE  /\ stack' \in Seq(GoodScreen) /\ (stack' = <<>> <=> stack = <<>>)
           /\ EditorsKept(0)
<1>1. /\ stack \in Seq(GoodScreen) /\ DOMAIN stack = 1..Len(stack) /\ Len(stack) \in Nat
      /\ \A k \in DOMAIN stack : stack[k] \in GoodScreen
  BY StackIndices DEF EditInv
<1>2. \A k \in DOMAIN stack : stack'[k] \in GoodScreen
  <2> SUFFICES ASSUME NEW k \in DOMAIN stack PROVE stack'[k] \in GoodScreen
    OBVIOUS
  <2>1. CASE stack[k].type = "list" /\ stack[k].no = by
    <3>1. stack[k] \in List
      BY <1>1, <2>1, ScreenKinds
    <3>2. [stack[k] EXCEPT !.rows = {}, !.asked = @ + 1] \in List
      BY <3>1, AskedAgain
    <3> QED
      BY <2>1, <3>2, GoodList
  <2>2. CASE ~(stack[k].type = "list" /\ stack[k].no = by)
    BY <1>1, <2>2
  <2> QED
    BY <2>1, <2>2
<1>3. DOMAIN stack' = 1..Len(stack)
  BY <1>1
<1>4. stack' \in [1..Len(stack) -> GoodScreen]
  <2>1. stack' = [k \in DOMAIN stack |-> stack'[k]]
    OBVIOUS
  <2> QED
    BY <1>1, <1>2, <2>1, Zenon
<1>5. stack' \in Seq(GoodScreen) /\ Len(stack') = Len(stack)
  <2>1. stack' \in Seq(GoodScreen)
    BY <1>1, <1>4, SeqDef, Zenon
  <2>2. Len(stack') \in Nat /\ DOMAIN stack' = 1..Len(stack')
    BY <2>1, LenProperties, Zenon
  <2> QED
    BY <1>1, <1>3, <2>1, <2>2, SameInterval, Zenon
<1>6. stack' = <<>> <=> stack = <<>>
  BY <1>1, <1>5, EmptySeq
<1>7. \A k \in DOMAIN stack : stack'[k].type = "editor" => stack'[k] = stack[k]
  <2> SUFFICES ASSUME NEW k \in DOMAIN stack, stack'[k] # stack[k]
               PROVE  stack'[k].type # "editor"
    OBVIOUS
  <2>1. stack[k].type = "list" /\ stack'[k] = [stack[k] EXCEPT !.rows = {}, !.asked = @ + 1]
    OBVIOUS
  <2>2. stack[k] \in List
    BY <1>1, <2>1, ScreenKinds
  <2> QED
    BY <2>1, <2>2 DEF List
<1> QED
  BY <1>1, <1>3, <1>5, <1>6, <1>7 DEF EditorsKept

\* The handler of a save shows the list, an advertisement or nothing.
LEMMA SaveShown ==
    ASSUME EditInv, stack # <<>>, NEW no, ShowsList(no)
    PROVE  /\ stack' \in Seq(GoodScreen) /\ ended' \in Reasons
           /\ (ended' = "runs" <=> stack' # <<>>)
           /\ (made' = made \/ made' = made + 1) /\ made' \in Nat
           /\ \E c : EditorsKept(c)
<1>1. ended = "runs" /\ ended \in Reasons /\ made \in Nat /\ stack \in Seq(GoodScreen)
  BY DEF EditInv
<1>2. CASE premium
  <2>1. Ends("ad") /\ made' = made
    BY <1>2 DEF ShowsList
  <2> QED
    BY <1>1, <2>1, Ended, EditorsEnded DEF Reasons
<1>3. CASE ~premium /\ stack' = stack /\ made' = made
  <2>1. ended' = ended
    BY <1>3 DEF ShowsList
  <2> QED
    BY <1>1, <1>3, <2>1, EditorsUnchanged
<1>4. CASE ~premium /\ ~(stack' = stack /\ made' = made)
  <2>1. ended' = ended
    BY <1>4 DEF ShowsList
  <2>2. PICK s \in {NewList(Fresh), [type |-> "ad"]} :
            stack' = Append(stack, s) /\ (made' = Fresh \/ made' = made)
    BY <1>4 DEF ShowsList, Push
  <2>3. s \in GoodScreen /\ s.type # "editor"
    <3>1. Fresh \in Nat
      BY <1>1 DEF Fresh
    <3> QED
      BY <3>1, NewListGood, GoodAd DEF List
  <2>4. /\ stack' \in Seq(GoodScreen) /\ stack' # <<>>
        /\ DOMAIN stack' = DOMAIN stack \cup {Len(stack) + 1}
        /\ \A i \in DOMAIN stack : stack'[i] = stack[i]
        /\ stack'[Len(stack) + 1] = s
    BY <2>2, <2>3, Pushed
  <2>5. EditorsKept(0)
    BY <2>3, <2>4 DEF EditorsKept
  <2>6. (made' = made \/ made' = made + 1) /\ made' \in Nat
    BY <1>1, <2>2 DEF Fresh
  <2> QED
    BY <1>1, <2>1, <2>4, <2>5, <2>6
<1> QED
  BY <1>2, <1>3, <1>4

LEMMA StepAnswered == ASSUME EditInv, NEW ok \in BOOLEAN, Answered(ok) PROVE EditInv' /\ Keeps
<1>1. PICK i \in DOMAIN writes :
        LET w == writes[i]
            here == ~w.handled /\ stack # <<>>
        IN  /\ writes' = [writes EXCEPT ![i].status = IF ok THEN "done" ELSE "refused",
                                        ![i].handled = TRUE]
            /\ docs' = IF ok THEN Applied(docs, w) ELSE docs
            /\ draft' = IF here /\ Cleared(w, ok) THEN Blank ELSE draft
            /\ IF ~here \/ ~ok THEN UNCHANGED <<stack, made, ended>>
               ELSE IF w.op = "delete"
               THEN /\ stack' = [k \in DOMAIN stack |->
                           IF stack[k].type = "list" /\ stack[k].no = w.by
                           THEN [stack[k] EXCEPT !.rows = {}, !.asked = @ + 1]
                           ELSE stack[k]]
                    /\ UNCHANGED <<made, ended>>
               ELSE ShowsList(w.by)
            /\ UNCHANGED <<sticky, kind, premium, new, strayed>>
  BY Zenon DEF Answered
<1>2. writes' \in Seq(GoodWrite) /\ Len(writes') = Len(writes) /\ SavesKept
  <2> DEFINE status == IF ok THEN "done" ELSE "refused"
             w == [writes[i] EXCEPT !.status = status, !.handled = TRUE]
  <2>1. writes[i] \in GoodWrite
    BY WriteIndices
  <2>2. status \in {"done", "refused"}
    OBVIOUS
  <2>3. writes' = [writes EXCEPT ![i] = w]
    <3>1. writes' = [writes EXCEPT ![i].status = status, ![i].handled = TRUE]
      BY <1>1, Zenon
    <3> HIDE DEF status
    <3> QED
      BY <3>1
  <2> HIDE DEF status
  <2>4. w \in GoodWrite /\ w.op = writes[i].op /\ w.by = writes[i].by
    BY <2>1, <2>2 DEF GoodWrite, Write, Aimed
  <2> HIDE DEF w
  <2> QED
    BY <2>3, <2>4, AnsweredWrites
<1>3. docs' \in [Ids -> Doc \cup {Gone}]
  <2>1. writes[i] \in Write
    BY WriteIndices
  <2>2. Effect(writes[i]) \in Doc \cup {Gone}
    BY <2>1, EffectType
  <2>3. docs' = [docs EXCEPT ![writes[i].id] = Effect(writes[i])] \/ docs' = docs
    BY <1>1 DEF Applied
  <2> QED
    BY <2>2, <2>3 DEF EditInv
<1>4. draft' \in Text
  BY <1>1, BlankText DEF EditInv
<1>5. /\ stack' \in Seq(GoodScreen) /\ ended' \in Reasons
      /\ (ended' = "runs" <=> stack' # <<>>)
      /\ (made' = made \/ made' = made + 1) /\ made' \in Nat
      /\ \E c : EditorsKept(c)
  <2>1. CASE UNCHANGED <<stack, made, ended>>
    BY <2>1, EditorsUnchanged DEF EditInv
  <2>2. CASE /\ stack # <<>> /\ UNCHANGED <<made, ended>>
             /\ stack' = [k \in DOMAIN stack |->
                           IF stack[k].type = "list" /\ stack[k].no = writes[i].by
                           THEN [stack[k] EXCEPT !.rows = {}, !.asked = @ + 1]
                           ELSE stack[k]]
    <3>1. stack' \in Seq(GoodScreen) /\ (stack' = <<>> <=> stack = <<>>) /\ EditorsKept(0)
      BY <2>2, DeletionShown
    <3> QED
      BY <2>2, <3>1 DEF EditInv
  <2>3. CASE stack # <<>> /\ ShowsList(writes[i].by)
    BY <2>3, SaveShown
  <2> QED
    BY <1>1, <2>1, <2>2, <2>3
<1>6. UNCHANGED <<sticky, kind, premium, new, strayed>>
  BY <1>1
<1>7. EditInv'
  BY <1>2, <1>3, <1>4, <1>5, <1>6 DEF EditInv
<1> QED
  BY <1>2, <1>5, <1>6, <1>7 DEF Keeps

-----------------------------------------------------------------------------
(* A save *)

LEMMA SaveEnds == ASSUME EditInv, SaveTapped, Ends("path") PROVE writes' = writes
<1>1. ended' = "path" /\ ended = "runs"
  BY TopEditor DEF SaveTapped, Ends
<1> QED
  BY <1>1 DEF SaveTapped

LEMMA StepSaveTapped == ASSUME EditInv, SaveTapped PROVE EditInv'
<1>1. writes' \in Seq(GoodWrite) /\ Len(writes') <= MaxWrites
  BY SaveTappedWrites
<1>2. CASE Ends("path")
  <2>1. /\ stack' \in Seq(GoodScreen) /\ stack' = <<>> /\ ended' \in Reasons /\ ended' # "runs"
    BY <1>2, Ended DEF Reasons
  <2> QED
    BY <1>1, <2>1 DEF SaveTapped, EditInv
<1>3. CASE ~Ends("path")
  <2>1. PICK s \in GoodScreen : stack' = [stack EXCEPT ![Len(stack)] = s]
    BY <1>3, SaveTappedTop
  <2>2. stack # <<>> /\ Len(stack) \in DOMAIN stack /\ ended = "runs"
    BY TopEditor DEF SaveTapped
  <2>3. stack' \in Seq(GoodScreen) /\ stack' # <<>>
    BY <2>1, <2>2, Changed
  <2>4. ended' = ended
    BY <1>3 DEF SaveTapped
  <2> QED
    BY <1>1, <2>2, <2>3, <2>4 DEF SaveTapped, EditInv
<1> QED
  BY <1>2, <1>3

-----------------------------------------------------------------------------
(* The types, and what an editing replaces *)

LEMMA EditInit == Init => EditInv
<1> SUFFICES ASSUME Init PROVE EditInv
  OBVIOUS
<1>1. docs \in [Ids -> Doc \cup {Gone}]
  <2>1. PICK n \in 0..Rows : \E dated \in 0..n :
          docs = [i \in Ids |-> IF i > n THEN Gone ELSE
                    [of |-> i, text |-> [name |-> i, dob |-> IF i <= dated THEN i ELSE 0]]]
    BY DEF Init
  <2>2. PICK dated \in 0..n :
          docs = [i \in Ids |-> IF i > n THEN Gone ELSE
                    [of |-> i, text |-> [name |-> i, dob |-> IF i <= dated THEN i ELSE 0]]]
    BY <2>1
  <2>3. \A i \in Ids : ~(i > n) => i \in Subjects
    BY Numbers, <2>1 DEF Ids, Subjects
  <2>4. \A i \in Ids : ~(i > n) =>
          [of |-> i, text |-> [name |-> i, dob |-> IF i <= dated THEN i ELSE 0]] \in Doc
    BY <2>3 DEF Doc, Text
  <2> QED
    BY <2>2, <2>4
<1>2. writes \in Seq(GoodWrite) /\ Len(writes) <= MaxWrites
  BY Numbers, EmptySeq DEF Init
<1>3. stack \in Seq(GoodScreen) /\ stack # <<>>
  <2> DEFINE l == NewList(1)
  <2>1. l \in GoodScreen /\ stack = <<l>>
    BY NewListGood DEF Init
  <2> HIDE DEF l
  <2> QED
    BY <2>1
<1>4. /\ draft = Blank /\ sticky = FALSE /\ kind \in Kinds /\ premium \in BOOLEAN
      /\ made = 1 /\ new = 0 /\ ended = "runs" /\ strayed = FALSE
  BY DEF Init
<1>5. draft \in Text /\ made \in Nat /\ new \in 0..MaxNew /\ ended \in Reasons
  BY <1>4, BlankText, Numbers DEF Reasons
<1>6. (ended = "runs" <=> stack # <<>>) /\ sticky \in BOOLEAN /\ strayed \in BOOLEAN
  BY <1>3, <1>4
<1> QED
  BY <1>1, <1>2, <1>3, <1>4, <1>5, <1>6, Zenon DEF EditInv

LEMMA Steps ==
    ASSUME EditInv, Next, ~SaveTapped
    PROVE  EditInv' /\ Keeps
<1>1. CASE \E i \in DOMAIN stack : RowsArrive(i)
  BY <1>1, StepRowsArrive
<1>2. CASE On("list") /\ \E r \in Top.rows : RowTapped(r) \/ RowDeleted(r)
  BY <1>2, StepRowTapped, StepRowDeleted
<1>3. CASE \E type \in {"dob", "timer"} : PickerTapped(type)
  BY <1>3, StepPickerTapped
<1>4. CASE \E turned \in BOOLEAN : TimerSaved(turned)
  BY <1>4, StepTimerSaved
<1>5. CASE \E ok \in BOOLEAN : Answered(ok)
  BY <1>5, StepAnswered
<1> QED
  BY <1>1, <1>2, <1>3, <1>4, <1>5, StepPlusTapped, StepNameTyped, StepPremiumTapped,
     StepDobChosen, StepSheetClosed, StepAdDismissed, StepRelaunched DEF Next

LEMMA EditNext == EditInv /\ [Next]_vars => EditInv'
<1> SUFFICES ASSUME EditInv, [Next]_vars PROVE EditInv'
  OBVIOUS
<1>1. CASE UNCHANGED vars
  BY <1>1 DEF vars, EditInv
<1>2. CASE Next /\ SaveTapped
  BY <1>2, StepSaveTapped
<1>3. CASE Next /\ ~SaveTapped
  BY <1>3, Steps
<1> QED
  BY <1>1, <1>2, <1>3

LEMMA EditTypes == EditInv => TypeOK
<1> SUFFICES ASSUME EditInv PROVE TypeOK
  OBVIOUS
<1>1. GoodScreen \subseteq List \cup Editor \cup Picker \cup Ad /\ GoodWrite \subseteq Write
  BY DEF GoodScreen, Screen, GoodWrite
<1>2. stack \in Seq(List \cup Editor \cup Picker \cup Ad) /\ writes \in Seq(Write)
  BY <1>1, SeqMonotonic, Zenon DEF EditInv
<1> QED
  BY <1>2 DEF EditInv, TypeOK

LEMMA EditAims == EditInv => EditReplacesItsRow
  BY WriteIndices DEF EditReplacesItsRow, Aimed

\* The variables have their types: what the editors hand on by hand stays a document, a dog
\* and a mode, and no more writes are handed to Firestore than the bound.
THEOREM TypeCorrect == Spec => []TypeOK
<1>1. Spec => []EditInv
  BY EditInit, EditNext, PTL DEF Spec
<1> QED
  BY <1>1, EditTypes, PTL

\* Whatever pickers and new editors an editing goes through, with any number of documents,
\* screens and writes, and across relaunches: a save replaces the document whose row was
\* tapped, or adds one if the editing began with +.  The invariant says what each screen
\* hands on (AddDogViewController 232-262, DobViewController 72-129, ChooseTimer 161-177).
THEOREM EditReplaces == Spec => []EditReplacesItsRow
<1>1. Spec => []EditInv
  BY EditInit, EditNext, PTL DEF Spec
<1> QED
  BY <1>1, EditAims, PTL

-----------------------------------------------------------------------------
(* The lock of the editor of a dog *)

Editors == {i \in DOMAIN stack : stack[i].type = "editor"}
Saves == {k \in DOMAIN writes : writes[k].op # "delete"}

\* Editors are numbered, and an editor of a dog that has stored is locked.
LockInv ==
    /\ \A i \in Editors : stack[i].no <= made
    /\ \A i, j \in Editors : stack[i].no = stack[j].no => i = j
    /\ \A k \in Saves : writes[k].by <= made
    /\ kind = "dog" =>
         \A i \in Editors : \A k \in Saves : writes[k].by = stack[i].no => stack[i].locked
    /\ AtMostOneSavePerEditor

LEMMA EditorNo == ASSUME EditInv PROVE \A i \in Editors : stack[i].no \in Nat
  BY StackIndices, ScreenKinds DEF Editors, Editor
LEMMA SaveNo == ASSUME EditInv PROVE \A k \in Saves : writes[k].by \in Nat
  BY WriteIndices DEF Saves, Write

LEMMA LockInit == Init => LockInv
<1> SUFFICES ASSUME Init PROVE LockInv
  OBVIOUS
<1>1. DOMAIN stack = {1} /\ stack[1].type = "list" /\ DOMAIN writes = {}
  BY DEF Init, NewList
<1>2. Editors = {} /\ Saves = {}
  BY <1>1 DEF Editors, Saves
<1>3. AtMostOneSavePerEditor
  BY <1>1 DEF AtMostOneSavePerEditor
<1> QED
  BY <1>2, <1>3 DEF LockInv

\* Every action but a save.
LEMMA LockKept ==
    ASSUME EditInv, EditInv', LockInv, Keeps
    PROVE  LockInv'
<1>1. made \in Nat /\ made' \in Nat /\ made <= made' /\ kind' = kind
  BY DEF EditInv, Keeps
<1>2. PICK c : EditorsKept(c)
  BY DEF Keeps
<1>3. \A i \in Editors' :
         \/ i \in Editors /\ stack'[i].no = stack[i].no /\ stack'[i].locked = stack[i].locked
         \/ i = c /\ made' = made + 1 /\ stack'[i].no = made'
  BY <1>2 DEF EditorsKept, Editors
<1>4. \A k \in Saves' : k \in Saves /\ writes'[k].by = writes[k].by
  BY DEF Keeps, SavesKept, Saves
<1>5. \A i \in Editors : stack[i].no \in Nat /\ stack[i].no <= made
  BY EditorNo DEF LockInv
<1>6. \A k \in Saves : writes[k].by \in Nat /\ writes[k].by <= made
  BY SaveNo DEF LockInv
<1>7. \A i \in Editors' : stack'[i].no <= made'
  BY <1>1, <1>3, <1>5
<1>8. \A i, j \in Editors' : stack'[i].no = stack'[j].no => i = j
  <2>1. \A i, j \in Editors : stack[i].no = stack[j].no => i = j
    BY DEF LockInv
  <2> QED
    BY <1>1, <1>3, <1>5, <2>1
<1>9. \A k \in Saves' : writes'[k].by <= made'
  BY <1>1, <1>4, <1>6
<1>10. ASSUME kind' = "dog", NEW i \in Editors', NEW k \in Saves',
              writes'[k].by = stack'[i].no
       PROVE  stack'[i].locked
  <2>1. k \in Saves /\ writes'[k].by = writes[k].by
    BY <1>4
  <2>2. i \in Editors /\ stack'[i].no = stack[i].no /\ stack'[i].locked = stack[i].locked
    <3>1. writes[k].by \in Nat /\ writes[k].by <= made
      BY <1>6, <2>1
    <3>2. stack'[i].no # made + 1
      BY <1>1, <1>10, <2>1, <3>1
    <3> QED
      BY <1>3, <3>2
  <2> QED
    BY <1>1, <1>10, <2>1, <2>2 DEF LockInv
<1>11. AtMostOneSavePerEditor'
  BY <1>1, <1>4 DEF AtMostOneSavePerEditor, Saves, LockInv
<1> QED
  BY <1>7, <1>8, <1>9, <1>10, <1>11 DEF LockInv

\* A save: the editor had not stored before, for it was not locked, and is locked now.
LEMMA LockSaveTapped ==
    ASSUME EditInv, EditInv', LockInv, SaveTapped
    PROVE  LockInv'
<1>1. kind' = kind /\ made' = made
  BY DEF SaveTapped
<1>2. CASE Ends("path")
  <2>1. writes' = writes /\ DOMAIN stack' = {}
    BY <1>2, SaveEnds DEF Ends
  <2>2. Editors' = {} /\ Saves' = Saves
    BY <2>1 DEF Editors, Saves
  <2>3. AtMostOneSavePerEditor'
    BY <1>1, <2>1 DEF AtMostOneSavePerEditor, LockInv
  <2> QED
    BY <1>1, <2>1, <2>2, <2>3 DEF LockInv
<1>3. CASE ~Ends("path")
  <2>1. PICK s \in GoodScreen : /\ stack' = [stack EXCEPT ![Len(stack)] = s]
                                /\ s.type = "editor" /\ s.no = Top.no /\ s.locked = Locks
    BY <1>3, SaveTappedTop
  <2> DEFINE n == Len(stack)
  <2>2. /\ n \in DOMAIN stack /\ Top = stack[n] /\ n \in Editors
        /\ ~stack[n].locked
    BY TopEditor DEF SaveTapped, Editors
  <2>3. /\ DOMAIN stack' = DOMAIN stack
        /\ \A j \in DOMAIN stack : stack'[j] = IF j = n THEN s ELSE stack[j]
    BY <2>1, <2>2, Changed
  <2> HIDE DEF n
  <2>4. /\ Editors' = Editors
        /\ \A i \in Editors : /\ stack'[i].no = stack[i].no
                               /\ stack'[i].locked = IF i = n THEN Locks ELSE stack[i].locked
    BY <2>1, <2>2, <2>3 DEF Editors
  <2>5. \A i \in Editors : stack[i].no \in Nat /\ stack[i].no <= made
    BY EditorNo DEF LockInv
  <2>6. kind = "dog" => \A k \in Saves : writes[k].by # stack[n].no
    BY <2>2 DEF LockInv
  <2>7. \A k \in Saves' :
           \/ k \in Saves /\ writes'[k].by = writes[k].by
           \/ k = Len(writes) + 1 /\ k \notin DOMAIN writes /\ writes'[k].by = stack[n].no
    <3>1. Len(writes) + 1 \notin DOMAIN writes
      BY WriteIndices
    <3> QED
      BY <2>2, <3>1, SaveTappedWrites DEF Saves
  <2>8. \A i, j \in Editors : stack[i].no = stack[j].no => i = j
    BY DEF LockInv
  <2>9. \A i, j \in Editors' : stack'[i].no = stack'[j].no => i = j
    BY <2>4, <2>8
  <2>10. \A k \in Saves' : writes'[k].by <= made'
    BY <1>1, <2>2, <2>5, <2>7 DEF LockInv
  <2>11. ASSUME kind' = "dog", NEW i \in Editors', NEW k \in Saves',
                writes'[k].by = stack'[i].no
         PROVE  stack'[i].locked
    <3>1. Locks = TRUE
      BY <1>1, <2>11 DEF Locks
    <3>2. CASE i = n
      BY <2>4, <2>11, <3>1, <3>2
    <3>3. CASE i # n
      <4>1. writes'[k].by # stack[n].no
        BY <2>2, <2>4, <2>8, <2>11, <3>3
      <4>2. k \in Saves /\ writes'[k].by = writes[k].by
        BY <2>7, <4>1
      <4> QED
        BY <1>1, <2>4, <2>11, <3>3, <4>2 DEF LockInv
    <3> QED
      BY <3>2, <3>3
  <2>12. AtMostOneSavePerEditor'
    <3> SUFFICES ASSUME kind = "dog", NEW k \in Saves', NEW l \in Saves', k # l,
                        writes'[k].by = writes'[l].by
                 PROVE  FALSE
      <4>1. kind # "person" => kind = "dog"
        BY KindsKnown DEF EditInv
      <4> QED
        BY <1>1, <4>1 DEF AtMostOneSavePerEditor, Saves
    <3>1. CASE /\ k \in Saves /\ l \in Saves
               /\ writes'[k].by = writes[k].by /\ writes'[l].by = writes[l].by
      BY <3>1 DEF LockInv, AtMostOneSavePerEditor, Saves
    <3> QED
      BY <2>6, <2>7, <3>1
  <2>13. \A i \in Editors' : stack'[i].no <= made'
    BY <1>1, <2>4, <2>5
  <2> QED
    BY <2>9, <2>10, <2>11, <2>12, <2>13 DEF LockInv
<1> QED
  BY <1>2, <1>3

LEMMA LockNext == EditInv /\ EditInv' /\ LockInv /\ [Next]_vars => LockInv'
<1> SUFFICES ASSUME EditInv, EditInv', LockInv, [Next]_vars PROVE LockInv'
  OBVIOUS
<1>1. CASE UNCHANGED vars
  BY <1>1 DEF vars, LockInv, Editors, Saves, AtMostOneSavePerEditor
<1>2. CASE Next /\ SaveTapped
  BY <1>2, LockSaveTapped
<1>3. CASE Next /\ ~SaveTapped
  BY <1>3, Steps, LockKept
<1> QED
  BY <1>1, <1>2, <1>3

\* No editor of a dog stores twice: addNew (AddDogViewController 110) is cleared with the
\* first tap that passes, a new editor has a lock of its own, and none is ever given back.
\* The invariant ties the lock to the writes: an editor that has stored is locked.
THEOREM OneSavePerEditor == Spec => []AtMostOneSavePerEditor
<1>1. Spec => []EditInv
  BY EditInit, EditNext, PTL DEF Spec
<1>2. LockInv => AtMostOneSavePerEditor
  BY DEF LockInv
<1> QED
  BY <1>1, <1>2, LockInit, LockNext, PTL DEF Spec

-----------------------------------------------------------------------------
(* The texts of a dog or person *)

Own(text, subject) == \A f \in {"name", "dob"} : text[f] \in {0, subject}
OwnScreen(s) ==
    /\ s.type = "list" => \A r \in s.rows : Own(r.text, r.of)
    /\ s.type = "editor" => Own(s.kept, s.subject) /\ Own(s.shown, s.subject)
OwnDraft(text, s) == IF s.type \in {"list", "ad"} THEN text = Blank ELSE Own(text, s.subject)

\* A picker lies on the editor it was opened from.
PickersOver ==
    \A i \in DOMAIN stack : stack[i].type \in {"dob", "timer"} =>
        /\ i - 1 \in DOMAIN stack
        /\ stack[i - 1].type = "editor" /\ stack[i - 1].subject = stack[i].subject

\* As long as nobody strayed, the draft is that of the screen on top, and empty on a list;
\* every screen, write and document has the texts of its own dog or person.
OwnWrites == \A i \in DOMAIN writes : Own(writes[i].text, writes[i].of)
OwnDocs == \A i \in Ids : docs[i] # Gone => Own(docs[i].text, docs[i].of)
OwnScreens == (\A i \in DOMAIN stack : OwnScreen(stack[i])) /\ PickersOver
OwnTop == \A i \in DOMAIN stack : i + 1 \notin DOMAIN stack => OwnDraft(draft, stack[i])
OwnInv == ~strayed => OwnWrites /\ OwnDocs /\ OwnScreens /\ OwnTop

LEMMA OwnBlank == ASSUME NEW subject PROVE Own(Blank, subject)
  BY DEF Own, Blank

LEMMA TopIsOwn ==
    ASSUME EditInv, OwnScreens, OwnTop, stack # <<>>
    PROVE  OwnScreen(Top) /\ OwnDraft(draft, Top)
<1>1. Len(stack) \in DOMAIN stack /\ Len(stack) + 1 \notin DOMAIN stack
  BY StackIndices
<1> QED
  BY <1>1 DEF OwnScreens, OwnTop, Top

LEMMA OwnPushed ==
    ASSUME EditInv, OwnScreens, NEW s \in GoodScreen, stack' = Append(stack, s),
           OwnScreen(s), OwnDraft(draft', s), s.type \notin {"dob", "timer"}
    PROVE  OwnScreens' /\ OwnTop'
<1>1. /\ DOMAIN stack' = DOMAIN stack \cup {Len(stack) + 1}
      /\ \A i \in DOMAIN stack : stack'[i] = stack[i]
      /\ stack'[Len(stack) + 1] = s
  BY Pushed
<1>2. \A i \in DOMAIN stack : i + 1 \in DOMAIN stack'
  BY <1>1, StackIndices
<1>3. PickersOver'
  BY <1>1 DEF OwnScreens, PickersOver
<1>4. OwnScreens'
  BY <1>1, <1>3 DEF OwnScreens
<1>5. OwnTop'
  BY <1>1, <1>2 DEF OwnTop
<1> QED
  BY <1>4, <1>5

\* One screen changes, or none.
LEMMA OwnChanged ==
    ASSUME EditInv, OwnScreens, NEW i \in DOMAIN stack, NEW s \in GoodScreen,
           stack' = [stack EXCEPT ![i] = s], OwnScreen(s), s.type = stack[i].type,
           s.type = "list" \/ s.subject = stack[i].subject,
           \A j \in DOMAIN stack : j + 1 \notin DOMAIN stack =>
               OwnDraft(draft', IF j = i THEN s ELSE stack[j])
    PROVE  OwnScreens' /\ OwnTop'
<1>1. /\ DOMAIN stack' = DOMAIN stack
      /\ \A j \in DOMAIN stack : stack'[j] = IF j = i THEN s ELSE stack[j]
  BY Changed
<1>2. PickersOver'
  BY <1>1 DEF OwnScreens, PickersOver
<1> QED
  BY <1>1, <1>2 DEF OwnScreens, OwnTop

LEMMA OwnTopChanged ==
    ASSUME EditInv, OwnScreens, stack # <<>>, NEW s \in GoodScreen,
           stack' = [stack EXCEPT ![Len(stack)] = s], OwnScreen(s), OwnDraft(draft', s),
           s.type = Top.type, s.subject = Top.subject
    PROVE  OwnScreens' /\ OwnTop'
<1>1. /\ Len(stack) \in DOMAIN stack
      /\ \A j \in DOMAIN stack : j + 1 \notin DOMAIN stack => j = Len(stack)
  BY StackIndices
<1> QED
  BY <1>1, OwnChanged DEF Top

LEMMA OwnEnded == ASSUME stack' = <<>> PROVE OwnScreens' /\ OwnTop'
  BY DEF OwnScreens, OwnTop, PickersOver

LEMMA OwnOverlay ==
    ASSUME NEW subject, NEW kept \in Text, Own(kept, subject), Own(draft, subject)
    PROVE  Own(Overlay(kept), subject)
<1>1. DOMAIN kept = {"name", "dob"}
  BY DEF Text
<1> QED
  BY <1>1 DEF Own, Overlay

LEMMA OwnOpened ==
    ASSUME EditInv, OwnScreens, NEW subject \in Subjects, NEW row \in {0} \cup Ids,
           NEW edit \in BOOLEAN, NEW kept \in Text, row # 0 => edit,
           OpenEditor(subject, row, edit, row, kept), Own(kept, subject), Own(draft, subject)
    PROVE  OwnScreens' /\ OwnTop'
<1> DEFINE s == [type |-> "editor", no |-> Fresh, subject |-> subject, row |-> row,
                 edit |-> EditMode(edit), doc |-> row, kept |-> kept, shown |-> draft',
                 locked |-> FALSE]
<1>1. draft' = Overlay(kept) /\ draft' \in Text
  BY OverlayText DEF OpenEditor
<1>2. Own(draft', subject)
  BY <1>1, OwnOverlay
<1>3. EditMode(edit) \in BOOLEAN /\ (edit => EditMode(edit)) /\ Fresh \in Nat
  BY EditModeKept DEF Fresh, EditInv
<1>4. s \in GoodScreen
  BY <1>1, <1>3, GoodEditor DEF Editor
<1>5. OwnScreen(s) /\ OwnDraft(draft', s)
  BY <1>2 DEF OwnScreen, OwnDraft
<1>6. s.type = "editor"
  OBVIOUS
<1>7. stack' = Append(stack, s)
  BY DEF OpenEditor, Push
<1> HIDE DEF s
<1> QED
  BY <1>4, <1>5, <1>6, <1>7, OwnPushed

\* What a query of this device sees has the texts of its own dog or person.
LEMMA OwnRows ==
    ASSUME EditInv, OwnWrites, OwnDocs
    PROVE  \A r \in RowsOf(Visible) : Own(r.text, r.of)
<1>1. \A i \in Ids : Visible[i] # Gone => Own(Visible[i].text, Visible[i].of)
  <2> SUFFICES ASSUME NEW i \in Ids, Visible[i] # Gone
               PROVE  Own(Visible[i].text, Visible[i].of)
    OBVIOUS
  <2>1. CASE QueuedFor(i) = {}
    <3>1. Visible[i] = docs[i]
      BY <2>1 DEF Visible
    <3> QED
      BY <3>1 DEF OwnDocs
  <2>2. CASE QueuedFor(i) # {}
    <3>1. QueuedFor(i) \in SUBSET (1..Len(writes)) /\ Len(writes) \in Nat
      BY WriteIndices DEF QueuedFor
    <3> DEFINE k == Max(QueuedFor(i))
    <3>2. k \in DOMAIN writes
      BY <2>2, <3>1, MaxIn, WriteIndices
    <3>3. Visible[i] = Effect(writes[k])
      BY <2>2 DEF Visible
    <3> HIDE DEF k
    <3>4. Effect(writes[k]) = [of |-> writes[k].of, text |-> writes[k].text]
      BY <3>3 DEF Effect
    <3> QED
      BY <3>2, <3>3, <3>4 DEF OwnWrites
  <2> QED
    BY <2>1, <2>2
<1> HIDE DEF Visible
<1> QED
  BY <1>1 DEF RowsOf

-----------------------------------------------------------------------------
(* The steps keep them *)

Owned == OwnWrites /\ OwnDocs /\ OwnScreens /\ OwnTop

LEMMA OwnSame ==
    /\ OwnWrites /\ writes' = writes => OwnWrites'
    /\ OwnDocs /\ docs' = docs => OwnDocs'
    /\ OwnScreens /\ OwnTop /\ UNCHANGED <<stack, draft>> => OwnScreens' /\ OwnTop'
  BY DEF OwnWrites, OwnDocs, OwnScreens, OwnTop, PickersOver

LEMMA OwnHanded ==
    ASSUME EditInv, OwnWrites, NEW op, NEW id, NEW of \in Subjects, NEW text \in Text,
           NEW by, NEW row, Hand(op, id, of, text, by, row), Own(text, of)
    PROVE  OwnWrites'
<1> DEFINE w == [op |-> op, id |-> id, of |-> of, text |-> text, by |-> by, row |-> row,
                 status |-> "queued", handled |-> FALSE]
<1>1. writes' = Append(writes, w) /\ w.of = of /\ w.text = text
  BY DEF Hand
<1>2. DOMAIN writes = 1..Len(writes) /\ Len(writes) \in Nat
  BY WriteIndices
<1> HIDE DEF w
<1>3. \A i \in DOMAIN writes' : i \in DOMAIN writes \/ i = Len(writes) + 1
  BY <1>1, <1>2
<1>4. /\ \A i \in DOMAIN writes : writes'[i] = writes[i]
      /\ writes'[Len(writes) + 1] = w
  BY <1>1, <1>2
<1> QED
  BY <1>1, <1>3, <1>4 DEF OwnWrites

\* Rows that arrive have their own texts, be they those of the server or of the list before.
LEMMA OwnRowsArrive ==
    ASSUME EditInv, Owned, NEW i \in DOMAIN stack, RowsArrive(i)
    PROVE  OwnScreens' /\ OwnTop'
<1>1. stack[i] \in List /\ stack[i].asked > 0
  BY StackIndices, ScreenKinds DEF RowsArrive
<1>2. PICK rows \in {RowsOf(Visible), stack[i].rows} :
        stack' = [stack EXCEPT ![i].asked = @ - 1, ![i].rows = rows,
                      ![i].enabled = Enabled(rows, @)]
  BY DEF RowsArrive
<1> DEFINE s == [stack[i] EXCEPT !.asked = @ - 1, !.rows = rows,
                                 !.enabled = Enabled(rows, @)]
<1>3. stack' = [stack EXCEPT ![i] = s] /\ draft' = draft
  BY <1>2 DEF RowsArrive
<1>4. /\ s.type = "list" /\ stack[i].type = "list" /\ s.rows = rows
      /\ DOMAIN s = DOMAIN stack[i]
  BY <1>1 DEF List
<1>5. PICK t \in List : stack' = [stack EXCEPT ![i] = t]
  BY ListFilled
<1>6. t = s
  BY <1>3, <1>5
<1> HIDE DEF s
<1>7. \A r \in rows : Own(r.text, r.of)
  <2>1. CASE rows = RowsOf(Visible)
    BY <2>1, OwnRows DEF Owned
  <2>2. CASE rows = stack[i].rows
    BY <1>4, <2>2 DEF Owned, OwnScreens, OwnScreen
  <2> QED
    BY <2>1, <2>2
<1>8. OwnScreen(s)
  BY <1>4, <1>7 DEF OwnScreen
<1>9. \A j \in DOMAIN stack : j + 1 \notin DOMAIN stack =>
         OwnDraft(draft', IF j = i THEN s ELSE stack[j])
  BY <1>3, <1>4 DEF Owned, OwnTop, OwnDraft
<1>10. s \in GoodScreen
  BY <1>5, <1>6, GoodList
<1> QED
  BY <1>3, <1>4, <1>8, <1>9, <1>10, OwnChanged DEF Owned

LEMMA OwnRowTapped ==
    ASSUME EditInv, Owned, NEW r \in Top.rows, RowTapped(r)
    PROVE  OwnScreens' /\ OwnTop'
<1>1. r.id \in Ids /\ r.of \in Subjects /\ r.text \in Text
  BY TopRow DEF RowTapped
<1>2. OwnScreen(Top) /\ OwnDraft(draft, Top) /\ Top.type = "list"
  BY TopIsOwn DEF RowTapped, On, Owned
<1>3. Own(r.text, r.of) /\ Own(draft, r.of)
  BY <1>2, OwnBlank DEF OwnScreen, OwnDraft
<1> QED
  BY <1>1, <1>3, OwnOpened DEF RowTapped, Owned

LEMMA OwnPlusTapped ==
    ASSUME EditInv, Owned, PlusTapped
    PROVE  OwnScreens' /\ OwnTop'
<1>1. Rows + new + 1 \in Subjects
  BY Numbers DEF PlusTapped, EditInv, Subjects
<1>2. draft = Blank
  BY TopIsOwn DEF PlusTapped, On, Owned, OwnDraft
<1> QED
  BY <1>1, <1>2, OwnBlank, BlankText, OwnOpened DEF PlusTapped, Owned

LEMMA OwnRowDeleted ==
    ASSUME EditInv, Owned, NEW r \in Top.rows, RowDeleted(r)
    PROVE  OwnWrites'
<1>1. r.of \in Subjects
  BY TopRow DEF RowDeleted
<1> QED
  BY <1>1, BlankText, OwnBlank, OwnHanded DEF RowDeleted, Owned

LEMMA OwnEditor ==
    ASSUME EditInv, Owned, On("editor")
    PROVE  /\ Top \in Editor /\ stack # <<>> /\ Top = stack[Len(stack)]
           /\ Top.kept \in Text /\ Top.shown \in Text /\ Top.subject \in Subjects
           /\ Own(Top.kept, Top.subject) /\ Own(Top.shown, Top.subject)
           /\ Own(draft, Top.subject)
  BY TopEditor, TopIsOwn DEF Owned, OwnScreen, OwnDraft, Editor

\* An editor that shows and keeps its own is as it should be.
LEMMA OwnEdited ==
    ASSUME EditInv, NEW e \in Editor, NEW kept, NEW shown, NEW edit, NEW locked,
           Own(kept, e.subject), Own(shown, e.subject), Own(draft', e.subject)
    PROVE  LET s == Edited(e, kept, shown, edit, locked)
           IN  /\ OwnScreen(s) /\ OwnDraft(draft', s)
               /\ s.type = e.type /\ s.subject = e.subject
  BY DEF OwnScreen, OwnDraft, Edited, Editor

LEMMA OwnNameTyped ==
    ASSUME EditInv, Owned, NameTyped
    PROVE  OwnScreens' /\ OwnTop'
<1>1. /\ Top \in Editor /\ stack # <<>> /\ Top = stack[Len(stack)]
      /\ Top.shown \in Text
      /\ Own(Top.kept, Top.subject) /\ Own(Top.shown, Top.subject)
      /\ Own(draft, Top.subject)
  BY OwnEditor DEF NameTyped
<1> DEFINE shown == [Top.shown EXCEPT !["name"] = Top.subject]
           s == Edited(Top, Top.kept, shown, Top.edit, Top.locked)
<1>2. Own(shown, Top.subject) /\ draft' = draft
  BY <1>1 DEF Own, Text, NameTyped
<1>3. stack' = [stack EXCEPT ![Len(stack)] = s]
  <2>1. s = [Top EXCEPT !.shown = shown]
    BY <1>1 DEF Editor, Edited
  <2>2. stack' = [stack EXCEPT ![Len(stack)].shown["name"] = Top.subject]
    BY DEF NameTyped
  <2> QED
    BY <1>1, <2>1, <2>2
<1>4. OwnScreen(s) /\ OwnDraft(draft', s) /\ s.type = Top.type /\ s.subject = Top.subject
  BY <1>1, <1>2, OwnEdited
<1>5. PICK t \in GoodScreen : stack' = [stack EXCEPT ![Len(stack)] = t]
  BY NameTypedTop
<1>6. Len(stack) \in DOMAIN stack
  BY <1>1, StackIndices
<1> HIDE DEF s
<1>7. t = s
  BY <1>3, <1>5, <1>6
<1> QED
  BY <1>1, <1>3, <1>4, <1>5, <1>7, OwnTopChanged DEF Owned

LEMMA OwnPremiumTapped ==
    ASSUME EditInv, Owned, PremiumTapped
    PROVE  OwnScreens' /\ OwnTop'
<1>1. /\ Top \in Editor /\ stack # <<>> /\ Top = stack[Len(stack)]
      /\ Top.kept \in Text
      /\ Own(Top.kept, Top.subject) /\ Own(draft, Top.subject)
  BY OwnEditor DEF PremiumTapped
<1> DEFINE text == Overlay(Top.kept)
           edit == EditMode(Top.edit)
           s == Edited(Top, Top.kept, text, edit, Top.locked)
<1>2. Own(text, Top.subject) /\ draft' = text
  BY <1>1, OwnOverlay DEF PremiumTapped
<1>3. stack' = [stack EXCEPT ![Len(stack)] = s]
  <2>1. s = [Top EXCEPT !.shown = text, !.edit = edit]
    BY <1>1 DEF Editor, Edited
  <2>2. stack' = [stack EXCEPT ![Len(stack)].shown = text, ![Len(stack)].edit = edit]
    BY DEF PremiumTapped
  <2> HIDE DEF text, edit
  <2> QED
    BY <1>1, <2>1, <2>2
<1>4. OwnScreen(s) /\ OwnDraft(draft', s) /\ s.type = Top.type /\ s.subject = Top.subject
  BY <1>1, <1>2, OwnEdited
<1>5. PICK t \in GoodScreen : stack' = [stack EXCEPT ![Len(stack)] = t]
  BY PremiumTappedTop
<1>6. Len(stack) \in DOMAIN stack
  BY <1>1, StackIndices
<1> HIDE DEF s
<1>7. t = s
  BY <1>3, <1>5, <1>6
<1> QED
  BY <1>1, <1>3, <1>4, <1>5, <1>7, OwnTopChanged DEF Owned

LEMMA OwnPickerTapped ==
    ASSUME EditInv, Owned, NEW type \in {"dob", "timer"}, PickerTapped(type)
    PROVE  OwnScreens' /\ OwnTop'
<1>1. /\ stack # <<>> /\ Top.shown \in Text
      /\ Own(Top.shown, Top.subject) /\ Own(draft, Top.subject)
  BY OwnEditor DEF PickerTapped
<1>2. PICK s, p \in GoodScreen :
        /\ stack' = Append([stack EXCEPT ![Len(stack)] = s], p)
        /\ s.type = "editor" /\ s.kept = Top.shown /\ s.shown = draft'
        /\ s.subject = Top.subject
        /\ p.type = type /\ p.subject = Top.subject
  BY PickerTappedTop
<1>3. Own(draft', Top.subject)
  BY <1>1, PickerTappedTop, OwnOverlay
<1>4. OwnScreen(s) /\ OwnScreen(p) /\ OwnDraft(draft', p)
  BY <1>1, <1>2, <1>3 DEF OwnScreen, OwnDraft
<1>5. /\ DOMAIN stack' = DOMAIN stack \cup {Len(stack) + 1}
      /\ \A j \in DOMAIN stack : stack'[j] = IF j = Len(stack) THEN s ELSE stack[j]
      /\ stack'[Len(stack) + 1] = p
  BY <1>1, <1>2, PickerStack
<1>6. \A j \in DOMAIN stack : j + 1 \in DOMAIN stack'
  BY <1>5, StackIndices
<1>7. PickersOver'
  <2>1. Top.type = "editor" /\ Top = stack[Len(stack)] /\ Len(stack) \in DOMAIN stack
        /\ Len(stack) \in Nat
    BY <1>1, StackIndices DEF PickerTapped, On, Top
  <2>2. \A j \in DOMAIN stack : stack'[j].type = stack[j].type
    BY <1>2, <1>5, <2>1
  <2>3. \A j \in DOMAIN stack : stack[j].type = "editor" => stack'[j].subject = stack[j].subject
    BY <1>2, <1>5, <2>1
  <2>4. PickersOver
    BY DEF Owned, OwnScreens
  <2>5. \A j \in DOMAIN stack : stack[j].type \in {"dob", "timer"} => stack'[j] = stack[j]
    BY <1>5, <2>1
  <2>6. ASSUME NEW j \in DOMAIN stack', stack'[j].type \in {"dob", "timer"}
        PROVE  /\ j - 1 \in DOMAIN stack'
               /\ stack'[j - 1].type = "editor" /\ stack'[j - 1].subject = stack'[j].subject
    <3>1. CASE j \in DOMAIN stack
      BY <1>5, <2>2, <2>3, <2>4, <2>5, <2>6, <3>1 DEF PickersOver
    <3>2. CASE j = Len(stack) + 1
      BY <1>2, <1>5, <2>1, <3>2
    <3> QED
      BY <1>5, <3>1, <3>2
  <2> QED
    BY <2>6 DEF PickersOver
<1>8. OwnScreens'
  BY <1>4, <1>5, <1>7 DEF Owned, OwnScreens
<1>9. OwnTop'
  BY <1>4, <1>5, <1>6 DEF OwnTop
<1> QED
  BY <1>8, <1>9

LEMMA OwnPicker ==
    ASSUME EditInv, Owned, NEW type \in {"dob", "timer"}, On(type)
    PROVE  Own(draft, Top.subject)
  BY TopIsOwn DEF On, Owned, OwnDraft

LEMMA OwnDobChosen ==
    ASSUME EditInv, Owned, DobChosen
    PROVE  OwnScreens' /\ OwnTop'
<1>1. /\ Top.subject \in Subjects /\ Top.row \in {0} \cup Ids /\ Top.edit \in BOOLEAN
      /\ Top.doc = Top.row /\ (Top.row # 0 => Top.edit)
  BY TopPicker DEF DobChosen
<1> DEFINE kept == [Blank EXCEPT !["dob"] = Top.subject]
<1>2. kept \in Text /\ Own(kept, Top.subject)
  BY <1>1 DEF Text, Blank, Own
<1>3. Own(draft, Top.subject)
  BY OwnPicker DEF DobChosen
<1>4. OpenEditor(Top.subject, Top.row, Top.edit, Top.row, kept)
  BY <1>1 DEF DobChosen
<1> HIDE DEF kept
<1> QED
  BY <1>1, <1>2, <1>3, <1>4, OwnOpened DEF Owned

LEMMA OwnTimerSaved ==
    ASSUME EditInv, Owned, NEW turned \in BOOLEAN, TimerSaved(turned)
    PROVE  OwnScreens' /\ OwnTop'
<1>1. /\ Top.subject \in Subjects /\ Top.row \in {0} \cup Ids /\ Top.edit \in BOOLEAN
      /\ Top.doc = Top.row /\ (Top.row # 0 => Top.edit)
  BY TopPicker DEF TimerSaved
<1>2. Own(draft, Top.subject)
  BY OwnPicker DEF TimerSaved
<1>3. CASE stack' = <<>>
  BY <1>3, OwnEnded
<1>4. CASE stack' # <<>>
  <2>1. OpenEditor(Top.subject, Top.row, Top.edit, Top.row, Blank)
    BY <1>1, <1>4 DEF TimerSaved, Ends
  <2> QED
    BY <1>1, <1>2, <2>1, BlankText, OwnBlank, OwnOpened DEF Owned
<1> QED
  BY <1>3, <1>4

\* What a save hands over is what its editor shows.
LEMMA OwnSaveTapped ==
    ASSUME EditInv, Owned, SaveTapped
    PROVE  OwnWrites' /\ OwnScreens' /\ OwnTop'
<1>1. /\ Top \in Editor /\ stack # <<>> /\ Top = stack[Len(stack)]
      /\ Top.shown \in Text /\ Top.subject \in Subjects
      /\ Own(Top.kept, Top.subject) /\ Own(Top.shown, Top.subject)
      /\ Own(draft, Top.subject)
  BY OwnEditor DEF SaveTapped
<1>2. OwnWrites'
  <2>1. CASE writes' = writes
    BY <2>1, OwnSame DEF Owned
  <2>2. CASE writes' # writes
    <3>1. Hand(IF Top.edit THEN "set" ELSE "add", IF Top.edit THEN Top.doc ELSE NewId,
               Top.subject, Top.shown, Top.no, Top.row)
      BY <2>2 DEF SaveTapped
    <3> QED
      BY <1>1, <3>1, OwnHanded DEF Owned
  <2> QED
    BY <2>1, <2>2
<1>3. CASE Ends("path")
  BY <1>2, <1>3, OwnEnded DEF Ends
<1>4. CASE ~Ends("path")
  <2> DEFINE s == Edited(Top, Top.kept, Top.shown, Top.edit, Locks)
  <2>1. stack' = [stack EXCEPT ![Len(stack)] = s]
    <3>1. s = [Top EXCEPT !.locked = Locks]
      BY <1>1 DEF Editor, Edited
    <3>2. stack' = [stack EXCEPT ![Len(stack)].locked = Locks]
      BY <1>4 DEF SaveTapped
    <3> QED
      BY <1>1, <3>1, <3>2
  <2>2. draft' = draft
    BY DEF SaveTapped
  <2>3. OwnScreen(s) /\ OwnDraft(draft', s) /\ s.type = Top.type /\ s.subject = Top.subject
    BY <1>1, <2>2, OwnEdited
  <2>4. PICK t \in GoodScreen : stack' = [stack EXCEPT ![Len(stack)] = t]
    BY <1>4, SaveTappedTop
  <2>5. Len(stack) \in DOMAIN stack
    BY <1>1, StackIndices
  <2> HIDE DEF s
  <2>6. t = s
    BY <2>1, <2>4, <2>5
  <2> QED
    BY <1>1, <1>2, <2>1, <2>3, <2>4, <2>6, OwnTopChanged DEF Owned
<1> QED
  BY <1>3, <1>4

\* A new list comes up over an empty draft.
LEMMA OwnNewList ==
    ASSUME NEW no \in Nat
    PROVE  OwnScreen(NewList(no)) /\ OwnDraft(Blank, NewList(no))
  BY DEF OwnScreen, OwnDraft, NewList

LEMMA OwnAdDismissed ==
    ASSUME EditInv, Owned, AdDismissed
    PROVE  OwnScreens' /\ OwnTop'
<1>1. stack # <<>> /\ Top.type = "ad"
  BY DEF AdDismissed, On
<1>2. draft' = Blank
  BY <1>1, TopIsOwn DEF Owned, OwnDraft, AdDismissed
<1>3. CASE kind = "dog"
  BY <1>3, OwnEnded DEF AdDismissed, Ends
<1>4. CASE kind # "dog"
  <2> DEFINE l == NewList(Fresh)
  <2>1. stack' = Append(Front(stack), l)
    BY <1>4 DEF AdDismissed
  <2>2. l \in GoodScreen /\ OwnScreen(l) /\ OwnDraft(Blank, l)
    BY NewListGood, OwnNewList DEF EditInv, Fresh
  <2>3. PICK q : q = Front(stack)
    OBVIOUS
  <2>4. /\ q \in Seq(GoodScreen) /\ DOMAIN q \subseteq DOMAIN stack
        /\ \A i \in DOMAIN q : q[i] = stack[i]
    BY <1>1, <2>3, Popped
  <2>5. PICK r : r = stack'
    OBVIOUS
  <2> HIDE DEF l
  <2>6. r = Append(q, l)
    BY <2>1, <2>3, <2>5, Zenon
  <2>7. /\ DOMAIN r = DOMAIN q \cup {Len(q) + 1}
        /\ \A i \in DOMAIN q : r[i] = q[i]
        /\ r[Len(q) + 1] = l
    BY <2>2, <2>4, <2>6, OneMore
  <2>8. \A i \in DOMAIN q : i + 1 \in DOMAIN r
    BY <2>4, <2>7, LenProperties
  <2>9. PickersOver'
    <3>1. l.type = "list"
      BY DEF l, NewList
    <3>2. \A i \in DOMAIN q : i - 1 \in DOMAIN stack => i - 1 \in DOMAIN q
      BY <2>4, LenProperties, StackIndices
    <3> QED
      BY <2>4, <2>5, <2>7, <3>1, <3>2 DEF Owned, OwnScreens, PickersOver
  <2>10. OwnScreens'
    BY <2>2, <2>4, <2>5, <2>7, <2>9 DEF Owned, OwnScreens
  <2>11. OwnTop'
    BY <1>2, <2>2, <2>5, <2>7, <2>8 DEF OwnTop
  <2> QED
    BY <2>10, <2>11
<1> QED
  BY <1>3, <1>4

LEMMA OwnAnswered ==
    ASSUME EditInv, Owned, NEW ok \in BOOLEAN, Answered(ok)
    PROVE  Owned'
<1>1. PICK i \in DOMAIN writes :
        LET w == writes[i]
            here == ~w.handled /\ stack # <<>>
        IN  /\ writes' = [writes EXCEPT ![i].status = IF ok THEN "done" ELSE "refused",
                                        ![i].handled = TRUE]
            /\ docs' = IF ok THEN Applied(docs, w) ELSE docs
            /\ draft' = IF here /\ Cleared(w, ok) THEN Blank ELSE draft
            /\ IF ~here \/ ~ok THEN UNCHANGED <<stack, made, ended>>
               ELSE IF w.op = "delete"
               THEN /\ stack' = [k \in DOMAIN stack |->
                           IF stack[k].type = "list" /\ stack[k].no = w.by
                           THEN [stack[k] EXCEPT !.rows = {}, !.asked = @ + 1]
                           ELSE stack[k]]
                    /\ UNCHANGED <<made, ended>>
               ELSE ShowsList(w.by)
  BY Zenon DEF Answered
<1>2. OwnWrites'
  <2>1. \A j \in DOMAIN writes : writes[j] \in Write
    BY WriteIndices
  <2>2. DOMAIN writes' = DOMAIN writes
    BY <1>1
  <2>3. \A j \in DOMAIN writes : writes'[j].text = writes[j].text /\ writes'[j].of = writes[j].of
    BY <1>1, <2>1 DEF Write
  <2> QED
    BY <2>2, <2>3 DEF Owned, OwnWrites
<1>3. OwnDocs'
  <2>1. docs' = [docs EXCEPT ![writes[i].id] = Effect(writes[i])] \/ docs' = docs
    BY <1>1 DEF Applied
  <2>2. Effect(writes[i]) # Gone => Own(Effect(writes[i]).text, Effect(writes[i]).of)
    BY DEF Effect, Owned, OwnWrites
  <2>3. docs \in [Ids -> Doc \cup {Gone}]
    BY DEF EditInv
  <2> QED
    BY <2>1, <2>2, <2>3 DEF Owned, OwnDocs
<1>4. draft' \in {Blank, draft}
  BY <1>1
<1>5. \A s : OwnDraft(Blank, s)
  BY OwnBlank DEF OwnDraft
<1>6. CASE stack' = stack
  BY <1>2, <1>3, <1>4, <1>5, <1>6 DEF Owned, OwnScreens, OwnTop, PickersOver
<1>7. CASE stack' = [k \in DOMAIN stack |->
                        IF stack[k].type = "list" /\ stack[k].no = writes[i].by
                        THEN [stack[k] EXCEPT !.rows = {}, !.asked = @ + 1]
                        ELSE stack[k]]
  <2>1. DOMAIN stack' = DOMAIN stack
    BY <1>7
  <2>2. \A k \in DOMAIN stack :
           \/ stack'[k] = stack[k]
           \/ /\ stack[k].type = "list" /\ stack'[k].type = "list" /\ stack'[k].rows = {}
    <3> SUFFICES ASSUME NEW k \in DOMAIN stack, stack[k].type = "list",
                        stack'[k] = [stack[k] EXCEPT !.rows = {}, !.asked = @ + 1]
                 PROVE  stack'[k].type = "list" /\ stack'[k].rows = {}
      BY <1>7
    <3>1. stack[k] \in List
      BY StackIndices, ScreenKinds
    <3> QED
      BY <3>1 DEF List
  <2>3. PickersOver'
    BY <2>1, <2>2 DEF Owned, OwnScreens, PickersOver
  <2>4. OwnScreens'
    BY <2>1, <2>2, <2>3 DEF Owned, OwnScreens, OwnScreen
  <2>5. OwnTop'
    BY <1>4, <1>5, <2>1, <2>2 DEF Owned, OwnTop, OwnDraft
  <2> QED
    BY <1>2, <1>3, <2>4, <2>5 DEF Owned
<1>8. CASE stack # <<>> /\ ok /\ writes[i].op # "delete" /\ ShowsList(writes[i].by)
           /\ ~writes[i].handled
  <2>1. draft' = Blank
    BY <1>1, <1>8 DEF Cleared
  <2>2. CASE stack' = stack
    BY <1>6, <2>2
  <2>3. CASE stack' = <<>>
    BY <1>2, <1>3, <2>3, OwnEnded DEF Owned
  <2>4. CASE Push(NewList(Fresh))
    <3>1. NewList(Fresh) \in GoodScreen /\ OwnScreen(NewList(Fresh))
          /\ NewList(Fresh).type = "list"
      BY NewListGood, OwnNewList DEF EditInv, Fresh, NewList
    <3> QED
      BY <1>2, <1>3, <1>5, <2>1, <2>4, <3>1, OwnPushed DEF Push, Owned
  <2>5. CASE Push([type |-> "ad"])
    <3>1. [type |-> "ad"] \in GoodScreen /\ OwnScreen([type |-> "ad"])
      BY GoodAd DEF OwnScreen
    <3> QED
      BY <1>2, <1>3, <1>5, <2>1, <2>5, <3>1, OwnPushed DEF Push, Owned
  <2> QED
    BY <1>8, <2>2, <2>3, <2>4, <2>5 DEF ShowsList, Ends
<1> QED
  BY <1>1, <1>2, <1>3, <1>6, <1>7, <1>8 DEF Owned

LEMMA OwnInit == Init => OwnInv
<1> SUFFICES ASSUME Init PROVE Owned
  BY DEF OwnInv, Owned
<1>1. writes = <<>> /\ stack = <<NewList(1)>> /\ draft = Blank
  BY DEF Init
<1>2. OwnWrites
  BY <1>1 DEF OwnWrites
<1>3. OwnDocs
  <2>1. PICK n \in 0..Rows : \E dated \in 0..n :
          docs = [i \in Ids |-> IF i > n THEN Gone ELSE
                    [of |-> i, text |-> [name |-> i, dob |-> IF i <= dated THEN i ELSE 0]]]
    BY DEF Init
  <2> QED
    BY <2>1 DEF OwnDocs, Own
<1>4. DOMAIN stack = {1} /\ stack[1] = NewList(1)
  BY <1>1
<1>5. OwnScreens /\ OwnTop
  BY <1>1, <1>4, OwnNewList DEF OwnScreens, OwnTop, PickersOver, NewList
<1> QED
  BY <1>2, <1>3, <1>5 DEF Owned

\* A sheet that is closed without straying leaves an empty draft, or an editor its own.
LEMMA OwnSheetClosed ==
    ASSUME EditInv, Owned, SheetClosed, ~strayed'
    PROVE  OwnScreens' /\ OwnTop'
<1>1. stack # <<>> /\ Len(stack) > 1
  BY EmptySeq DEF SheetClosed
<1>2. PICK q : q = stack'
  OBVIOUS
<1>3. /\ q \in Seq(GoodScreen) /\ Len(q) = Len(stack) - 1 /\ DOMAIN q = 1..Len(q)
      /\ DOMAIN q \subseteq DOMAIN stack
      /\ \A i \in DOMAIN q : q[i] = stack[i]
  BY <1>1, <1>2, Popped, LenProperties DEF SheetClosed
<1>4. DOMAIN stack = 1..Len(stack) /\ Len(stack) \in Nat
  BY StackIndices
<1>5. PickersOver /\ OwnScreen(Top) /\ OwnDraft(draft, Top) /\ Top = stack[Len(stack)]
  BY <1>1, TopIsOwn DEF Owned, OwnScreens, Top
<1>6. PickersOver'
  <2>1. \A i \in DOMAIN q : i - 1 \in DOMAIN stack => i - 1 \in DOMAIN q
    BY <1>3, <1>4
  <2> QED
    BY <1>2, <1>3, <1>5, <2>1 DEF PickersOver
<1>7. OwnScreens'
  BY <1>2, <1>3, <1>6 DEF Owned, OwnScreens
<1>8. draft' = draft
  BY DEF SheetClosed
<1>9. CASE draft = Blank
  BY <1>8, <1>9, <1>7, OwnBlank DEF OwnTop, OwnDraft
<1>10. CASE draft # Blank
  <2>1. Top.type \notin {"editor", "list", "ad"}
    BY <1>5, <1>10 DEF SheetClosed, OwnDraft
  <2>2. Top.type \in {"dob", "timer"}
    <3>1. Top \in Screen
      BY <1>1, StackIndices DEF GoodScreen
    <3> QED
      BY <2>1, <3>1 DEF Screen, List, Editor, Picker, Ad
  <2>3. /\ stack[Len(stack) - 1].type = "editor"
        /\ stack[Len(stack) - 1].subject = Top.subject
    <3>1. PICK n \in DOMAIN stack : n = Len(stack)
      BY <1>1, <1>4
    <3>2. stack[n].type \in {"dob", "timer"} /\ stack[n] = Top
      BY <1>5, <2>2, <3>1
    <3>3. stack[n - 1].type = "editor" /\ stack[n - 1].subject = stack[n].subject
      BY <1>5, <3>1, <3>2, Zenon DEF PickersOver
    <3> QED
      BY <3>1, <3>2, <3>3
  <2>4. Own(draft, Top.subject)
    BY <1>5, <2>2 DEF OwnDraft
  <2>5. OwnDraft(draft, stack[Len(stack) - 1])
    BY <2>3, <2>4 DEF OwnDraft
  <2>6. \A i \in DOMAIN q : i + 1 \notin DOMAIN q => i = Len(stack) - 1
    BY <1>3, <1>4
  <2>7. OwnTop'
    BY <1>2, <1>3, <1>8, <2>5, <2>6 DEF OwnTop
  <2> QED
    BY <1>7, <2>7
<1> QED
  BY <1>9, <1>10

\* A new process starts on a list, over an empty draft if it did not stray.
LEMMA OwnRelaunched ==
    ASSUME EditInv, Owned, Relaunched, ~strayed'
    PROVE  Owned'
<1>1. draft' = Blank /\ docs' = docs
  BY DEF Relaunched
<1>2. OwnWrites'
  <2>1. \A i \in DOMAIN writes : writes[i] \in Write
    BY WriteIndices
  <2>2. writes' = [i \in DOMAIN writes |-> [writes[i] EXCEPT !.handled = TRUE]]
    BY DEF Relaunched
  <2>3. \A i \in DOMAIN writes : writes'[i].text = writes[i].text /\ writes'[i].of = writes[i].of
    BY <2>1, <2>2 DEF Write
  <2>4. DOMAIN writes' = DOMAIN writes
    BY <2>2
  <2> QED
    BY <2>3, <2>4 DEF Owned, OwnWrites
<1>3. PICK l : l = NewList(Fresh)
  OBVIOUS
<1>4. l.type = "list" /\ l.rows = {}
  BY <1>3 DEF NewList
<1>5. DOMAIN stack' = {1} /\ stack'[1] = l
  BY <1>3 DEF Relaunched
<1>6. OwnScreens' /\ OwnTop'
  BY <1>1, <1>4, <1>5 DEF OwnScreens, OwnScreen, OwnTop, OwnDraft, PickersOver
<1> QED
  BY <1>1, <1>2, <1>6, OwnSame DEF Owned

\* Whoever strayed has strayed for good.
LEMMA StraysLast == ASSUME Next, ~strayed' PROVE ~strayed
<1>1. CASE \E i \in DOMAIN stack : RowsArrive(i)
  BY <1>1 DEF RowsArrive
<1>2. CASE On("list") /\ \E r \in Top.rows : RowTapped(r) \/ RowDeleted(r)
  <2>1. strayed' = strayed
    BY <1>2, Zenon DEF RowTapped, RowDeleted
  <2> QED
    BY <2>1
<1>3. CASE \E type \in {"dob", "timer"} : PickerTapped(type)
  BY <1>3 DEF PickerTapped
<1>4. CASE \E turned \in BOOLEAN : TimerSaved(turned)
  BY <1>4 DEF TimerSaved
<1>5. CASE \E ok \in BOOLEAN : Answered(ok)
  <2>1. PICK ok \in BOOLEAN : Answered(ok)
    BY <1>5
  <2>2. strayed' = strayed
    BY <2>1, Zenon DEF Answered
  <2> QED
    BY <2>2
<1>6. CASE PlusTapped
  BY <1>6 DEF PlusTapped
<1>7. CASE NameTyped \/ SaveTapped \/ PremiumTapped \/ DobChosen \/ AdDismissed
  <2>1. strayed' = strayed
    BY <1>7, Zenon DEF NameTyped, SaveTapped, PremiumTapped, DobChosen, AdDismissed
  <2> QED
    BY <2>1
<1>8. CASE SheetClosed \/ Relaunched
  BY <1>8, Zenon DEF SheetClosed, Relaunched
<1> QED
  BY <1>1, <1>2, <1>3, <1>4, <1>5, <1>6, <1>7, <1>8 DEF Next

LEMMA OwnNext == EditInv /\ OwnInv /\ [Next]_vars => OwnInv'
<1> SUFFICES ASSUME EditInv, OwnInv, [Next]_vars, ~strayed'
             PROVE  Owned'
  BY DEF OwnInv, Owned
<1>1. CASE UNCHANGED vars
  BY <1>1 DEF vars, OwnInv, Owned, OwnWrites, OwnDocs, OwnScreens, OwnTop, PickersOver
<1>2. CASE Next
  <2>1. ~strayed /\ Owned
    BY <1>2, StraysLast DEF OwnInv, Owned
  <2>2. CASE \E ok \in BOOLEAN : Answered(ok)
    BY <2>1, <2>2, OwnAnswered
  <2>3. CASE On("list") /\ \E r \in Top.rows : RowDeleted(r)
    <3>1. OwnWrites'
      BY <2>1, <2>3, OwnRowDeleted
    <3>2. UNCHANGED <<docs, stack, draft>>
      BY <2>3 DEF RowDeleted
    <3> QED
      BY <2>1, <3>1, <3>2, OwnSame DEF Owned
  <2>4. CASE SaveTapped
    <3>1. docs' = docs
      BY <2>4 DEF SaveTapped
    <3> QED
      BY <2>1, <2>4, <3>1, OwnSaveTapped, OwnSame DEF Owned
  <2>5. ASSUME ~(\E ok \in BOOLEAN : Answered(ok)), ~SaveTapped, ~Relaunched,
               ~(On("list") /\ \E r \in Top.rows : RowDeleted(r))
        PROVE  UNCHANGED <<docs, writes>> /\ OwnScreens' /\ OwnTop'
    <3>1. CASE \E i \in DOMAIN stack : RowsArrive(i)
      BY <2>1, <3>1, OwnRowsArrive DEF RowsArrive
    <3>2. CASE On("list") /\ \E r \in Top.rows : RowTapped(r)
      BY <2>1, <3>2, OwnRowTapped DEF RowTapped
    <3>3. CASE PlusTapped
      BY <2>1, <3>3, OwnPlusTapped DEF PlusTapped
    <3>4. CASE NameTyped
      BY <2>1, <3>4, OwnNameTyped DEF NameTyped
    <3>5. CASE PremiumTapped
      BY <2>1, <3>5, OwnPremiumTapped DEF PremiumTapped
    <3>6. CASE \E type \in {"dob", "timer"} : PickerTapped(type)
      BY <2>1, <3>6, OwnPickerTapped DEF PickerTapped
    <3>7. CASE DobChosen
      BY <2>1, <3>7, OwnDobChosen DEF DobChosen
    <3>8. CASE \E turned \in BOOLEAN : TimerSaved(turned)
      BY <2>1, <3>8, OwnTimerSaved DEF TimerSaved
    <3>9. CASE AdDismissed
      BY <2>1, <3>9, OwnAdDismissed DEF AdDismissed
    <3>10. CASE SheetClosed
      BY <2>1, <3>10, OwnSheetClosed DEF SheetClosed
    <3> QED
      BY <1>2, <2>5, <3>1, <3>2, <3>3, <3>4, <3>5, <3>6, <3>7, <3>8, <3>9, <3>10 DEF Next
  <2>6. CASE Relaunched
    BY <2>1, <2>6, OwnRelaunched
  <2> QED
    BY <2>1, <2>2, <2>3, <2>4, <2>5, <2>6, OwnSame DEF Owned
<1> QED
  BY <1>1, <1>2

\* getValues fills the fields that are empty from the draft, whose keys all editors share:
\* still no text gets into the document of another dog or person, unless an editor was
\* closed or the process ended over a draft with something in it: a picker lies on its own
\* editor, and every other way out of an editor clears the draft (saveNewDog, save).
THEOREM TextsAreOwn == Spec => []MixNeedsStraying
<1>1. Spec => []EditInv
  BY EditInit, EditNext, PTL DEF Spec
<1>2. OwnInv => MixNeedsStraying
  BY DEF OwnInv, OwnWrites, Own, MixNeedsStraying
<1> QED
  BY <1>1, <1>2, OwnInit, OwnNext, PTL DEF Spec
=============================================================================
