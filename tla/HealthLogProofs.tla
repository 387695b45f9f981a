-------------------------- MODULE HealthLogProofs --------------------------
(***************************************************************************)
(* Proofs about HealthLog, for every bound on the clock, the pile and the  *)
(* entries: its type invariant, the reminder that is pending, and the rows *)
(* that travel from screen to screen.                                      *)
(***************************************************************************)
EXTENDS HealthLog, SequenceTheorems, TLAPS

-----------------------------------------------------------------------------
(* The values *)

\* The screens of the pile.
Screens == Editor \cup Picker \cup List

\* The field a picker hands on.
Handed == {"dog", "who", "date"}

\* The person a draft without one still shows.
WhoOf == IF person THEN {"who"} ELSE {}

\* The adds and deletes that wait.
AddWrite == [op : {"add"}, id : 1..MaxSaves, rows : Rows, exactDate : Dates,
             at : 0..MaxDepth, handler : BOOLEAN]
DeleteWrite == [op : {"delete"}, id : 1..MaxSaves, handler : BOOLEAN]

LEMMA Bounds == /\ MaxTime \in Nat /\ MaxDepth \in Nat /\ MaxSaves \in Nat
                /\ 0 \in Dates /\ 1 \in Dates /\ 1 <= MaxDepth
BY HealthBounds, SMT DEF Dates

LEMMA RowsOf ==
    ASSUME NEW r \in Rows
    PROVE  /\ r.text \in BOOLEAN /\ r.dog \in BOOLEAN /\ r.who \in BOOLEAN /\ r.date \in Dates
           /\ DOMAIN r = Fields
BY DEF Rows, Fields

LEMMA MergedRows ==
    ASSUME draft \in Rows, NEW e \in Editor
    PROVE  Merged(e) \in Rows
<1>1. e.rows \in Rows
  BY DEF Editor
<1>2. QED
  BY <1>1 DEF Merged, Rows, Fields

LEMMA LoadedEditor ==
    ASSUME draft \in Rows, person \in BOOLEAN, NEW e \in Editor
    PROVE  /\ Loaded(e) \in Editor
           /\ Loaded(e).rows = [Merged(e) EXCEPT !.who = @ \/ person]
           /\ Loaded(e).clean = TRUE
           /\ Loaded(e).handed = e.handed /\ Loaded(e).exactDate = e.exactDate
<1>1. Merged(e) \in Rows
  BY MergedRows
<1>2. [Merged(e) EXCEPT !.who = @ \/ person] \in Rows
  BY <1>1 DEF Rows
<1>3. QED
  BY <1>2 DEF Loaded, Editor

\* What is filled in on an editor that has read the draft.
LEMMA MergedFilled ==
    ASSUME draft \in Rows, NEW e \in Editor, NEW f \in Fields
    PROVE  Filled(Merged(e), f) = IF f \in e.handed \/ (f = "text" /\ e.rows.text)
                                  THEN Filled(e.rows, f) ELSE Filled(draft, f)
<1>1. Merged(e)[f] = IF f \in e.handed \/ (f = "text" /\ e.rows.text) THEN e.rows[f]
                                                                     ELSE draft[f]
  BY DEF Merged
<1>2. CASE f = "date"
  BY <1>1, <1>2 DEF Filled
<1>3. CASE f # "date"
  BY <1>1, <1>3 DEF Filled
<1>4. QED
  BY <1>2, <1>3

LEMMA LoadedFilled ==
    ASSUME draft \in Rows, person \in BOOLEAN, NEW e \in Editor
    PROVE  FilledIn(Loaded(e).rows) = FilledIn(Merged(e)) \cup WhoOf
<1> DEFINE m == Merged(e)
           l == Loaded(e).rows
<1>1. m \in Rows
  BY MergedRows
<1>2. l = [m EXCEPT !.who = @ \/ person]
  BY LoadedEditor
<1> HIDE DEF m, l
<1>3. l.who = (m.who \/ person) /\ l.text = m.text /\ l.dog = m.dog /\ l.date = m.date
  BY <1>1, <1>2 DEF Rows
<1>4. Filled(l, "who") = (Filled(m, "who") \/ person)
  BY <1>3 DEF Filled
<1>5. \A f \in {"text", "dog", "date"} : Filled(l, f) = Filled(m, f)
  BY <1>3 DEF Filled
<1>6. \A f \in Fields : Filled(l, f) = (Filled(m, f) \/ (f = "who" /\ person))
  <2> SUFFICES ASSUME NEW f \in Fields
               PROVE  Filled(l, f) = (Filled(m, f) \/ (f = "who" /\ person))
    OBVIOUS
  <2>1. CASE f = "who"
    BY <1>4, <2>1
  <2>2. CASE f # "who"
    <3>1. f \in {"text", "dog", "date"}
      BY <2>2 DEF Fields
    <3>2. Filled(m, f) \in BOOLEAN
      BY <1>1, <3>1 DEF Filled, Rows
    <3>3. QED
      BY <1>5, <2>2, <3>1, <3>2
  <2>3. QED
    BY <2>1, <2>2
<1>7. FilledIn(l) = FilledIn(m) \cup WhoOf
  BY <1>6 DEF FilledIn, WhoOf, Fields
<1>8. QED
  BY <1>7 DEF m, l

-----------------------------------------------------------------------------
(* Sequences *)

LEMMA Opens ==
    ASSUME NEW S, NEW q \in Seq(S), NEW x \in S
    PROVE  /\ Append(q, x) \in Seq(S)
           /\ Len(Append(q, x)) = Len(q) + 1
           /\ DOMAIN Append(q, x) = 1..(Len(q) + 1)
           /\ \A i \in 1..Len(q) : Append(q, x)[i] = q[i]
           /\ Append(q, x)[Len(q) + 1] = x
           /\ Last(Append(q, x)) = x
<1>1. Append(q, x) \in Seq(S) /\ Len(Append(q, x)) = Len(q) + 1
  BY AppendProperties
<1>2. DOMAIN Append(q, x) = 1..(Len(q) + 1)
  BY <1>1, LenProperties
<1>3. (\A i \in 1..Len(q) : Append(q, x)[i] = q[i]) /\ Append(q, x)[Len(q) + 1] = x
  BY AppendProperties
<1>4. Last(Append(q, x)) = x
  BY <1>1, <1>3 DEF Last
<1>5. QED
  BY <1>1, <1>2, <1>3, <1>4

LEMMA Closes ==
    ASSUME NEW S, NEW q \in Seq(S), q # <<>>
    PROVE  /\ Len(q) \in Nat \ {0}
           /\ DOMAIN q = 1..Len(q)
           /\ Last(q) = q[Len(q)] /\ Last(q) \in S
           /\ Front(q) \in Seq(S)
           /\ Len(Front(q)) = Len(q) - 1
           /\ DOMAIN Front(q) = 1..(Len(q) - 1)
           /\ \A i \in 1..(Len(q) - 1) : Front(q)[i] = q[i]
<1>1. Len(q) \in Nat \ {0}
  BY EmptySeq
<1>2. DOMAIN q = 1..Len(q)
  BY LenProperties
<1>3. Last(q) = q[Len(q)] /\ Last(q) \in S
  BY <1>1, ElementOfSeq DEF Last
<1>4. \A i \in 1..(Len(q) - 1) : q[i] \in S
  BY <1>1, ElementOfSeq
<1>5. 1 \in Int /\ Len(q) - 1 \in Int
  BY <1>1
<1>6. /\ SubSeq(q, 1, Len(q) - 1) \in Seq(S)
      /\ Len(SubSeq(q, 1, Len(q) - 1)) = IF 1 <= Len(q) - 1 THEN (Len(q) - 1) - 1 + 1 ELSE 0
      /\ \A i \in 1..((Len(q) - 1) - 1 + 1) : SubSeq(q, 1, Len(q) - 1)[i] = q[1 + i - 1]
  BY <1>4, <1>5, SubSeqProperties
<1>7. Front(q) \in Seq(S) /\ Len(Front(q)) = Len(q) - 1
  <2>1. Front(q) \in Seq(S)
    BY <1>6, Zenon DEF Front
  <2>2. Len(Front(q)) = IF 1 <= Len(q) - 1 THEN (Len(q) - 1) - 1 + 1 ELSE 0
    BY <1>6, Zenon DEF Front
  <2>3. Len(Front(q)) = Len(q) - 1
    <3>1. \A n \in Nat \ {0} : (IF 1 <= n - 1 THEN (n - 1) - 1 + 1 ELSE 0) = n - 1
      OBVIOUS
    <3>2. QED
      BY <1>1, <2>2, <3>1, Zenon
  <2>4. QED
    BY <2>1, <2>3
<1>8. \A i \in 1..(Len(q) - 1) : Front(q)[i] = q[i]
  <2>1. \A i \in 1..((Len(q) - 1) - 1 + 1) : Front(q)[i] = q[1 + i - 1]
    BY <1>6, Zenon DEF Front
  <2>2. QED
    BY <1>1, <2>1
<1>9. DOMAIN Front(q) = 1..(Len(q) - 1)
  BY <1>7, LenProperties
<1>10. QED
  BY <1>1, <1>2, <1>3, <1>7, <1>8, <1>9

LEMMA Answered ==
    ASSUME NEW S, NEW q \in Seq(S), q # <<>>
    PROVE  /\ Head(q) \in S /\ Head(q) = q[1] /\ 1 \in DOMAIN q
           /\ Tail(q) \in Seq(S)
           /\ DOMAIN Tail(q) = 1..(Len(q) - 1)
           /\ DOMAIN q = 1..Len(q) /\ Len(q) \in Nat \ {0}
           /\ \A i \in DOMAIN Tail(q) : Tail(q)[i] = q[i + 1]
<1>1. Len(q) \in Nat \ {0} /\ DOMAIN q = 1..Len(q)
  BY Closes
<1>2. Head(q) \in S /\ Tail(q) \in Seq(S)
  BY HeadTailProperties
<1>3. Head(q) = q[1]
  BY <1>1
<1>4. Len(Tail(q)) = Len(q) - 1
  BY HeadTailProperties
<1>5. DOMAIN Tail(q) = 1..(Len(q) - 1)
  BY <1>2, <1>4, LenProperties
<1>6. \A i \in DOMAIN Tail(q) : Tail(q)[i] = q[i + 1]
  BY <1>4, <1>5, HeadTailProperties
<1>7. QED
  BY <1>1, <1>2, <1>3, <1>5, <1>6

\* Replacing every element of a sequence.
LEMMA Mapped ==
    ASSUME NEW S, NEW q \in Seq(S), NEW p, DOMAIN p = DOMAIN q, p = [i \in DOMAIN q |-> p[i]],
           \A i \in DOMAIN q : p[i] \in S
    PROVE  p \in Seq(S) /\ Len(p) = Len(q)
<1>1. DOMAIN q = 1..Len(q) /\ Len(q) \in Nat
  BY LenProperties
<1>2. p \in [1..Len(q) -> S]
  BY <1>1
<1>3. QED
  BY <1>1, <1>2

-----------------------------------------------------------------------------
(* Types *)

LEMMA TopScreen ==
    ASSUME TypeOK, pile # <<>>
    PROVE  /\ Len(pile) \in Nat \ {0} /\ DOMAIN pile = 1..Len(pile)
           /\ Top = pile[Len(pile)]
           /\ Shows("editor") => Top \in Editor
           /\ Shows("picker") => Top \in Picker
           /\ Front(pile) \in Seq(Screens)
           /\ Len(Front(pile)) = Len(pile) - 1
           /\ DOMAIN Front(pile) = 1..(Len(pile) - 1)
           /\ \A i \in 1..(Len(pile) - 1) : Front(pile)[i] = pile[i]
<1>1. pile \in Seq(Screens)
  BY DEF TypeOK, Screens
<1>2. Top \in Screens
  BY <1>1, Closes DEF Top
<1>3. Shows("editor") => Top \in Editor
  BY <1>2 DEF Shows, Screens, Picker, List
<1>4. Shows("picker") => Top \in Picker
  BY <1>2 DEF Shows, Screens, Editor, List
<1>5. Top = pile[Len(pile)]
  BY <1>1, Closes DEF Top
<1>6. Len(pile) \in Nat \ {0} /\ DOMAIN pile = 1..Len(pile)
  BY <1>1, Closes
<1>7. /\ Front(pile) \in Seq(Screens)
      /\ Len(Front(pile)) = Len(pile) - 1
      /\ DOMAIN Front(pile) = 1..(Len(pile) - 1)
      /\ \A i \in 1..(Len(pile) - 1) : Front(pile)[i] = pile[i]
  BY <1>1, Closes
<1>8. QED
  BY <1>3, <1>4, <1>5, <1>6, <1>7

\* The screens that are opened.
LEMMA NewScreens ==
    ASSUME TypeOK
    PROVE  /\ BlankEditor \in Editor
           /\ EmptyRows \in Rows
           /\ [type |-> "list"] \in List
           /\ \A f \in Handed, s \in SUBSET Fields :
                 [type |-> "picker", of |-> f, seen |-> s] \in Picker
<1>1. EmptyRows \in Rows
  BY Bounds DEF EmptyRows, Rows
<1>2. BlankEditor \in Editor
  BY <1>1, Bounds DEF BlankEditor, Editor
<1>3. [type |-> "list"] \in List
  BY DEF List
<1>4. \A f \in Handed, s \in SUBSET Fields :
         [type |-> "picker", of |-> f, seen |-> s] \in Picker
  BY DEF Picker, Handed
<1>5. QED
  BY <1>1, <1>2, <1>3, <1>4

\* The editor a picker opens, before it reads the draft.
PickedEditor(f, d) ==
    [BlankEditor EXCEPT
        !.rows   = [EmptyRows EXCEPT ![f] = IF f = "date" THEN d ELSE TRUE],
        !.handed = {f},
        !.exactDate = IF f = "date" THEN d ELSE 0]

LEMMA PickedEditorType ==
    ASSUME TypeOK, NEW f \in Handed, NEW d \in Dates
    PROVE  /\ PickedEditor(f, d) \in Editor
           /\ PickedEditor(f, d).rows = [EmptyRows EXCEPT ![f] = IF f = "date" THEN d ELSE TRUE]
           /\ PickedEditor(f, d).handed = {f}
           /\ PickedEditor(f, d).exactDate = IF f = "date" THEN d ELSE 0
<1>1. EmptyRows \in Rows /\ BlankEditor \in Editor
  BY NewScreens
<1>2. [EmptyRows EXCEPT ![f] = IF f = "date" THEN d ELSE TRUE] \in Rows
  <2>1. CASE f = "date"
    BY <1>1, <2>1 DEF Rows
  <2>2. CASE f = "dog"
    BY <1>1, <2>2 DEF Rows
  <2>3. CASE f = "who"
    BY <1>1, <2>3 DEF Rows
  <2>4. QED
    BY <2>1, <2>2, <2>3 DEF Handed
<1>3. {f} \in SUBSET {"dog", "who", "date"}
  BY DEF Handed
<1>4. (IF f = "date" THEN d ELSE 0) \in Dates
  BY Bounds
<1>5. QED
  BY <1>1, <1>2, <1>3, <1>4 DEF PickedEditor, Editor

LEMMA PileGrows ==
    ASSUME TypeOK, Len(pile) < MaxDepth, NEW x \in Screens, pile' = Append(pile, x)
    PROVE  /\ pile' \in Seq(Editor \cup Picker \cup List) /\ Len(pile') <= MaxDepth
           /\ Len(pile) \in Nat
           /\ Len(pile') = Len(pile) + 1
           /\ DOMAIN pile = 1..Len(pile) /\ DOMAIN pile' = 1..(Len(pile) + 1)
           /\ \A i \in 1..Len(pile) : pile'[i] = pile[i]
           /\ pile'[Len(pile) + 1] = x /\ Last(pile') = x
<1>1. pile \in Seq(Screens)
  BY DEF TypeOK, Screens
<1>2. Len(pile) \in Nat /\ DOMAIN pile = 1..Len(pile)
  BY <1>1, LenProperties
<1>3. pile' \in Seq(Screens) /\ Len(pile') = Len(pile) + 1
  BY <1>1, Opens
<1>4. Len(pile') <= MaxDepth
  BY <1>2, <1>3, Bounds
<1>5. /\ DOMAIN pile' = 1..(Len(pile) + 1)
      /\ \A i \in 1..Len(pile) : pile'[i] = pile[i]
      /\ pile'[Len(pile) + 1] = x /\ Last(pile') = x
  BY <1>1, Opens
<1>6. QED
  BY <1>2, <1>3, <1>4, <1>5 DEF Screens

LEMMA FieldTappedEffect ==
    ASSUME TypeOK, NEW f \in Handed, FieldTapped(f)
    PROVE  /\ Top \in Editor /\ Loaded(Top) \in Editor
           /\ Top = pile[Len(pile)]
           /\ draft' = Merged(Top) /\ draft' \in Rows
           /\ pile' \in Seq(Editor \cup Picker \cup List) /\ Len(pile') <= MaxDepth
           /\ Len(pile) \in Nat \ {0}
           /\ DOMAIN pile = 1..Len(pile) /\ DOMAIN pile' = 1..(Len(pile) + 1)
           /\ \A i \in 1..(Len(pile) - 1) : pile'[i] = pile[i]
           /\ pile'[Len(pile)] = Loaded(Top)
           /\ pile'[Len(pile) + 1] = [type |-> "picker", of |-> f,
                                      seen |-> IF Top.clean THEN FilledIn(Top.rows) ELSE {}]
<1> DEFINE l == Loaded(Top)
           p == [type |-> "picker", of |-> f,
                 seen |-> IF Top.clean THEN FilledIn(Top.rows) ELSE {}]
           q == Append(Front(pile), l)
<1>1. Shows("editor") /\ pile # <<>> /\ Len(pile) < MaxDepth
  BY DEF FieldTapped, Shows
<1>2. draft \in Rows /\ person \in BOOLEAN
  BY DEF TypeOK
<1>3. Top \in Editor
  BY <1>1, TopScreen
<1>4. l \in Editor
  BY <1>2, <1>3, LoadedEditor
<1>5. draft' = Merged(Top) /\ draft' \in Rows
  BY <1>2, <1>3, MergedRows DEF FieldTapped, GetValues
<1>6. p \in Picker
  <2>1. (IF Top.clean THEN FilledIn(Top.rows) ELSE {}) \in SUBSET Fields
    BY DEF FilledIn
  <2>2. QED
    BY <2>1, NewScreens
<1>7. pile' = Append(q, p)
  BY DEF FieldTapped
<1>8. l \in Screens /\ p \in Screens
  BY <1>4, <1>6 DEF Screens
<1>9. /\ Len(pile) \in Nat \ {0} /\ DOMAIN pile = 1..Len(pile)
      /\ Top = pile[Len(pile)]
  BY <1>1, TopScreen
<1>10. /\ Front(pile) \in Seq(Screens) /\ Len(Front(pile)) = Len(pile) - 1
       /\ \A i \in 1..(Len(pile) - 1) : Front(pile)[i] = pile[i]
  BY <1>1, TopScreen
<1> HIDE DEF l, p, q
<1>11. /\ q \in Seq(Screens) /\ Len(q) = Len(Front(pile)) + 1
       /\ \A i \in 1..Len(Front(pile)) : q[i] = Front(pile)[i]
       /\ q[Len(Front(pile)) + 1] = l
  BY <1>8, <1>10, Opens DEF q
<1>12. /\ q \in Seq(Screens) /\ Len(q) = Len(pile)
       /\ \A i \in 1..(Len(pile) - 1) : q[i] = pile[i]
       /\ q[Len(pile)] = l
  BY <1>9, <1>10, <1>11
<1>13. /\ pile' \in Seq(Screens) /\ Len(pile') = Len(q) + 1
       /\ DOMAIN pile' = 1..(Len(q) + 1)
       /\ \A i \in 1..Len(q) : pile'[i] = q[i]
       /\ pile'[Len(q) + 1] = p
  BY <1>7, <1>8, <1>12, Opens
<1>14. /\ pile' \in Seq(Screens) /\ Len(pile') = Len(pile) + 1
       /\ DOMAIN pile' = 1..(Len(pile) + 1)
       /\ \A i \in 1..(Len(pile) - 1) : pile'[i] = pile[i]
       /\ pile'[Len(pile)] = l
       /\ pile'[Len(pile) + 1] = p
  BY <1>9, <1>12, <1>13
<1>15. Len(pile') <= MaxDepth
  BY <1>1, <1>9, <1>14, Bounds
<1>16. QED
  BY <1>3, <1>4, <1>5, <1>9, <1>14, <1>15 DEF l, p, Screens

LEMMA AddNewEffect ==
    ASSUME TypeOK, AddNew
    PROVE  /\ BlankEditor \in Editor /\ Loaded(BlankEditor) \in Editor
           /\ draft' = Merged(BlankEditor) /\ draft' \in Rows
           /\ Len(pile) < MaxDepth /\ pile' = Append(pile, Loaded(BlankEditor))
           /\ Loaded(BlankEditor) \in Screens
<1>1. draft \in Rows /\ person \in BOOLEAN
  BY DEF TypeOK
<1>2. BlankEditor \in Editor
  BY NewScreens
<1>3. Loaded(BlankEditor) \in Editor /\ Merged(BlankEditor) \in Rows
  BY <1>1, <1>2, LoadedEditor, MergedRows
<1>4. QED
  BY <1>2, <1>3 DEF AddNew, GetValues, Screens

LEMMA PickedEffect ==
    ASSUME TypeOK, NEW d \in Dates, Picked(d)
    PROVE  \E f \in Handed :
              /\ f = Top.of
              /\ f # "date" => d = 1
              /\ PickedEditor(f, d) \in Editor /\ Loaded(PickedEditor(f, d)) \in Editor
              /\ draft' = Merged(PickedEditor(f, d)) /\ draft' \in Rows
              /\ Len(pile) < MaxDepth
              /\ pile' = Append(pile, Loaded(PickedEditor(f, d)))
              /\ Loaded(PickedEditor(f, d)) \in Screens
<1> DEFINE f == Top.of
           e == PickedEditor(f, d)
<1>1. draft \in Rows /\ person \in BOOLEAN
  BY DEF TypeOK
<1>2. Shows("picker") /\ pile # <<>>
  BY DEF Picked, Shows
<1>3. Top \in Picker
  BY <1>2, TopScreen
<1>4. f \in Handed
  BY <1>3 DEF Picker, Handed
<1>5. e \in Editor
  BY <1>4, PickedEditorType
<1>6. Loaded(e) \in Editor /\ Merged(e) \in Rows
  BY <1>1, <1>5, LoadedEditor, MergedRows
<1>7. /\ f = "date" \/ d = 1
      /\ pile' = Append(pile, Loaded(e)) /\ draft' = Merged(e)
      /\ Len(pile) < MaxDepth
  BY DEF Picked, GetValues, PickedEditor
<1>8. Loaded(e) \in Screens
  BY <1>6 DEF Screens
<1>9. QED
  BY <1>4, <1>5, <1>6, <1>7, <1>8

LEMMA TextTypedEffect ==
    ASSUME TypeOK, TextTyped
    PROVE  /\ Top \in Editor /\ Top = pile[Len(pile)]
           /\ [Top EXCEPT !.rows.text = TRUE] \in Editor
           /\ Len(pile) \in Nat \ {0} /\ DOMAIN pile = 1..Len(pile)
           /\ pile' \in Seq(Editor \cup Picker \cup List) /\ Len(pile') = Len(pile)
           /\ DOMAIN pile' = DOMAIN pile
           /\ \A i \in DOMAIN pile :
                 pile'[i] = IF i = Len(pile) THEN [Top EXCEPT !.rows.text = TRUE] ELSE pile[i]
<1>1. Shows("editor") /\ pile # <<>> /\ pile \in Seq(Screens)
  BY DEF TextTyped, Shows, TypeOK, Screens
<1>2. Top \in Editor /\ Top = pile[Len(pile)] /\ Len(pile) \in Nat \ {0} /\ DOMAIN pile = 1..Len(pile)
  BY <1>1, TopScreen
<1>3. Top.rows \in Rows
  BY <1>2 DEF Editor
<1>4. [Top.rows EXCEPT !.text = TRUE] \in Rows
  BY <1>3 DEF Rows
<1>5. [Top EXCEPT !.rows.text = TRUE] \in Editor
  BY <1>2, <1>4 DEF Editor
<1>6. [Top EXCEPT !.rows.text = TRUE] \in Screens
  BY <1>5 DEF Screens
<1>7. pile' = [pile EXCEPT ![Len(pile)] = [Top EXCEPT !.rows.text = TRUE]]
  BY <1>2 DEF TextTyped
<1>8. Len(pile) \in 1..Len(pile)
  BY <1>2
<1>9. /\ pile' \in Seq(Screens) /\ Len(pile') = Len(pile)
      /\ \A i \in 1..Len(pile) :
            pile'[i] = IF i = Len(pile) THEN [Top EXCEPT !.rows.text = TRUE] ELSE pile[i]
  BY <1>1, <1>6, <1>7, <1>8, ExceptSeq
<1>10. DOMAIN pile' = DOMAIN pile
  BY <1>7
<1>11. QED
  BY <1>2, <1>5, <1>9, <1>10 DEF Screens

LEMMA WriteKinds ==
    ASSUME NEW w \in Write
    PROVE  /\ w.op = "add" => w \in AddWrite
           /\ w.op = "delete" => w \in DeleteWrite
           /\ w.op = "add" \/ w.op = "delete"
           /\ w.id \in 1..MaxSaves
           /\ [w EXCEPT !.handler = FALSE] \in Write
           /\ w.op = "add" => [w EXCEPT !.at = 0] \in Write
<1>1. w \in AddWrite \/ w \in DeleteWrite
  BY DEF Write, AddWrite, DeleteWrite
<1>2. CASE w \in AddWrite
  <2>1. w.op = "add" /\ w.id \in 1..MaxSaves
    BY <1>2 DEF AddWrite
  <2>2. 0 \in 0..MaxDepth
    BY Bounds
  <2>3. [w EXCEPT !.handler = FALSE] \in AddWrite /\ [w EXCEPT !.at = 0] \in AddWrite
    BY <1>2, <2>2 DEF AddWrite
  <2>4. QED
    BY <1>2, <2>1, <2>3 DEF Write, AddWrite
<1>3. CASE w \in DeleteWrite
  <2>1. w.op = "delete" /\ w.id \in 1..MaxSaves
    BY <1>3 DEF DeleteWrite
  <2>2. [w EXCEPT !.handler = FALSE] \in DeleteWrite
    BY <1>3 DEF DeleteWrite
  <2>3. QED
    BY <1>3, <2>1, <2>2 DEF Write, DeleteWrite
<1>4. QED
  BY <1>1, <1>2, <1>3

\* A write whose screen has gone.
Unshown(w) == [w EXCEPT !.at = 0]

\* A write whose handler is gone with the process.
Unheard(w) == [w EXCEPT !.handler = FALSE]

LEMMA SheetClosedEffect ==
    ASSUME TypeOK, SheetClosed
    PROVE  /\ pile \in Seq(Screens) /\ Len(pile) \in Nat \ {0} /\ DOMAIN pile = 1..Len(pile)
           /\ pile' \in Seq(Editor \cup Picker \cup List) /\ Len(pile') <= MaxDepth
           /\ DOMAIN pile' = 1..(Len(pile) - 1)
           /\ \A i \in 1..(Len(pile) - 1) : pile'[i] = pile[i]
           /\ writes' \in Seq(Write) /\ DOMAIN writes' = DOMAIN writes
           /\ \A i \in DOMAIN writes :
                 writes'[i] = IF writes[i].op = "add" /\ writes[i].at = Len(pile)
                              THEN Unshown(writes[i]) ELSE writes[i]
<1>1. pile # <<>> /\ pile \in Seq(Screens) /\ writes \in Seq(Write)
  BY DEF SheetClosed, TypeOK, Screens
<1>2. /\ Len(pile) \in Nat \ {0} /\ DOMAIN pile = 1..Len(pile)
      /\ pile' \in Seq(Screens) /\ Len(pile') = Len(pile) - 1
      /\ DOMAIN pile' = 1..(Len(pile) - 1)
      /\ \A i \in 1..(Len(pile) - 1) : pile'[i] = pile[i]
  BY <1>1, TopScreen DEF SheetClosed
<1>3. Len(pile') <= MaxDepth
  <2>1. Len(pile) <= MaxDepth
    BY DEF TypeOK
  <2>2. QED
    BY <1>2, <2>1, Bounds
<1>4. /\ DOMAIN writes' = DOMAIN writes
      /\ \A i \in DOMAIN writes :
            writes'[i] = IF writes[i].op = "add" /\ writes[i].at = Len(pile)
                         THEN Unshown(writes[i]) ELSE writes[i]
      /\ writes' = [i \in DOMAIN writes |-> writes'[i]]
  BY DEF SheetClosed, Unshown
<1>5. \A i \in DOMAIN writes : writes'[i] \in Write
  <2>1. \A i \in DOMAIN writes : writes[i] \in Write
    BY <1>1, LenProperties, ElementOfSeq
  <2>2. QED
    BY <1>4, <2>1, WriteKinds DEF Unshown
<1>6. writes' \in Seq(Write)
  BY <1>1, <1>4, <1>5, Mapped
<1>7. QED
  BY <1>1, <1>2, <1>3, <1>4, <1>6 DEF Screens

\* The process ends.
LEMMA LostEffect ==
    ASSUME NEW q \in Seq(Write), Lost(q)
    PROVE  /\ pile' = <<>> /\ pile' \in Seq(Editor \cup Picker \cup List) /\ Len(pile') <= MaxDepth
           /\ DOMAIN pile' = {}
           /\ writes' \in Seq(Write) /\ DOMAIN writes' = DOMAIN q
           /\ \A i \in DOMAIN q : writes'[i] = Unheard(q[i])
<1>1. pile' = <<>> /\ writes' = [i \in DOMAIN q |-> [q[i] EXCEPT !.handler = FALSE]]
  BY DEF Lost
<1>2. pile' \in Seq(Editor \cup Picker \cup List) /\ Len(pile') <= MaxDepth
  BY <1>1, EmptySeq, Bounds
<1>3. DOMAIN pile' = {}
  BY <1>1
<1>4. /\ DOMAIN writes' = DOMAIN q
      /\ \A i \in DOMAIN q : writes'[i] = Unheard(q[i])
      /\ writes' = [i \in DOMAIN q |-> writes'[i]]
  BY <1>1 DEF Unheard
<1>5. \A i \in DOMAIN q : q[i] \in Write
  BY LenProperties, ElementOfSeq
<1>6. \A i \in DOMAIN q : writes'[i] \in Write
  BY <1>4, <1>5, WriteKinds, ZenonT(30) DEF Unheard
<1>7. writes' \in Seq(Write)
  BY <1>4, <1>6, Mapped
<1>8. QED
  BY <1>1, <1>2, <1>3, <1>4, <1>7

\* A screen over which the draft was cleared.
Dirtied(c) == CASE c.type = "editor" -> [c EXCEPT !.clean = FALSE]
                [] c.type = "picker" -> [c EXCEPT !.seen = {}]
                [] OTHER             -> c

LEMMA DirtiedKinds ==
    ASSUME NEW c \in Screens
    PROVE  /\ Dirtied(c) \in Screens
           /\ c.type = "editor" => c \in Editor /\ Dirtied(c) = [c EXCEPT !.clean = FALSE]
           /\ c.type = "picker" => c \in Picker /\ Dirtied(c) = [c EXCEPT !.seen = {}]
           /\ c.type \notin {"editor", "picker"} => Dirtied(c) = c
           /\ Dirtied(c).type = c.type
<1>1. CASE c \in Editor
  <2>1. c.type = "editor" /\ [c EXCEPT !.clean = FALSE] \in Editor
    BY <1>1 DEF Editor
  <2>2. Dirtied(c) = [c EXCEPT !.clean = FALSE]
    BY <2>1 DEF Dirtied
  <2>3. QED
    BY <1>1, <2>1, <2>2 DEF Editor, Screens
<1>2. CASE c \in Picker
  <2>1. c.type = "picker" /\ [c EXCEPT !.seen = {}] \in Picker
    BY <1>2 DEF Picker
  <2>2. Dirtied(c) = [c EXCEPT !.seen = {}]
    BY <2>1 DEF Dirtied
  <2>3. QED
    BY <1>2, <2>1, <2>2 DEF Picker, Screens
<1>3. CASE c \in List
  <2>1. c.type = "list"
    BY <1>3 DEF List
  <2>2. Dirtied(c) = c
    BY <2>1 DEF Dirtied
  <2>3. QED
    BY <1>3, <2>1, <2>2 DEF Screens
<1>4. QED
  BY <1>1, <1>2, <1>3 DEF Screens

\* The draft is cleared under the screens, and the list may open.
LEMMA DirtyEffect ==
    ASSUME TypeOK, NEW shown \in BOOLEAN,
           shown => Len(pile) < MaxDepth,
           pile' = IF shown THEN Append(Dirty(pile), [type |-> "list"]) ELSE Dirty(pile)
    PROVE  /\ DOMAIN pile = 1..Len(pile) /\ Len(pile) \in Nat
           /\ pile' \in Seq(Editor \cup Picker \cup List) /\ Len(pile') <= MaxDepth
           /\ DOMAIN pile \subseteq DOMAIN pile'
           /\ \A i \in DOMAIN pile : pile[i] \in Screens /\ pile'[i] = Dirtied(pile[i])
           /\ \A i \in DOMAIN pile' \ DOMAIN pile : pile'[i] = [type |-> "list"]
<1> DEFINE q == Dirty(pile)
           l == [type |-> "list"]
<1>1. pile \in Seq(Screens) /\ Len(pile) <= MaxDepth
  BY DEF TypeOK, Screens
<1>2. DOMAIN pile = 1..Len(pile) /\ Len(pile) \in Nat
  BY <1>1, LenProperties
<1>3. \A i \in DOMAIN pile : pile[i] \in Screens
  BY <1>1, <1>2, ElementOfSeq
<1>4. /\ DOMAIN q = DOMAIN pile
      /\ q = [i \in DOMAIN pile |-> q[i]]
      /\ \A i \in DOMAIN pile : q[i] = Dirtied(pile[i])
  BY DEF Dirty, Dirtied
<1> HIDE DEF q
<1>5. \A i \in DOMAIN pile : q[i] \in Screens
  BY <1>3, <1>4, DirtiedKinds
<1>6. q \in Seq(Screens) /\ Len(q) = Len(pile)
  BY <1>1, <1>4, <1>5, Mapped
<1>7. l \in Screens
  BY NewScreens DEF Screens
<1> HIDE DEF l
<1>8. CASE shown
  <2>1. pile' = Append(q, l)
    BY <1>8 DEF q, l
  <2>2. /\ pile' \in Seq(Screens) /\ Len(pile') = Len(q) + 1
        /\ DOMAIN pile' = 1..(Len(q) + 1)
        /\ \A i \in 1..Len(q) : pile'[i] = q[i]
        /\ pile'[Len(q) + 1] = l
    <3>1. /\ Append(q, l) \in Seq(Screens) /\ Len(Append(q, l)) = Len(q) + 1
          /\ DOMAIN Append(q, l) = 1..(Len(q) + 1)
          /\ \A i \in 1..Len(q) : Append(q, l)[i] = q[i]
          /\ Append(q, l)[Len(q) + 1] = l
      BY <1>6, <1>7, Opens
    <3>2. QED
      BY <2>1, <3>1, Zenon
  <2>3. Len(pile') <= MaxDepth
    BY <1>2, <1>6, <1>8, <2>2, Bounds
  <2>4. DOMAIN pile \subseteq DOMAIN pile'
    BY <1>2, <1>6, <2>2
  <2>5. \A i \in DOMAIN pile : pile'[i] = Dirtied(pile[i])
    BY <1>2, <1>4, <1>6, <2>2
  <2>6. \A i \in DOMAIN pile' \ DOMAIN pile : i = Len(q) + 1
    BY <1>2, <1>6, <2>2
  <2>7. QED
    BY <1>2, <1>3, <2>2, <2>3, <2>4, <2>5, <2>6 DEF Screens, l
<1>9. CASE ~shown
  <2>1. pile' = q
    BY <1>9 DEF q
  <2>2. QED
    BY <1>1, <1>2, <1>3, <1>4, <1>6, <2>1 DEF Screens
<1>10. QED
  BY <1>8, <1>9

LEMMA WritesRest ==
    ASSUME TypeOK, writes # <<>>
    PROVE  /\ Head(writes) = writes[1] /\ 1 \in DOMAIN writes
           /\ Head(writes) \in Write
           /\ Tail(writes) \in Seq(Write)
           /\ Len(writes) \in Nat \ {0} /\ DOMAIN writes = 1..Len(writes)
           /\ DOMAIN Tail(writes) = 1..(Len(writes) - 1)
           /\ \A i \in DOMAIN Tail(writes) :
                 /\ Tail(writes)[i] = writes[i + 1]
                 /\ i \in Nat /\ i + 1 \in DOMAIN writes
<1>1. writes \in Seq(Write)
  BY DEF TypeOK
<1>2. /\ Head(writes) = writes[1] /\ 1 \in DOMAIN writes
      /\ Head(writes) \in Write
      /\ Tail(writes) \in Seq(Write)
      /\ Len(writes) \in Nat \ {0} /\ DOMAIN writes = 1..Len(writes)
      /\ DOMAIN Tail(writes) = 1..(Len(writes) - 1)
      /\ \A i \in DOMAIN Tail(writes) : Tail(writes)[i] = writes[i + 1]
  BY <1>1, Answered
<1>3. \A i \in 1..(Len(writes) - 1) : i \in Nat /\ i + 1 \in 1..Len(writes)
  BY <1>2
<1>4. QED
  BY <1>2, <1>3

LEMMA RunsNotification ==
    ASSUME TypeOK, NEW w \in AddWrite, RunNotification(w)
    PROVE  reminder' \in [id : 0..MaxSaves, date : Dates]
<1>1. w.id \in 0..MaxSaves /\ w.exactDate \in Dates
  BY Bounds DEF AddWrite
<1>2. QED
  BY <1>1 DEF RunNotification, TypeOK

LEMMA AddedTypes ==
    ASSUME TypeOK, NEW w \in AddWrite, Added(w)
    PROVE  entries' \subseteq 1..MaxSaves /\ log' \subseteq Stored
<1>1. w.id \in 1..MaxSaves /\ w.rows \in Rows /\ w.exactDate \in Dates /\ w.handler \in BOOLEAN
  BY DEF AddWrite
<1>2. w.rows.date \in Dates
  BY <1>1 DEF Rows
<1>3. (w.handler /\ w.exactDate > now) \in BOOLEAN
  BY <1>1
<1>4. [id |-> w.id, date |-> w.rows.date, moment |-> w.exactDate,
       requested |-> w.handler /\ w.exactDate > now] \in Stored
  BY <1>1, <1>2, <1>3 DEF Stored
<1>5. QED
  BY <1>1, <1>4 DEF Added, TypeOK

\* The three ends of a write that adds an entry: its handler died with the process,
\* it traps on a moment that is not there, or it runs.
LEMMA EntryStoredCases ==
    ASSUME TypeOK, EntryStored
    PROVE  LET w == writes[1] IN
           /\ writes # <<>> /\ w \in AddWrite /\ w.op = "add" /\ Added(w)
           /\ UNCHANGED <<person, now, saves>>
           /\ \/ /\ ~w.handler
                 /\ writes' = Tail(writes)
                 /\ UNCHANGED <<pile, draft, reminder>>
              \/ /\ w.handler /\ w.exactDate = 0
                 /\ Lost(Tail(writes))
                 /\ UNCHANGED <<draft, reminder>>
              \/ /\ w.handler /\ w.exactDate # 0
                 /\ RunNotification(w)
                 /\ draft' = EmptyRows
                 /\ writes' = Tail(writes)
                 /\ \E shown \in BOOLEAN :
                       /\ shown => Len(pile) < MaxDepth
                       /\ shown => w.at = Len(pile) /\ w.at # 0
                       /\ pile' = IF shown THEN Append(Dirty(pile), [type |-> "list"])
                                           ELSE Dirty(pile)
<1> DEFINE w == writes[1]
<1>1. writes # <<>> /\ Head(writes).op = "add"
  BY DEF EntryStored
<1>2. Head(writes) = w /\ w \in Write
  BY <1>1, WritesRest
<1>3. w \in AddWrite
  BY <1>1, <1>2, WriteKinds
<1>4. UNCHANGED <<person, now, saves>>
  BY Zenon DEF EntryStored
<1>5. /\ Added(w)
      /\ \/ /\ ~w.handler
            /\ writes' = Tail(writes)
            /\ UNCHANGED <<pile, draft, reminder>>
         \/ /\ w.handler /\ w.exactDate = 0
            /\ Lost(Tail(writes))
            /\ UNCHANGED <<draft, reminder>>
         \/ /\ w.handler /\ w.exactDate # 0
            /\ RunNotification(w)
            /\ draft' = EmptyRows
            /\ pile' = IF w.at = Len(pile) /\ w.at # 0 /\ Len(pile) < MaxDepth
                       THEN Append(Dirty(pile), [type |-> "list"]) ELSE Dirty(pile)
            /\ writes' = Tail(writes)
  BY <1>2, Zenon DEF EntryStored
<1> HIDE DEF w
<1>6. ASSUME pile' = IF w.at = Len(pile) /\ w.at # 0 /\ Len(pile) < MaxDepth
                     THEN Append(Dirty(pile), [type |-> "list"]) ELSE Dirty(pile)
      PROVE  \E shown \in BOOLEAN :
                /\ shown => Len(pile) < MaxDepth
                /\ shown => w.at = Len(pile) /\ w.at # 0
                /\ pile' = IF shown THEN Append(Dirty(pile), [type |-> "list"])
                                    ELSE Dirty(pile)
  <2>1. CASE w.at = Len(pile) /\ w.at # 0 /\ Len(pile) < MaxDepth
    <3>1. pile' = Append(Dirty(pile), [type |-> "list"])
      BY <1>6, <2>1, Zenon
    <3>2. WITNESS TRUE \in BOOLEAN
    <3>3. QED
      BY <2>1, <3>1, Zenon
  <2>2. CASE ~(w.at = Len(pile) /\ w.at # 0 /\ Len(pile) < MaxDepth)
    <3>1. pile' = Dirty(pile)
      BY <1>6, <2>2, Zenon
    <3>2. WITNESS FALSE \in BOOLEAN
    <3>3. QED
      BY <3>1, Zenon
  <2>3. QED
    BY <2>1, <2>2
<1>7. QED
  BY <1>1, <1>3, <1>2, <1>4, <1>5, <1>6, Zenon DEF w

LEMMA SaveTappedEffect ==
    ASSUME TypeOK, SaveTapped
    PROVE  LET w == [op |-> "add", id |-> saves', rows |-> Top.rows,
                     exactDate |-> Top.exactDate, at |-> Len(pile), handler |-> TRUE] IN
           /\ Shows("editor") /\ Top \in Editor /\ Top = pile[Len(pile)]
           /\ Len(pile) \in DOMAIN pile /\ Len(pile) \in Nat \ {0}
           /\ w \in AddWrite /\ w \in Write
           /\ saves \in Nat /\ saves' = saves + 1 /\ saves' \in 0..MaxSaves
           /\ writes' = Append(writes, w)
           /\ UNCHANGED <<pile, draft, person, entries, reminder, now, log>>
<1> DEFINE w == [op |-> "add", id |-> saves', rows |-> Top.rows,
                 exactDate |-> Top.exactDate, at |-> Len(pile), handler |-> TRUE]
<1>1. Shows("editor") /\ pile # <<>> /\ saves < MaxSaves /\ saves' = saves + 1
  BY DEF SaveTapped, Shows
<1>2. /\ Top \in Editor /\ Top = pile[Len(pile)]
      /\ Len(pile) \in Nat \ {0} /\ DOMAIN pile = 1..Len(pile)
  BY <1>1, TopScreen
<1>3. Top.rows \in Rows /\ Top.exactDate \in Dates
  BY <1>2 DEF Editor
<1>4. saves \in Nat /\ saves' \in 1..MaxSaves
  BY <1>1, Bounds DEF TypeOK
<1>5. Len(pile) \in 0..MaxDepth
  BY <1>2, Bounds DEF TypeOK
<1>6. w \in AddWrite
  BY <1>3, <1>4, <1>5 DEF AddWrite
<1>7. w \in Write
  BY <1>6 DEF Write, AddWrite
<1>8. /\ writes' = Append(writes, w)
      /\ UNCHANGED <<pile, draft, person, entries, reminder, now, log>>
  BY Zenon DEF SaveTapped
<1>9. saves' \in 0..MaxSaves /\ Len(pile) \in DOMAIN pile
  BY <1>2, <1>4, Bounds
<1>10. QED
  BY <1>1, <1>2, <1>4, <1>6, <1>7, <1>8, <1>9, Zenon

LEMMA TypeStep == TypeOK /\ [Next]_vars => TypeOK'
<1> SUFFICES ASSUME TypeOK, [Next]_vars
             PROVE  TypeOK'
  OBVIOUS
<1>1. CASE LogbookTapped
  <2>1. [type |-> "list"] \in Screens
    BY NewScreens DEF Screens
  <2>2. /\ pile' \in Seq(Editor \cup Picker \cup List) /\ Len(pile') = 1
    BY <1>1, <2>1 DEF LogbookTapped, Screens
  <2>3. QED
    BY <1>1, <2>1, <2>2, Bounds DEF TypeOK, LogbookTapped
<1>2. CASE AddNew
  <2>1. /\ draft' \in Rows
        /\ pile' \in Seq(Editor \cup Picker \cup List) /\ Len(pile') <= MaxDepth
    BY <1>2, AddNewEffect, PileGrows
  <2>2. QED
    BY <1>2, <2>1 DEF AddNew, TypeOK
<1>3. CASE TextTyped
  <2>1. pile' \in Seq(Editor \cup Picker \cup List) /\ Len(pile') <= MaxDepth
    BY <1>3, TextTypedEffect DEF TypeOK
  <2>2. QED
    BY <1>3, <2>1 DEF TextTyped, TypeOK
<1>4. CASE \E f \in {"dog", "who", "date"} : FieldTapped(f)
  <2>1. PICK f \in Handed : FieldTapped(f)
    BY <1>4 DEF Handed
  <2>2. /\ draft' \in Rows
        /\ pile' \in Seq(Editor \cup Picker \cup List) /\ Len(pile') <= MaxDepth
    BY <2>1, FieldTappedEffect
  <2>3. QED
    BY <2>1, <2>2 DEF FieldTapped, TypeOK
<1>5. CASE \E d \in Dates \ {0} : Picked(d)
  <2>1. PICK d \in Dates : Picked(d)
    BY <1>5
  <2>2. PICK f \in Handed :
           /\ draft' \in Rows
           /\ Len(pile) < MaxDepth
           /\ pile' = Append(pile, Loaded(PickedEditor(f, d)))
           /\ Loaded(PickedEditor(f, d)) \in Screens
    BY <2>1, PickedEffect
  <2>3. pile' \in Seq(Editor \cup Picker \cup List) /\ Len(pile') <= MaxDepth
    BY <2>2, PileGrows
  <2>4. QED
    BY <2>1, <2>2, <2>3 DEF Picked, TypeOK
<1>6. CASE SheetClosed
  <2>1. /\ pile' \in Seq(Editor \cup Picker \cup List) /\ Len(pile') <= MaxDepth
        /\ writes' \in Seq(Write)
    BY <1>6, SheetClosedEffect
  <2>2. QED
    BY <1>6, <2>1 DEF SheetClosed, TypeOK
<1>7. CASE SaveTapped
  <2>1. PICK w \in Write : writes' = Append(writes, w)
    BY <1>7, SaveTappedEffect
  <2>2. writes' \in Seq(Write)
    BY <2>1, AppendProperties DEF TypeOK
  <2>3. saves' \in 0..MaxSaves /\ UNCHANGED <<pile, draft, person, entries, reminder, now, log>>
    BY <1>7, SaveTappedEffect
  <2>4. QED
    BY <2>2, <2>3 DEF TypeOK
<1>8. CASE EntryStored
  <2> DEFINE w == writes[1]
  <2>1. w \in AddWrite /\ Added(w) /\ UNCHANGED <<person, now, saves>> /\ writes # <<>>
    BY <1>8, EntryStoredCases
  <2>2. entries' \subseteq 1..MaxSaves /\ log' \subseteq Stored
    BY <2>1, AddedTypes
  <2>3. Tail(writes) \in Seq(Write)
    BY <2>1, WritesRest
  <2>4. /\ draft' \in Rows /\ writes' \in Seq(Write)
        /\ reminder' \in [id : 0..MaxSaves, date : Dates]
        /\ pile' \in Seq(Editor \cup Picker \cup List) /\ Len(pile') <= MaxDepth
    <3>1. CASE /\ ~w.handler
               /\ writes' = Tail(writes)
               /\ UNCHANGED <<pile, draft, reminder>>
      BY <2>3, <3>1 DEF TypeOK
    <3>2. CASE /\ w.handler /\ w.exactDate = 0
               /\ Lost(Tail(writes))
               /\ UNCHANGED <<draft, reminder>>
      <4>1. /\ writes' \in Seq(Write)
            /\ pile' \in Seq(Editor \cup Picker \cup List) /\ Len(pile') <= MaxDepth
        BY <2>3, <3>2, LostEffect
      <4>2. QED
        BY <3>2, <4>1 DEF TypeOK
    <3>3. CASE /\ w.handler /\ w.exactDate # 0
               /\ RunNotification(w)
               /\ draft' = EmptyRows
               /\ writes' = Tail(writes)
               /\ \E shown \in BOOLEAN :
                     /\ shown => Len(pile) < MaxDepth
                     /\ shown => w.at = Len(pile) /\ w.at # 0
                     /\ pile' = IF shown THEN Append(Dirty(pile), [type |-> "list"])
                                         ELSE Dirty(pile)
      <4>1. reminder' \in [id : 0..MaxSaves, date : Dates]
        BY <2>1, <3>3, RunsNotification
      <4>2. pile' \in Seq(Editor \cup Picker \cup List) /\ Len(pile') <= MaxDepth
        BY <3>3, DirtyEffect
      <4>3. draft' \in Rows
        BY <3>3, NewScreens
      <4>4. QED
        BY <2>3, <3>3, <4>1, <4>2, <4>3
    <3>4. QED
      BY <1>8, <3>1, <3>2, <3>3, EntryStoredCases
  <2>5. QED
    BY <2>1, <2>2, <2>4 DEF TypeOK
<1>9. CASE WriteRefused
  <2>1. writes' \in Seq(Write)
    BY <1>9, WritesRest DEF WriteRefused
  <2>2. QED
    BY <1>9, <2>1 DEF WriteRefused, TypeOK
<1>10. CASE \E id \in entries : EntryRemoved(id)
  <2>1. PICK id \in entries : EntryRemoved(id)
    BY <1>10
  <2>2. [op |-> "delete", id |-> id, handler |-> TRUE] \in Write
    BY <2>1 DEF Write, TypeOK
  <2>3. writes' \in Seq(Write)
    BY <2>1, <2>2, AppendProperties DEF TypeOK, EntryRemoved
  <2>4. QED
    BY <2>1, <2>3 DEF EntryRemoved, TypeOK
<1>11. CASE EntryGone
  <2>1. writes' \in Seq(Write)
    BY <1>11, WritesRest DEF EntryGone
  <2>2. QED
    BY <1>11, <2>1 DEF EntryGone, TypeOK
<1>12. CASE Relaunched
  <2>1. /\ pile' \in Seq(Editor \cup Picker \cup List) /\ Len(pile') <= MaxDepth
        /\ writes' \in Seq(Write)
    BY <1>12, LostEffect DEF Relaunched, TypeOK
  <2>2. QED
    BY <1>12, <2>1 DEF Relaunched, TypeOK
<1>13. CASE Tick
  <2>1. now' \in Dates
    BY <1>13, Bounds DEF Tick, TypeOK, Dates
  <2>2. NoReminder \in [id : 0..MaxSaves, date : Dates]
    BY Bounds DEF NoReminder
  <2>3. QED
    BY <1>13, <2>1, <2>2 DEF Tick, TypeOK
<1>14. CASE UNCHANGED vars
  BY <1>14 DEF vars, TypeOK
<1>15. QED
  BY <1>1, <1>2, <1>3, <1>4, <1>5, <1>6, <1>7, <1>8, <1>9, <1>10, <1>11, <1>12, <1>13, <1>14
     DEF Next

\* The screens, the draft, the queue, the entries and the reminder are always such.
THEOREM TypeCorrect == Spec => []TypeOK
<1>1. Init => TypeOK
  <2> SUFFICES ASSUME Init PROVE TypeOK
    OBVIOUS
  <2>1. /\ pile \in Seq(Editor \cup Picker \cup List) /\ Len(pile) <= MaxDepth
        /\ writes \in Seq(Write)
    BY EmptySeq, Bounds DEF Init
  <2>2. /\ EmptyRows \in Rows /\ NoReminder \in [id : 0..MaxSaves, date : Dates]
        /\ 0 \in 0..MaxSaves
    BY Bounds DEF EmptyRows, Rows, NoReminder
  <2>3. QED
    BY <2>1, <2>2, Bounds DEF Init, TypeOK
<1>2. QED
  BY <1>1, TypeStep, PTL DEF Spec

-----------------------------------------------------------------------------
(* What travels from screen to screen.  A field is known when a screen      *)
(* opened now would show it; an instance keeps the field it was handed, and *)
(* whatever else it shows is known, unless the draft was cleared under it.  *)

Known == FilledIn(draft) \cup WhoOf

HandedOK(e) ==
    /\ e.exactDate # 0 => "date" \in e.handed /\ e.rows.date = e.exactDate
    /\ \A f \in e.handed : Filled(e.rows, f)

EditorOK(e, known) ==
    /\ HandedOK(e)
    /\ e.clean => FilledIn(e.rows) \subseteq known \cup e.handed \cup {"text"}

ScreenOK(c, known) ==
    /\ c.type = "editor" => EditorOK(c, known)
    /\ c.type = "picker" => c.seen \subseteq known

ScreensOK == \A i \in DOMAIN pile : ScreenOK(pile[i], Known)

\* What an instance writes to the draft it has read fills no field less.
LEMMA MergedKeeps ==
    ASSUME draft \in Rows, NEW e \in Editor, HandedOK(e)
    PROVE  /\ FilledIn(draft) \subseteq FilledIn(Merged(e))
           /\ e.handed \subseteq FilledIn(Merged(e))
           /\ Filled(e.rows, "text") => "text" \in FilledIn(Merged(e))
           /\ "date" \in e.handed => Merged(e).date = e.rows.date
<1> DEFINE m == Merged(e)
<1>1. e.handed \subseteq Fields
  BY DEF Editor, Fields
<1>2. \A f \in Fields : Filled(m, f) = IF f \in e.handed \/ (f = "text" /\ e.rows.text)
                                       THEN Filled(e.rows, f) ELSE Filled(draft, f)
  BY MergedFilled
<1>3. Filled(e.rows, "text") = e.rows.text
  BY DEF Filled
<1>4. "date" \in e.handed => m.date = e.rows.date
  BY DEF Merged, Fields
<1> HIDE DEF m
<1>5. \A f \in e.handed : Filled(m, f)
  BY <1>1, <1>2 DEF HandedOK
<1>6. Filled(e.rows, "text") => Filled(m, "text")
  <2>1. "text" \in Fields
    BY DEF Fields
  <2>2. QED
    BY <1>2, <1>3, <2>1
<1>7. \A f \in Fields : Filled(draft, f) => Filled(m, f)
  <2> SUFFICES ASSUME NEW f \in Fields, Filled(draft, f)
               PROVE  Filled(m, f)
    OBVIOUS
  <2>1. CASE f \in e.handed
    BY <1>5, <2>1
  <2>2. CASE f = "text" /\ e.rows.text
    BY <1>3, <1>6, <2>2
  <2>3. CASE ~(f \in e.handed \/ (f = "text" /\ e.rows.text))
    BY <1>2, <2>3
  <2>4. QED
    BY <2>1, <2>2, <2>3
<1>8. FilledIn(draft) \subseteq FilledIn(m)
  BY <1>7 DEF FilledIn
<1>9. e.handed \subseteq FilledIn(m)
  BY <1>1, <1>5 DEF FilledIn
<1>10. Filled(e.rows, "text") => "text" \in FilledIn(m)
  BY <1>6 DEF FilledIn, Fields
<1>11. QED
  BY <1>4, <1>8, <1>9, <1>10 DEF m

\* An instance that has read the draft shows what is known, and its field.
LEMMA LoadedOK ==
    ASSUME draft \in Rows, person \in BOOLEAN, NEW e \in Editor, HandedOK(e)
    PROVE  ScreenOK(Loaded(e), FilledIn(Merged(e)) \cup WhoOf)
<1> DEFINE l == Loaded(e)
           known == FilledIn(Merged(e)) \cup WhoOf
<1>1. /\ l \in Editor /\ l.handed = e.handed /\ l.exactDate = e.exactDate
      /\ l.rows = [Merged(e) EXCEPT !.who = @ \/ person]
  BY LoadedEditor
<1>2. FilledIn(l.rows) = known
  BY LoadedFilled
<1>3. Merged(e) \in Rows
  BY MergedRows
<1>4. l.rows.date = Merged(e).date
  BY <1>1, <1>3 DEF Rows
<1>5. e.handed \subseteq known
  BY MergedKeeps
<1> HIDE DEF l, known
<1>6. \A f \in l.handed : Filled(l.rows, f)
  BY <1>1, <1>2, <1>5 DEF FilledIn
<1>7. l.exactDate # 0 => "date" \in l.handed /\ l.rows.date = l.exactDate
  BY <1>1, <1>4, MergedKeeps DEF HandedOK
<1>8. HandedOK(l)
  BY <1>6, <1>7 DEF HandedOK
<1>9. l.type # "picker"
  BY <1>1 DEF Editor
<1>10. EditorOK(l, known)
  BY <1>2, <1>8 DEF EditorOK
<1>11. ScreenOK(l, known)
  BY <1>9, <1>10 DEF ScreenOK
<1>12. QED
  BY <1>11 DEF l, known

LEMMA StaysOK ==
    ASSUME NEW c, NEW known, NEW more, known \subseteq more, ScreenOK(c, known)
    PROVE  ScreenOK(c, more)
BY DEF ScreenOK, EditorOK

LEMMA DirtiedOK ==
    ASSUME NEW c \in Screens, NEW known, NEW other, ScreenOK(c, known)
    PROVE  ScreenOK(Dirtied(c), other)
<1>1. CASE c.type = "editor"
  <2>1. c \in Editor /\ Dirtied(c) = [c EXCEPT !.clean = FALSE]
    BY <1>1, DirtiedKinds
  <2>2. /\ Dirtied(c).exactDate = c.exactDate /\ Dirtied(c).handed = c.handed
        /\ Dirtied(c).rows = c.rows /\ Dirtied(c).clean = FALSE
        /\ Dirtied(c).type = "editor"
    BY <1>1, <2>1 DEF Editor
  <2>3. QED
    BY <1>1, <2>2 DEF ScreenOK, EditorOK, HandedOK
<1>2. CASE c.type = "picker"
  <2>1. c \in Picker /\ Dirtied(c) = [c EXCEPT !.seen = {}]
    BY <1>2, DirtiedKinds
  <2>2. Dirtied(c).seen = {} /\ Dirtied(c).type = "picker"
    BY <1>2, <2>1 DEF Picker
  <2>3. QED
    BY <2>2 DEF ScreenOK
<1>3. CASE c.type \notin {"editor", "picker"}
  <2>1. Dirtied(c) = c
    BY <1>3, DirtiedKinds
  <2>2. QED
    BY <1>3, <2>1 DEF ScreenOK
<1>4. QED
  BY <1>1, <1>2, <1>3

\* Typing a text leaves an editor as it should be.
LEMMA TypedOK ==
    ASSUME NEW e \in Editor, NEW known, ScreenOK(e, known)
    PROVE  ScreenOK([e EXCEPT !.rows.text = TRUE], known)
<1> DEFINE t == [e EXCEPT !.rows.text = TRUE]
<1>1. e.rows \in Rows
  BY DEF Editor
<1>2. /\ t.exactDate = e.exactDate /\ t.handed = e.handed /\ t.clean = e.clean
      /\ t.type = "editor" /\ e.type = "editor"
      /\ t.rows = [e.rows EXCEPT !.text = TRUE]
  BY DEF Editor
<1>3. /\ t.rows.date = e.rows.date
      /\ \A f \in Fields \ {"text"} : t.rows[f] = e.rows[f]
  BY <1>1, <1>2 DEF Rows, Fields
<1> HIDE DEF t
<1>4. \A f \in Fields \ {"text"} : Filled(t.rows, f) = Filled(e.rows, f)
  BY <1>3 DEF Filled
<1>5. FilledIn(t.rows) \subseteq FilledIn(e.rows) \cup {"text"}
  BY <1>4 DEF FilledIn
<1>6. e.handed \subseteq Fields \ {"text"}
  BY DEF Editor, Fields
<1>7. EditorOK(e, known)
  BY <1>2 DEF ScreenOK
<1>8. HandedOK(t)
  BY <1>2, <1>3, <1>4, <1>6, <1>7 DEF EditorOK, HandedOK
<1>9. EditorOK(t, known)
  BY <1>2, <1>5, <1>7, <1>8 DEF EditorOK
<1>10. ScreenOK(t, known)
  BY <1>2, <1>9 DEF ScreenOK
<1>11. QED
  BY <1>10 DEF t

\* A new screen over the others, after the draft has grown.
LEMMA OpensOK ==
    ASSUME TypeOK, ScreensOK, Len(pile) < MaxDepth, NEW x \in Screens,
           pile' = Append(pile, x), Known \subseteq Known', ScreenOK(x, Known')
    PROVE  ScreensOK'
<1>1. /\ Len(pile) \in Nat
      /\ DOMAIN pile = 1..Len(pile) /\ DOMAIN pile' = 1..(Len(pile) + 1)
      /\ \A i \in 1..Len(pile) : pile'[i] = pile[i]
      /\ pile'[Len(pile) + 1] = x
  BY PileGrows
<1>2. \A i \in 1..Len(pile) : ScreenOK(pile'[i], Known')
  BY <1>1, StaysOK DEF ScreensOK
<1>3. \A i \in 1..(Len(pile) + 1) : i \in 1..Len(pile) \/ i = Len(pile) + 1
  BY <1>1
<1>4. QED
  BY <1>1, <1>2, <1>3 DEF ScreensOK

\* The editor a picker opens has the field it was handed.
LEMMA PickedOK ==
    ASSUME TypeOK, NEW f \in Handed, NEW d \in Dates \ {0}
    PROVE  HandedOK(PickedEditor(f, d))
<1> DEFINE e == PickedEditor(f, d)
<1>1. /\ e.rows = [EmptyRows EXCEPT ![f] = IF f = "date" THEN d ELSE TRUE]
      /\ e.handed = {f}
      /\ e.exactDate = IF f = "date" THEN d ELSE 0
  BY PickedEditorType
<1> HIDE DEF e
<1>2. e.rows[f] = IF f = "date" THEN d ELSE TRUE
  BY <1>1 DEF EmptyRows, Handed
<1>3. CASE f = "date"
  <2>1. e.rows.date = d /\ e.exactDate = d /\ "date" \in e.handed
    BY <1>1, <1>2, <1>3
  <2>2. Filled(e.rows, "date")
    BY <2>1 DEF Filled
  <2>3. HandedOK(e)
    BY <1>1, <1>3, <2>1, <2>2 DEF HandedOK
  <2>4. QED
    BY <2>3 DEF e
<1>4. CASE f # "date"
  <2>1. e.exactDate = 0 /\ Filled(e.rows, f)
    BY <1>1, <1>2, <1>4 DEF Filled
  <2>2. HandedOK(e)
    BY <1>1, <2>1 DEF HandedOK
  <2>3. QED
    BY <2>2 DEF e
<1>5. QED
  BY <1>3, <1>4

LEMMA BlankOK == HandedOK(BlankEditor)
BY DEF HandedOK, BlankEditor

\* What the draft knows does not shrink while an instance reads it.
LEMMA KnownGrows ==
    ASSUME draft \in Rows, NEW e \in Editor, HandedOK(e), draft' = Merged(e), person' = person
    PROVE  Known \subseteq Known' /\ Known' = FilledIn(Merged(e)) \cup WhoOf
<1>1. FilledIn(draft) \subseteq FilledIn(draft')
  BY MergedKeeps
<1>2. WhoOf' = WhoOf
  BY DEF WhoOf
<1>3. Known' = FilledIn(draft') \cup WhoOf'
  BY DEF Known
<1>4. QED
  BY <1>1, <1>2, <1>3 DEF Known

LEMMA ScreensStep == TypeOK /\ ScreensOK /\ [Next]_vars => ScreensOK'
<1> SUFFICES ASSUME TypeOK, ScreensOK, [Next]_vars
             PROVE  ScreensOK'
  OBVIOUS
<1>0. /\ draft \in Rows /\ person \in BOOLEAN
      /\ pile \in Seq(Screens) /\ DOMAIN pile = 1..Len(pile) /\ Len(pile) \in Nat
  BY LenProperties DEF TypeOK, Screens
<1>a. UNCHANGED <<draft, person>> => Known' = Known
  BY DEF Known, WhoOf
<1>1. CASE LogbookTapped
  <2>1. DOMAIN pile' = {1} /\ pile'[1] = [type |-> "list"]
    BY <1>1 DEF LogbookTapped
  <2>2. ScreenOK([type |-> "list"], Known')
    BY DEF ScreenOK
  <2>3. QED
    BY <2>1, <2>2 DEF ScreensOK
<1>2. CASE AddNew
  <2> DEFINE l == Loaded(BlankEditor)
  <2>1. /\ BlankEditor \in Editor /\ draft' = Merged(BlankEditor)
        /\ Len(pile) < MaxDepth /\ pile' = Append(pile, l) /\ l \in Screens
    BY <1>2, AddNewEffect
  <2>2. person' = person
    BY <1>2 DEF AddNew
  <2>3. /\ Known \subseteq Known' /\ Known' = FilledIn(Merged(BlankEditor)) \cup WhoOf
    BY <1>0, <2>1, <2>2, BlankOK, KnownGrows
  <2>4. ScreenOK(l, Known')
    BY <1>0, <2>1, <2>3, BlankOK, LoadedOK
  <2> HIDE DEF l
  <2>5. QED
    BY <2>1, <2>3, <2>4, OpensOK
<1>3. CASE TextTyped
  <2> DEFINE t == [Top EXCEPT !.rows.text = TRUE]
  <2>1. /\ Top \in Editor /\ Top = pile[Len(pile)] /\ Len(pile) \in DOMAIN pile
        /\ DOMAIN pile' = DOMAIN pile
        /\ \A i \in DOMAIN pile : pile'[i] = IF i = Len(pile) THEN t ELSE pile[i]
    BY <1>0, <1>3, TextTypedEffect
  <2>2. Known' = Known
    BY <1>3, <1>a DEF TextTyped
  <2>3. ScreenOK(t, Known)
    BY <2>1, TypedOK DEF ScreensOK
  <2> HIDE DEF t
  <2>4. QED
    BY <2>1, <2>2, <2>3 DEF ScreensOK
<1>4. CASE \E f \in {"dog", "who", "date"} : FieldTapped(f)
  <2>1. PICK f \in Handed : FieldTapped(f)
    BY <1>4 DEF Handed
  <2> DEFINE e == Top
             l == Loaded(Top)
             p == [type |-> "picker", of |-> f,
                   seen |-> IF Top.clean THEN FilledIn(Top.rows) ELSE {}]
  <2>2. /\ e \in Editor /\ e = pile[Len(pile)] /\ draft' = Merged(e)
        /\ Len(pile) \in Nat \ {0} /\ DOMAIN pile' = 1..(Len(pile) + 1)
        /\ \A i \in 1..(Len(pile) - 1) : pile'[i] = pile[i]
        /\ pile'[Len(pile)] = l
        /\ pile'[Len(pile) + 1] = p
    BY <2>1, FieldTappedEffect
  <2>3. person' = person
    BY <2>1 DEF FieldTapped
  <2>4. EditorOK(e, Known)
    <3>1. Len(pile) \in DOMAIN pile
      BY <1>0, <2>2
    <3>2. ScreenOK(e, Known)
      BY <2>2, <3>1 DEF ScreensOK
    <3>3. e.type = "editor"
      BY <2>2 DEF Editor
    <3>4. QED
      BY <3>2, <3>3 DEF ScreenOK
  <2>5. HandedOK(e)
    BY <2>4 DEF EditorOK
  <2>6. /\ Known \subseteq Known' /\ Known' = FilledIn(Merged(e)) \cup WhoOf
    BY <1>0, <2>2, <2>3, <2>5, KnownGrows
  <2>7. ScreenOK(l, Known')
    BY <1>0, <2>2, <2>5, <2>6, LoadedOK
  <2>8. ScreenOK(p, Known')
    <3>1. /\ e.handed \subseteq Known'
          /\ Filled(e.rows, "text") => "text" \in Known'
      BY <1>0, <2>2, <2>5, <2>6, MergedKeeps
    <3>2. e.clean => FilledIn(e.rows) \subseteq Known'
      BY <2>4, <2>6, <3>1 DEF EditorOK, FilledIn
    <3>3. p.seen \subseteq Known'
      BY <3>2
    <3>4. p.type # "editor"
      OBVIOUS
    <3> HIDE DEF p
    <3>5. QED
      BY <3>3, <3>4 DEF ScreenOK
  <2>9. \A i \in 1..(Len(pile) - 1) : ScreenOK(pile[i], Known)
    BY <1>0 DEF ScreensOK
  <2>10. \A i \in 1..(Len(pile) - 1) : ScreenOK(pile'[i], Known')
    BY <2>2, <2>6, <2>9, StaysOK
  <2>11. \A i \in 1..(Len(pile) + 1) :
            i \in 1..(Len(pile) - 1) \/ i = Len(pile) \/ i = Len(pile) + 1
    BY <2>2
  <2> HIDE DEF l, p
  <2>12. QED
    BY <2>2, <2>7, <2>8, <2>10, <2>11 DEF ScreensOK
<1>5. CASE \E d \in Dates \ {0} : Picked(d)
  <2>1. PICK d \in Dates \ {0} : Picked(d)
    BY <1>5
  <2>2. PICK f \in Handed :
           /\ PickedEditor(f, d) \in Editor
           /\ draft' = Merged(PickedEditor(f, d))
           /\ Len(pile) < MaxDepth
           /\ pile' = Append(pile, Loaded(PickedEditor(f, d)))
           /\ Loaded(PickedEditor(f, d)) \in Screens
    BY <2>1, PickedEffect
  <2>3. person' = person
    BY <2>1 DEF Picked
  <2>4. HandedOK(PickedEditor(f, d))
    BY PickedOK
  <2>5. Known \subseteq Known' /\ Known' = FilledIn(Merged(PickedEditor(f, d))) \cup WhoOf
    BY <1>0, <2>2, <2>3, <2>4, KnownGrows
  <2>6. ScreenOK(Loaded(PickedEditor(f, d)), Known')
    BY <1>0, <2>2, <2>4, <2>5, LoadedOK
  <2>7. QED
    BY <2>2, <2>5, <2>6, OpensOK
<1>6. CASE SheetClosed
  <2>1. /\ Len(pile) \in Nat \ {0}
        /\ DOMAIN pile' = 1..(Len(pile) - 1)
        /\ \A i \in 1..(Len(pile) - 1) : pile'[i] = pile[i]
    BY <1>6, SheetClosedEffect
  <2>2. Known' = Known
    BY <1>6, <1>a DEF SheetClosed
  <2>3. QED
    BY <1>0, <2>1, <2>2 DEF ScreensOK
<1>7. CASE EntryStored
  <2> DEFINE w == writes[1]
  <2>1. CASE /\ ~w.handler
             /\ writes' = Tail(writes)
             /\ UNCHANGED <<pile, draft, reminder>>
    <3>1. Known' = Known /\ pile' = pile
      BY <1>7, <1>a, <2>1, EntryStoredCases
    <3>2. QED
      BY <3>1 DEF ScreensOK
  <2>2. CASE /\ w.handler /\ w.exactDate = 0
             /\ Lost(Tail(writes))
             /\ UNCHANGED <<draft, reminder>>
    <3>1. DOMAIN pile' = {}
      BY <2>2 DEF Lost
    <3>2. QED
      BY <3>1 DEF ScreensOK
  <2>3. CASE \E shown \in BOOLEAN :
                /\ shown => Len(pile) < MaxDepth
                /\ shown => w.at = Len(pile) /\ w.at # 0
                /\ pile' = IF shown THEN Append(Dirty(pile), [type |-> "list"])
                                    ELSE Dirty(pile)
    <3>1. /\ \A i \in DOMAIN pile : pile[i] \in Screens /\ pile'[i] = Dirtied(pile[i])
          /\ \A i \in DOMAIN pile' \ DOMAIN pile : pile'[i] = [type |-> "list"]
      BY <2>3, DirtyEffect
    <3>2. \A i \in DOMAIN pile : ScreenOK(pile'[i], Known')
      BY <3>1, DirtiedOK DEF ScreensOK
    <3>3. ScreenOK([type |-> "list"], Known')
      BY DEF ScreenOK
    <3>4. QED
      BY <3>1, <3>2, <3>3 DEF ScreensOK
  <2>4. QED
    BY <1>7, <2>1, <2>2, <2>3, EntryStoredCases
<1>8. CASE SaveTapped \/ WriteRefused \/ EntryGone \/ Tick
           \/ (\E id \in entries : EntryRemoved(id)) \/ UNCHANGED vars
  <2>1. UNCHANGED <<pile, draft, person>>
    BY <1>8 DEF SaveTapped, WriteRefused, EntryGone, Tick, EntryRemoved, vars
  <2>2. QED
    BY <1>a, <2>1 DEF ScreensOK
<1>9. CASE Relaunched
  <2>1. DOMAIN pile' = {}
    BY <1>9 DEF Relaunched, Lost
  <2>2. QED
    BY <2>1 DEF ScreensOK
<1>10. QED
  BY <1>1, <1>2, <1>3, <1>4, <1>5, <1>6, <1>7, <1>8, <1>9 DEF Next

LEMMA ScreensAreOK == Spec => []ScreensOK
<1>1. Init => ScreensOK
  BY DEF Init, ScreensOK
<1>2. QED
  BY <1>1, TypeCorrect, ScreensStep, PTL DEF Spec

-----------------------------------------------------------------------------
(* The handlers of the writes: one that will look for its screen finds the  *)
(* instance that was saved.                                                 *)

HandlerOK(w, screens) ==
    w.op = "add" /\ w.handler /\ w.at # 0 =>
        w.at \in DOMAIN screens /\ screens[w.at].type = "editor"

HandlersOK == \A i \in DOMAIN writes : HandlerOK(writes[i], pile)

\* The editors of the pile are where they were.
EditorsStay ==
    \A i \in DOMAIN pile :
       pile[i].type = "editor" => i \in DOMAIN pile' /\ pile'[i].type = "editor"

LEMMA GrowsKeeps ==
    ASSUME TypeOK, Len(pile) < MaxDepth, NEW x \in Screens, pile' = Append(pile, x)
    PROVE  EditorsStay
<1>1. /\ DOMAIN pile = 1..Len(pile) /\ DOMAIN pile' = 1..(Len(pile) + 1) /\ Len(pile) \in Nat
      /\ \A i \in 1..Len(pile) : pile'[i] = pile[i]
  BY PileGrows
<1>2. QED
  BY <1>1 DEF EditorsStay

LEMMA HandlersStay ==
    ASSUME HandlersOK, EditorsStay, NEW i \in DOMAIN writes
    PROVE  HandlerOK(writes[i], pile')
BY DEF HandlersOK, HandlerOK, EditorsStay

\* The screens that cover others, or change, leave the editors in their places.
LEMMA ScreensKeepEditors ==
    ASSUME TypeOK,
           \/ LogbookTapped \/ AddNew \/ TextTyped
           \/ \E f \in {"dog", "who", "date"} : FieldTapped(f)
           \/ \E d \in Dates \ {0} : Picked(d)
    PROVE  EditorsStay /\ writes' = writes
<1>1. CASE LogbookTapped
  BY <1>1 DEF LogbookTapped, EditorsStay
<1>2. CASE AddNew
  <2>1. EditorsStay
    BY <1>2, AddNewEffect, GrowsKeeps
  <2>2. QED
    BY <1>2, <2>1 DEF AddNew
<1>3. CASE TextTyped
  <2> DEFINE t == [Top EXCEPT !.rows.text = TRUE]
  <2>1. /\ t \in Editor /\ DOMAIN pile' = DOMAIN pile
        /\ \A i \in DOMAIN pile : pile'[i] = IF i = Len(pile) THEN t ELSE pile[i]
    BY <1>3, TextTypedEffect
  <2>2. t.type = "editor"
    BY <2>1 DEF Editor
  <2> HIDE DEF t
  <2>3. EditorsStay
    BY <2>1, <2>2 DEF EditorsStay
  <2>4. QED
    BY <1>3, <2>3 DEF TextTyped
<1>4. CASE \E f \in {"dog", "who", "date"} : FieldTapped(f)
  <2>1. PICK f \in Handed : FieldTapped(f)
    BY <1>4 DEF Handed
  <2>2. /\ Loaded(Top) \in Editor /\ Len(pile) \in Nat \ {0}
        /\ DOMAIN pile = 1..Len(pile) /\ DOMAIN pile' = 1..(Len(pile) + 1)
        /\ \A i \in 1..(Len(pile) - 1) : pile'[i] = pile[i]
        /\ pile'[Len(pile)] = Loaded(Top)
    BY <2>1, FieldTappedEffect
  <2>3. pile'[Len(pile)].type = "editor"
    BY <2>2 DEF Editor
  <2>4. \A i \in 1..Len(pile) : /\ i \in 1..(Len(pile) - 1) \/ i = Len(pile)
                                /\ i \in 1..(Len(pile) + 1)
    <3>1. Len(pile) \in Nat \ {0}
      BY <2>2
    <3>2. QED
      BY <3>1
  <2>5. EditorsStay
    BY <2>2, <2>3, <2>4 DEF EditorsStay
  <2>6. QED
    BY <2>1, <2>5 DEF FieldTapped
<1>5. CASE \E d \in Dates \ {0} : Picked(d)
  <2>1. PICK d \in Dates : Picked(d)
    BY <1>5
  <2>2. PICK f \in Handed :
           /\ Len(pile) < MaxDepth
           /\ pile' = Append(pile, Loaded(PickedEditor(f, d)))
           /\ Loaded(PickedEditor(f, d)) \in Screens
    BY <2>1, PickedEffect
  <2>3. EditorsStay
    BY <2>2, GrowsKeeps
  <2>4. QED
    BY <2>1, <2>3 DEF Picked
<1>6. QED
  BY <1>1, <1>2, <1>3, <1>4, <1>5

\* An answered write is dropped from the front of the queue.
LEMMA RestOfHandlers ==
    ASSUME TypeOK, HandlersOK, writes # <<>>, writes' = Tail(writes), EditorsStay
    PROVE  HandlersOK'
<1>1. \A i \in DOMAIN writes' : writes'[i] = writes[i + 1] /\ i + 1 \in DOMAIN writes
  BY WritesRest
<1>2. QED
  BY <1>1, HandlersStay DEF HandlersOK

\* A write joins the queue, and nothing else happens.
LEMMA MoreHandlers ==
    ASSUME TypeOK, HandlersOK, NEW w \in Write, writes' = Append(writes, w), pile' = pile,
           HandlerOK(w, pile)
    PROVE  HandlersOK'
<1>1. /\ DOMAIN writes' = 1..(Len(writes) + 1)
      /\ \A i \in 1..Len(writes) : writes'[i] = writes[i]
      /\ writes'[Len(writes) + 1] = w
  BY Opens DEF TypeOK
<1>2. DOMAIN writes = 1..Len(writes) /\ Len(writes) \in Nat
  BY LenProperties DEF TypeOK
<1>3. \A i \in 1..(Len(writes) + 1) : i \in 1..Len(writes) \/ i = Len(writes) + 1
  BY <1>2
<1>4. QED
  BY <1>1, <1>2, <1>3 DEF HandlersOK

LEMMA HandlersLost ==
    ASSUME NEW q \in Seq(Write), Lost(q)
    PROVE  HandlersOK'
<1>1. /\ DOMAIN writes' = DOMAIN q
      /\ \A i \in DOMAIN q : writes'[i] = Unheard(q[i]) /\ q[i] \in Write
  BY LostEffect, LenProperties, ElementOfSeq
<1>2. \A w \in Write : w.op = "add" => ~Unheard(w).handler /\ Unheard(w).op = w.op
  BY WriteKinds DEF Unheard, AddWrite
<1>3. \A w \in Write : w.op # "add" => Unheard(w).op # "add"
  BY WriteKinds DEF Unheard, DeleteWrite
<1>4. \A w \in Write : HandlerOK(Unheard(w), pile')
  BY <1>2, <1>3 DEF HandlerOK
<1>5. QED
  BY <1>1, <1>4 DEF HandlersOK

LEMMA HandlersStep == TypeOK /\ HandlersOK /\ [Next]_vars => HandlersOK'
<1> SUFFICES ASSUME TypeOK, HandlersOK, [Next]_vars
             PROVE  HandlersOK'
  OBVIOUS
<1>0. pile' = pile => EditorsStay
  BY DEF EditorsStay
<1>1. CASE \/ LogbookTapped \/ AddNew \/ TextTyped
           \/ \E f \in {"dog", "who", "date"} : FieldTapped(f)
           \/ \E d \in Dates \ {0} : Picked(d)
  <2>1. EditorsStay /\ writes' = writes
    BY <1>1, ScreensKeepEditors
  <2>2. QED
    BY <2>1, HandlersStay DEF HandlersOK
<1>2. CASE SheetClosed
  <2>1. /\ Len(pile) \in Nat \ {0} /\ DOMAIN pile = 1..Len(pile)
        /\ DOMAIN pile' = 1..(Len(pile) - 1)
        /\ \A i \in 1..(Len(pile) - 1) : pile'[i] = pile[i]
    BY <1>2, SheetClosedEffect
  <2>2. /\ writes \in Seq(Write) /\ DOMAIN writes' = DOMAIN writes
        /\ \A i \in DOMAIN writes :
              writes'[i] = IF writes[i].op = "add" /\ writes[i].at = Len(pile)
                           THEN Unshown(writes[i]) ELSE writes[i]
    BY <1>2, SheetClosedEffect DEF TypeOK
  <2> SUFFICES ASSUME NEW i \in DOMAIN writes
               PROVE  HandlerOK(writes'[i], pile')
    BY <2>2 DEF HandlersOK
  <2>3. writes[i] \in Write
    BY <2>2, LenProperties, ElementOfSeq
  <2>4. CASE writes[i].op = "add" /\ writes[i].at = Len(pile)
    <3>1. writes'[i] = Unshown(writes[i]) /\ writes[i] \in AddWrite
      BY <2>2, <2>3, <2>4, WriteKinds
    <3>2. writes'[i].at = 0
      BY <3>1 DEF Unshown, AddWrite
    <3>3. QED
      BY <3>2 DEF HandlerOK
  <2>5. CASE ~(writes[i].op = "add" /\ writes[i].at = Len(pile))
    <3>1. writes'[i] = writes[i]
      BY <2>2, <2>5
    <3> SUFFICES ASSUME writes[i].op = "add", writes[i].handler, writes[i].at # 0
                 PROVE  writes[i].at \in DOMAIN pile' /\ pile'[writes[i].at].type = "editor"
      BY <3>1 DEF HandlerOK
    <3>2. writes[i].at \in DOMAIN pile /\ pile[writes[i].at].type = "editor"
      BY DEF HandlersOK, HandlerOK
    <3>3. writes[i].at \in 1..(Len(pile) - 1)
      BY <2>1, <2>5, <3>2
    <3>4. QED
      BY <2>1, <3>2, <3>3
  <2>6. QED
    BY <2>4, <2>5
<1>3. CASE SaveTapped
  <2>1. PICK w \in Write :
           /\ w.op = "add" /\ w.at = Len(pile)
           /\ Len(pile) \in DOMAIN pile /\ pile[Len(pile)].type = "editor"
           /\ writes' = Append(writes, w) /\ pile' = pile
    BY <1>3, SaveTappedEffect DEF Editor
  <2>2. HandlerOK(w, pile)
    BY <2>1 DEF HandlerOK
  <2>3. QED
    BY <2>1, <2>2, MoreHandlers
<1>4. CASE EntryStored
  <2> DEFINE w == writes[1]
  <2>1. writes # <<>>
    BY <1>4, EntryStoredCases
  <2>2. CASE /\ ~w.handler
             /\ writes' = Tail(writes)
             /\ UNCHANGED <<pile, draft, reminder>>
    BY <1>0, <2>1, <2>2, RestOfHandlers
  <2>3. CASE /\ w.handler /\ w.exactDate = 0
             /\ Lost(Tail(writes))
             /\ UNCHANGED <<draft, reminder>>
    BY <2>1, <2>3, WritesRest, HandlersLost
  <2>4. CASE /\ writes' = Tail(writes)
             /\ \E shown \in BOOLEAN :
                   /\ shown => Len(pile) < MaxDepth
                   /\ shown => w.at = Len(pile) /\ w.at # 0
                   /\ pile' = IF shown THEN Append(Dirty(pile), [type |-> "list"])
                                       ELSE Dirty(pile)
    <3>1. /\ DOMAIN pile \subseteq DOMAIN pile'
          /\ \A i \in DOMAIN pile : pile[i] \in Screens /\ pile'[i] = Dirtied(pile[i])
      BY <2>4, DirtyEffect
    <3>2. EditorsStay
      BY <3>1, DirtiedKinds DEF EditorsStay
    <3>3. QED
      BY <2>1, <2>4, <3>2, RestOfHandlers
  <2>5. QED
    BY <1>4, <2>2, <2>3, <2>4, EntryStoredCases
<1>5. CASE WriteRefused
  BY <1>0, <1>5, RestOfHandlers DEF WriteRefused
<1>6. CASE \E id \in entries : EntryRemoved(id)
  <2>1. PICK id \in entries : EntryRemoved(id)
    BY <1>6
  <2> DEFINE w == [op |-> "delete", id |-> id, handler |-> TRUE]
  <2>2. w \in Write
    BY <2>1 DEF Write, TypeOK
  <2>3. HandlerOK(w, pile)
    BY DEF HandlerOK
  <2>4. writes' = Append(writes, w) /\ pile' = pile
    BY <2>1 DEF EntryRemoved
  <2> HIDE DEF w
  <2>5. QED
    BY <2>2, <2>3, <2>4, MoreHandlers
<1>7. CASE EntryGone
  BY <1>0, <1>7, RestOfHandlers DEF EntryGone
<1>8. CASE Relaunched
  BY <1>8, HandlersLost DEF Relaunched, TypeOK
<1>9. CASE Tick \/ UNCHANGED vars
  <2>1. UNCHANGED <<pile, writes>>
    BY <1>9 DEF Tick, vars
  <2>2. QED
    BY <2>1 DEF HandlersOK
<1>10. QED
  BY <1>1, <1>2, <1>3, <1>4, <1>5, <1>6, <1>7, <1>8, <1>9 DEF Next

LEMMA HandlersAreOK == Spec => []HandlersOK
<1>1. Init => HandlersOK
  BY DEF Init, HandlersOK
<1>2. QED
  BY <1>1, TypeCorrect, HandlersStep, PTL DEF Spec

\* Only a picker that hands on its field opens a screen over a picker.
LEMMA OnlyPicked ==
    ASSUME TypeOK, HandlersOK, Next, Shows("picker"), Len(pile') > Len(pile)
    PROVE  \E d \in Dates \ {0} : Picked(d)
<1>0. /\ pile # <<>> /\ Len(pile) \in Nat \ {0} /\ Top = pile[Len(pile)]
      /\ Top.type = "picker"
  BY TopScreen DEF Shows
<1>1. ~LogbookTapped /\ ~AddNew /\ ~TextTyped /\ \A f \in {"dog", "who", "date"} : ~FieldTapped(f)
  BY <1>0 DEF LogbookTapped, AddNew, TextTyped, FieldTapped, Shows
<1>2. ~SaveTapped
  BY <1>0 DEF SaveTapped, Shows
<1>3. pile' # pile /\ Len(pile') # 0
  BY <1>0
<1>4. ~SheetClosed
  <2> SUFFICES ASSUME SheetClosed PROVE FALSE
    OBVIOUS
  <2>1. Len(pile') = Len(pile) - 1
    BY <1>0, TopScreen DEF SheetClosed
  <2>2. QED
    BY <1>0, <2>1
<1>5. ~Relaunched
  BY <1>3, EmptySeq DEF Relaunched, Lost
<1>6. ~WriteRefused /\ ~EntryGone /\ ~Tick /\ \A id \in entries : ~EntryRemoved(id)
  BY <1>3 DEF WriteRefused, EntryGone, Tick, EntryRemoved
<1>7. ~EntryStored
  <2> SUFFICES ASSUME EntryStored PROVE FALSE
    OBVIOUS
  <2> DEFINE w == writes[1]
  <2>1. w \in AddWrite /\ w.op = "add" /\ 1 \in DOMAIN writes
    BY EntryStoredCases, WritesRest
  <2>2. ~Lost(Tail(writes))
    BY <1>3, EmptySeq DEF Lost
  <2>3. PICK shown \in BOOLEAN :
           /\ w.handler
           /\ shown => w.at = Len(pile) /\ w.at # 0
           /\ pile' = IF shown THEN Append(Dirty(pile), [type |-> "list"])
                               ELSE Dirty(pile)
    BY <1>3, <2>2, EntryStoredCases
  <2>4. ~shown
    <3>1. HandlerOK(w, pile)
      BY <2>1 DEF HandlersOK
    <3>2. shown => pile[Len(pile)].type = "editor"
      BY <2>1, <2>3, <3>1 DEF HandlerOK
    <3>3. QED
      BY <1>0, <3>2
  <2>5. Len(Dirty(pile)) = Len(pile)
    <3>1. pile \in Seq(Screens)
      BY DEF TypeOK, Screens
    <3>2. \A i \in DOMAIN pile : pile[i] \in Screens
      BY <3>1, LenProperties, ElementOfSeq
    <3>3. /\ DOMAIN Dirty(pile) = DOMAIN pile
          /\ Dirty(pile) = [i \in DOMAIN pile |-> Dirty(pile)[i]]
          /\ \A i \in DOMAIN pile : Dirty(pile)[i] = Dirtied(pile[i])
      BY DEF Dirty, Dirtied
    <3>4. \A i \in DOMAIN pile : Dirty(pile)[i] \in Screens
      BY <3>2, <3>3, DirtiedKinds
    <3>5. QED
      BY <3>1, <3>3, <3>4, Mapped
  <2>6. Len(pile') = Len(pile)
    BY <2>3, <2>4, <2>5
  <2>7. QED
    BY <1>0, <2>6
<1>8. QED
  BY <1>1, <1>2, <1>4, <1>5, <1>6, <1>7 DEF Next

\* What was filled in when a picker opened is filled in on the editor it opens,
\* whatever screens and answers came between: unless an entry was stored.
THEOREM PickKeeps == Spec => PickKeepsRows
<1>1. TypeOK /\ ScreensOK /\ HandlersOK /\ [Next]_vars =>
         [ (Shows("picker") /\ Len(pile') > Len(pile)) =>
              Top.seen \subseteq FilledIn(Last(pile').rows) ]_vars
  <2> SUFFICES ASSUME TypeOK, ScreensOK, HandlersOK, Next, Shows("picker"), Len(pile') > Len(pile)
               PROVE  Top.seen \subseteq FilledIn(Last(pile').rows)
    OBVIOUS
  <2>1. PICK d \in Dates \ {0} : Picked(d)
    BY OnlyPicked
  <2>2. PICK f \in Handed :
           /\ PickedEditor(f, d) \in Editor
           /\ Len(pile) < MaxDepth
           /\ pile' = Append(pile, Loaded(PickedEditor(f, d)))
           /\ Loaded(PickedEditor(f, d)) \in Screens
    BY <2>1, PickedEffect
  <2> DEFINE e == PickedEditor(f, d)
  <2>3. Last(pile') = Loaded(e)
    BY <2>2, PileGrows
  <2>4. HandedOK(e)
    BY PickedOK
  <2>5. draft \in Rows /\ person \in BOOLEAN
    BY DEF TypeOK
  <2>6. FilledIn(Loaded(e).rows) = FilledIn(Merged(e)) \cup WhoOf
    BY <2>2, <2>5, LoadedFilled
  <2>7. Known \subseteq FilledIn(Merged(e)) \cup WhoOf
    BY <2>2, <2>4, <2>5, MergedKeeps DEF Known
  <2>8. Top.seen \subseteq Known
    <3>1. /\ pile # <<>> /\ Len(pile) \in DOMAIN pile /\ Top = pile[Len(pile)]
          /\ Top.type = "picker"
      BY TopScreen DEF Shows
    <3>2. ScreenOK(Top, Known)
      BY <3>1 DEF ScreensOK
    <3>3. QED
      BY <3>1, <3>2 DEF ScreenOK
  <2>9. QED
    BY <2>3, <2>6, <2>7, <2>8
<1>2. QED
  BY <1>1, TypeCorrect, ScreensAreOK, HandlersAreOK, PTL DEF Spec, PickKeepsRows

-----------------------------------------------------------------------------
(* The queue: a write keeps its document while screens and handlers go, and *)
(* the writes that add entries stand in the order of their saves.           *)

SameWrite(v, w) ==
    /\ v.op = w.op /\ v.id = w.id
    /\ w.op = "add" => v.rows = w.rows /\ v.exactDate = w.exactDate

\* The three ways the queue changes.
Kept ==
    /\ DOMAIN writes' = DOMAIN writes
    /\ \A i \in DOMAIN writes : SameWrite(writes'[i], writes[i])
    /\ log' = log /\ saves' = saves

Shortened ==
    /\ writes # <<>>
    /\ \A i \in DOMAIN writes' : i + 1 \in DOMAIN writes /\ SameWrite(writes'[i], writes[i + 1])
    /\ saves' = saves
    /\ log' = log \/ (writes[1].op = "add" /\ Added(writes[1]))

Joined(w) ==
    /\ writes' = Append(writes, w) /\ log' = log
    /\ IF w.op = "add" THEN saves' = saves + 1 /\ w.id = saves' ELSE saves' = saves

LEMMA SameWrites ==
    ASSUME NEW w \in Write
    PROVE  /\ SameWrite(w, w) /\ SameWrite(Unheard(w), w)
           /\ w.op = "add" => SameWrite(Unshown(w), w)
<1>1. SameWrite(w, w)
  BY DEF SameWrite
<1>2. CASE w \in AddWrite
  <2>1. /\ Unheard(w).op = w.op /\ Unheard(w).id = w.id /\ Unheard(w).rows = w.rows
        /\ Unheard(w).exactDate = w.exactDate
    BY <1>2 DEF Unheard, AddWrite
  <2>2. /\ Unshown(w).op = w.op /\ Unshown(w).id = w.id /\ Unshown(w).rows = w.rows
        /\ Unshown(w).exactDate = w.exactDate
    BY <1>2 DEF Unshown, AddWrite
  <2>3. QED
    BY <1>1, <2>1, <2>2 DEF SameWrite
<1>3. CASE w \in DeleteWrite
  <2>1. Unheard(w).op = w.op /\ Unheard(w).id = w.id /\ w.op = "delete"
    BY <1>3 DEF Unheard, DeleteWrite
  <2>2. QED
    BY <1>1, <2>1 DEF SameWrite
<1>4. QED
  BY <1>2, <1>3, WriteKinds

LEMMA WritesSame ==
    ASSUME TypeOK, UNCHANGED <<writes, log, saves>>
    PROVE  Kept
<1>1. \A i \in DOMAIN writes : writes[i] \in Write
  BY LenProperties, ElementOfSeq DEF TypeOK
<1>2. QED
  BY <1>1, SameWrites DEF Kept

LEMMA WriteLeaves ==
    ASSUME TypeOK, writes # <<>>, saves' = saves,
           \/ writes' = Tail(writes)
           \/ Lost(Tail(writes)),
           log' = log \/ (writes[1].op = "add" /\ Added(writes[1]))
    PROVE  Shortened
<1>1. /\ Tail(writes) \in Seq(Write)
      /\ \A i \in DOMAIN Tail(writes) :
            Tail(writes)[i] = writes[i + 1] /\ i + 1 \in DOMAIN writes
  BY WritesRest
<1>2. \A i \in DOMAIN Tail(writes) : writes[i + 1] \in Write
  BY <1>1, LenProperties, ElementOfSeq
<1>3. /\ DOMAIN writes' = DOMAIN Tail(writes)
      /\ \A i \in DOMAIN writes' : \/ writes'[i] = writes[i + 1]
                                   \/ writes'[i] = Unheard(writes[i + 1])
  BY <1>1, LostEffect
<1>4. QED
  BY <1>1, <1>2, <1>3, SameWrites DEF Shortened

LEMMA QueueMoves ==
    ASSUME TypeOK, [Next]_vars
    PROVE  \/ Kept
           \/ Shortened
           \/ \E w \in Write : Joined(w) /\ (w.op = "add" => SaveTapped /\ w.rows = Top.rows
                                                             /\ w.exactDate = Top.exactDate)
<1>1. CASE \/ LogbookTapped \/ AddNew \/ TextTyped
           \/ \E f \in {"dog", "who", "date"} : FieldTapped(f)
           \/ \E d \in Dates \ {0} : Picked(d)
           \/ Tick \/ UNCHANGED vars
  <2>1. UNCHANGED <<writes, log, saves>>
    BY <1>1, Zenon DEF LogbookTapped, AddNew, TextTyped, FieldTapped, Picked, Tick, vars
  <2>2. QED
    BY <2>1, WritesSame
<1>2. CASE SheetClosed
  <2>1. /\ DOMAIN writes' = DOMAIN writes
        /\ \A i \in DOMAIN writes :
              writes'[i] = IF writes[i].op = "add" /\ writes[i].at = Len(pile)
                           THEN Unshown(writes[i]) ELSE writes[i]
    BY <1>2, SheetClosedEffect
  <2>2. \A i \in DOMAIN writes : writes[i] \in Write
    BY LenProperties, ElementOfSeq DEF TypeOK
  <2>3. \A i \in DOMAIN writes : SameWrite(writes'[i], writes[i])
    BY <2>1, <2>2, SameWrites
  <2>4. log' = log /\ saves' = saves
    BY <1>2 DEF SheetClosed
  <2>5. QED
    BY <2>1, <2>3, <2>4 DEF Kept
<1>3. CASE SaveTapped
  <2> DEFINE w == [op |-> "add", id |-> saves', rows |-> Top.rows,
                   exactDate |-> Top.exactDate, at |-> Len(pile), handler |-> TRUE]
  <2>1. /\ w \in Write /\ saves' = saves + 1
        /\ writes' = Append(writes, w) /\ log' = log
    BY <1>3, SaveTappedEffect
  <2>2. /\ w.op = "add" /\ w.id = saves' /\ w.rows = Top.rows /\ w.exactDate = Top.exactDate
    OBVIOUS
  <2> HIDE DEF w
  <2>3. Joined(w)
    BY <2>1, <2>2 DEF Joined
  <2>4. QED
    BY <1>3, <2>1, <2>2, <2>3
<1>4. CASE EntryStored
  <2>1. /\ writes # <<>> /\ saves' = saves
        /\ writes[1].op = "add" /\ Added(writes[1])
        /\ writes' = Tail(writes) \/ Lost(Tail(writes))
    BY <1>4, EntryStoredCases
  <2>2. QED
    BY <2>1, WriteLeaves
<1>5. CASE WriteRefused
  BY <1>5, WriteLeaves DEF WriteRefused
<1>6. CASE \E id \in entries : EntryRemoved(id)
  <2>1. PICK id \in entries : EntryRemoved(id)
    BY <1>6
  <2> DEFINE w == [op |-> "delete", id |-> id, handler |-> TRUE]
  <2>2. w \in Write
    BY <2>1 DEF Write, TypeOK
  <2>3. w.op = "delete"
    OBVIOUS
  <2>4. writes' = Append(writes, w) /\ log' = log /\ saves' = saves
    BY <2>1 DEF EntryRemoved
  <2> HIDE DEF w
  <2>5. QED
    BY <2>2, <2>3, <2>4 DEF Joined
<1>7. CASE EntryGone
  BY <1>7, WriteLeaves DEF EntryGone
<1>8. CASE Relaunched
  <2>1. /\ DOMAIN writes' = DOMAIN writes
        /\ \A i \in DOMAIN writes : writes'[i] = Unheard(writes[i]) /\ writes[i] \in Write
    BY <1>8, LostEffect, LenProperties, ElementOfSeq DEF Relaunched, TypeOK
  <2>2. log' = log /\ saves' = saves
    BY <1>8 DEF Relaunched
  <2>3. QED
    BY <2>1, <2>2, SameWrites DEF Kept
<1>9. QED
  BY <1>1, <1>2, <1>3, <1>4, <1>5, <1>6, <1>7, <1>8 DEF Next

\* The moment of an entry, if it has one, is the date in its document.
DatesOK ==
    \A i \in DOMAIN writes :
       writes[i].op = "add" /\ writes[i].exactDate # 0 => writes[i].rows.date = writes[i].exactDate

\* Entries are stored in the order in which they were saved.
OrderOK ==
    /\ \A s \in log : s.id <= saves
    /\ \A i \in DOMAIN writes : writes[i].op = "add" =>
          writes[i].id <= saves /\ \A s \in log : s.id < writes[i].id
    /\ \A i, j \in DOMAIN writes :
          i < j /\ writes[i].op = "add" /\ writes[j].op = "add" => writes[i].id < writes[j].id

LEMMA JoinedEffect ==
    ASSUME TypeOK, NEW w \in Write, Joined(w)
    PROVE  /\ DOMAIN writes = 1..Len(writes) /\ Len(writes) \in Nat
           /\ DOMAIN writes' = 1..(Len(writes) + 1)
           /\ \A i \in DOMAIN writes : writes'[i] = writes[i]
           /\ writes'[Len(writes) + 1] = w
           /\ \A i \in DOMAIN writes' : i \in DOMAIN writes \/ i = Len(writes) + 1
<1>1. writes \in Seq(Write) /\ writes' = Append(writes, w)
  BY DEF TypeOK, Joined
<1>2. DOMAIN writes = 1..Len(writes) /\ Len(writes) \in Nat
  BY <1>1, LenProperties
<1>3. /\ DOMAIN writes' = 1..(Len(writes) + 1)
      /\ \A i \in 1..Len(writes) : writes'[i] = writes[i]
      /\ writes'[Len(writes) + 1] = w
  BY <1>1, Opens
<1>4. \A i \in 1..(Len(writes) + 1) : i \in 1..Len(writes) \/ i = Len(writes) + 1
  BY <1>2
<1>5. QED
  BY <1>2, <1>3, <1>4

LEMMA DatesStep == TypeOK /\ ScreensOK /\ DatesOK /\ [Next]_vars => DatesOK'
<1> SUFFICES ASSUME TypeOK, ScreensOK, DatesOK, [Next]_vars
             PROVE  DatesOK'
  OBVIOUS
<1>1. CASE Kept
  BY <1>1 DEF Kept, SameWrite, DatesOK
<1>2. CASE Shortened
  BY <1>2 DEF Shortened, SameWrite, DatesOK
<1>3. CASE \E w \in Write : Joined(w) /\ (w.op = "add" => SaveTapped /\ w.rows = Top.rows
                                                       /\ w.exactDate = Top.exactDate)
  <2>1. PICK w \in Write : Joined(w) /\ (w.op = "add" => SaveTapped /\ w.rows = Top.rows
                                                       /\ w.exactDate = Top.exactDate)
    BY <1>3
  <2>2. w.op = "add" /\ w.exactDate # 0 => w.rows.date = w.exactDate
    <3> SUFFICES ASSUME w.op = "add", w.exactDate # 0
                 PROVE  w.rows.date = w.exactDate
      OBVIOUS
    <3>1. /\ w.rows = Top.rows /\ w.exactDate = Top.exactDate
          /\ Top \in Editor /\ Top = pile[Len(pile)] /\ Len(pile) \in DOMAIN pile
      BY <2>1, SaveTappedEffect
    <3>2. ScreenOK(Top, Known) /\ Top.type = "editor"
      BY <3>1 DEF ScreensOK, Editor
    <3>3. HandedOK(Top)
      BY <3>2 DEF ScreenOK, EditorOK
    <3>4. QED
      BY <3>1, <3>3 DEF HandedOK
  <2>3. QED
    BY <2>1, <2>2, JoinedEffect DEF DatesOK
<1>4. QED
  BY <1>1, <1>2, <1>3, QueueMoves

LEMMA OrderStep == TypeOK /\ OrderOK /\ [Next]_vars => OrderOK'
<1> SUFFICES ASSUME TypeOK, OrderOK, [Next]_vars
             PROVE  OrderOK'
  OBVIOUS
<1>0. /\ DOMAIN writes = 1..Len(writes) /\ Len(writes) \in Nat
      /\ \A i \in DOMAIN writes : writes[i].id \in Nat
      /\ \A s \in log : s.id \in Nat
      /\ saves \in Nat
  <2>1. \A w \in Write : w.id \in Nat
    <3>1. \A w \in Write : w.id \in 1..MaxSaves
      BY WriteKinds
    <3>2. 1..MaxSaves \subseteq Nat
      BY Bounds
    <3>3. QED
      BY <3>1, <3>2
  <2>2. \A s \in log : s.id \in Nat
    BY Bounds DEF TypeOK, Stored
  <2>3. writes \in Seq(Write) /\ saves \in Nat
    BY Bounds DEF TypeOK
  <2>4. QED
    BY <2>1, <2>2, <2>3, LenProperties, ElementOfSeq
<1>1. CASE Kept
  BY <1>1 DEF Kept, SameWrite, OrderOK
<1>2. CASE Shortened
  <2>1. /\ \A i \in DOMAIN writes' : /\ i + 1 \in DOMAIN writes
                                     /\ writes'[i].op = writes[i + 1].op
                                     /\ writes'[i].id = writes[i + 1].id
        /\ saves' = saves /\ 1 \in DOMAIN writes
    BY <1>2, WritesRest DEF Shortened, SameWrite
  <2>2. DOMAIN writes' \subseteq Nat \ {0}
    <3>1. writes' \in Seq(Write)
      BY TypeStep DEF TypeOK
    <3>2. QED
      BY <3>1, LenProperties
  <2>3. \A s \in log' : \/ s \in log
                        \/ writes[1].op = "add" /\ s.id = writes[1].id
    BY <1>2 DEF Shortened, Added
  <2>4. \A s \in log' : s.id <= saves'
    BY <2>1, <2>3 DEF OrderOK
  <2>5. \A i \in DOMAIN writes' : writes'[i].op = "add" =>
           writes'[i].id <= saves' /\ \A s \in log' : s.id < writes'[i].id
    <3> SUFFICES ASSUME NEW i \in DOMAIN writes', writes'[i].op = "add"
                 PROVE  writes'[i].id <= saves' /\ \A s \in log' : s.id < writes'[i].id
      OBVIOUS
    <3>1. i + 1 \in DOMAIN writes /\ 1 \in DOMAIN writes /\ 1 < i + 1
      BY <2>1, <2>2
    <3>2. writes[1].op = "add" => writes[1].id < writes[i + 1].id
      BY <2>1, <3>1 DEF OrderOK
    <3>3. writes[i + 1].id <= saves /\ \A s \in log : s.id < writes[i + 1].id
      BY <2>1, <3>1 DEF OrderOK
    <3>4. QED
      BY <2>1, <2>3, <3>2, <3>3
  <2>6. \A i, j \in DOMAIN writes' :
           i < j /\ writes'[i].op = "add" /\ writes'[j].op = "add" => writes'[i].id < writes'[j].id
    <3> SUFFICES ASSUME NEW i \in DOMAIN writes', NEW j \in DOMAIN writes', i < j,
                        writes'[i].op = "add", writes'[j].op = "add"
                 PROVE  writes'[i].id < writes'[j].id
      OBVIOUS
    <3>1. i + 1 < j + 1
      BY <2>2
    <3>2. writes[i + 1].id < writes[j + 1].id
      BY <2>1, <3>1 DEF OrderOK
    <3>3. QED
      BY <2>1, <3>2
  <2>7. QED
    BY <2>4, <2>5, <2>6 DEF OrderOK
<1>3. CASE \E w \in Write : Joined(w)
  <2>1. PICK w \in Write : Joined(w)
    BY <1>3
  <2>2. /\ log' = log /\ saves' \in Nat /\ saves <= saves'
        /\ w.op = "add" => saves' = saves + 1 /\ w.id = saves + 1
    BY <1>0, <2>1 DEF Joined
  <2>3. /\ \A i \in DOMAIN writes : writes'[i] = writes[i]
        /\ writes'[Len(writes) + 1] = w
        /\ \A i \in DOMAIN writes' : i \in DOMAIN writes \/ i = Len(writes) + 1
    BY <2>1, JoinedEffect
  <2>4. \A s \in log' : s.id <= saves'
    BY <1>0, <2>2 DEF OrderOK
  <2>5. \A i \in DOMAIN writes' : writes'[i].op = "add" =>
           writes'[i].id <= saves' /\ \A s \in log' : s.id < writes'[i].id
    <3> SUFFICES ASSUME NEW i \in DOMAIN writes', writes'[i].op = "add"
                 PROVE  writes'[i].id <= saves' /\ \A s \in log : s.id < writes'[i].id
      BY <2>2
    <3>1. CASE i \in DOMAIN writes
      BY <1>0, <2>2, <2>3, <3>1 DEF OrderOK
    <3>2. CASE i = Len(writes) + 1
      <4>1. w.op = "add" /\ writes'[i] = w
        BY <2>3, <3>2
      <4>2. \A s \in log : s.id <= saves
        BY DEF OrderOK
      <4>3. QED
        BY <1>0, <2>2, <4>1, <4>2
    <3>3. QED
      BY <2>3, <3>1, <3>2
  <2>6. \A i, j \in DOMAIN writes' :
           i < j /\ writes'[i].op = "add" /\ writes'[j].op = "add" => writes'[i].id < writes'[j].id
    <3> SUFFICES ASSUME NEW i \in DOMAIN writes', NEW j \in DOMAIN writes', i < j,
                        writes'[i].op = "add", writes'[j].op = "add"
                 PROVE  writes'[i].id < writes'[j].id
      OBVIOUS
    <3>1. i \in DOMAIN writes
      <4>1. i \in Int /\ j \in Int /\ j <= Len(writes) + 1
        BY <1>0, <2>3
      <4>2. i # Len(writes) + 1
        BY <1>0, <4>1
      <4>3. QED
        BY <2>3, <4>2
    <3>2. CASE j \in DOMAIN writes
      BY <2>3, <3>1, <3>2 DEF OrderOK
    <3>3. CASE j = Len(writes) + 1
      <4>1. writes[i].id <= saves /\ w.id = saves + 1
        BY <2>2, <2>3, <3>1, <3>3 DEF OrderOK
      <4>2. QED
        BY <1>0, <2>3, <3>1, <3>3, <4>1
    <3>4. QED
      BY <2>3, <3>2, <3>3
  <2>7. QED
    BY <2>4, <2>5, <2>6 DEF OrderOK
<1>4. QED
  BY <1>1, <1>2, <1>3, QueueMoves

-----------------------------------------------------------------------------
(* The reminder *)

IInv == TypeOK /\ ScreensOK /\ DatesOK /\ OrderOK

LEMMA Invariance == Spec => []IInv
<1>1. Init => DatesOK /\ OrderOK
  BY DEF Init, DatesOK, OrderOK
<1>2. QED
  BY <1>1, TypeCorrect, ScreensAreOK, DatesStep, OrderStep, PTL DEF Spec, IInv

\* Storing an entry, and the clock, are all that changes the reminder or the log.
LEMMA ReminderRests ==
    ASSUME [Next]_vars, ~EntryStored, ~Tick
    PROVE  UNCHANGED <<reminder, now, log>>
<1>1. CASE \/ LogbookTapped \/ AddNew \/ TextTyped
           \/ \E f \in {"dog", "who", "date"} : FieldTapped(f)
           \/ \E d \in Dates \ {0} : Picked(d)
  BY <1>1, Zenon DEF LogbookTapped, AddNew, TextTyped, FieldTapped, Picked
<1>2. CASE \/ SheetClosed \/ SaveTapped \/ WriteRefused
           \/ \E id \in entries : EntryRemoved(id)
           \/ EntryGone \/ Relaunched \/ UNCHANGED vars
  BY <1>2, Zenon DEF SheetClosed, SaveTapped, WriteRefused, EntryRemoved, EntryGone,
                     Relaunched, vars
<1>3. QED
  BY <1>1, <1>2, Zenon DEF Next

\* What storing an entry does to the reminder and the log.
LEMMA StoredReminder ==
    ASSUME IInv, EntryStored
    PROVE  LET w == writes[1]
               s == [id |-> w.id, date |-> w.rows.date, moment |-> w.exactDate,
                     requested |-> w.handler /\ w.exactDate > now]
           IN /\ log' = log \cup {s} /\ now' = now /\ now \in Nat
              /\ \A t \in log : t.id < s.id
              /\ s.requested => /\ reminder' = [id |-> s.id, date |-> s.moment]
                                /\ s.date = s.moment
              /\ ~s.requested => reminder' = reminder
<1> DEFINE w == writes[1]
           s == [id |-> w.id, date |-> w.rows.date, moment |-> w.exactDate,
                 requested |-> w.handler /\ w.exactDate > now]
<1>0. TypeOK
  BY DEF IInv
<1>1. /\ w \in AddWrite /\ w.op = "add" /\ 1 \in DOMAIN writes
      /\ Added(w) /\ now' = now
  BY <1>0, EntryStoredCases, WritesRest
<1>2. log' = log \cup {s}
  BY <1>1 DEF Added
<1>3. now \in Nat /\ w.exactDate \in Nat /\ w.handler \in BOOLEAN
  BY <1>0, <1>1, Bounds DEF TypeOK, AddWrite, Dates
<1>4. \A t \in log : t.id < w.id
  BY <1>1 DEF IInv, OrderOK
<1>5. w.exactDate # 0 => w.rows.date = w.exactDate
  BY <1>1 DEF IInv, DatesOK
<1>6. \/ ~w.handler /\ reminder' = reminder
      \/ w.handler /\ w.exactDate = 0 /\ reminder' = reminder
      \/ w.handler /\ w.exactDate # 0 /\ RunNotification(w)
  BY <1>0, EntryStoredCases
<1> HIDE DEF w
<1>7. ASSUME w.handler, w.exactDate > now
      PROVE  /\ reminder' = [id |-> w.id, date |-> w.exactDate]
             /\ w.rows.date = w.exactDate
  <2>1. w.exactDate # 0
    BY <1>3, <1>7
  <2>2. RunNotification(w)
    BY <1>6, <1>7, <2>1
  <2>3. QED
    BY <1>5, <1>7, <2>1, <2>2 DEF RunNotification
<1>8. ASSUME ~(w.handler /\ w.exactDate > now)
      PROVE  reminder' = reminder
  <2>1. CASE w.handler /\ w.exactDate # 0 /\ RunNotification(w)
    BY <1>8, <2>1 DEF RunNotification
  <2>2. QED
    BY <1>6, <2>1
<1>9. QED
  BY <1>1, <1>2, <1>3, <1>4, <1>7, <1>8 DEF w

LEMMA ReminderStep ==
    IInv /\ ReminderDateIsStored /\ [Next]_vars => ReminderDateIsStored'
<1> SUFFICES ASSUME IInv, ReminderDateIsStored, [Next]_vars, reminder' # NoReminder
             PROVE  \E s \in log' : s.id = reminder'.id /\ s.date = reminder'.date
  BY DEF ReminderDateIsStored
<1>1. CASE EntryStored
  <2>1. PICK s \in log' :
           /\ log' = log \cup {s}
           /\ s.requested => /\ reminder' = [id |-> s.id, date |-> s.moment]
                             /\ s.date = s.moment
           /\ ~s.requested => reminder' = reminder
    BY <1>1, StoredReminder
  <2>2. CASE s.requested
    BY <2>1, <2>2
  <2>3. CASE ~s.requested
    BY <2>1, <2>3 DEF ReminderDateIsStored
  <2>4. QED
    BY <2>2, <2>3
<1>2. CASE Tick
  BY <1>2 DEF Tick, ReminderDateIsStored
<1>3. CASE ~EntryStored /\ ~Tick
  BY <1>3, ReminderRests DEF ReminderDateIsStored
<1>4. QED
  BY <1>1, <1>2, <1>3

LEMMA RequestedStep ==
    IInv /\ RequestedIsPending /\ [Next]_vars => RequestedIsPending'
<1> SUFFICES ASSUME IInv, RequestedIsPending, [Next]_vars,
                    NEW s \in log', s.requested, s.moment > now'
             PROVE  \/ reminder' = [id |-> s.id, date |-> s.moment]
                    \/ \E t \in log' : t.requested /\ t.id > s.id
  BY DEF RequestedIsPending
<1>0. TypeOK /\ log \subseteq Stored /\ now \in Nat
  BY DEF IInv, TypeOK, Dates
<1>a. ASSUME s \in log, s.moment > now, log \subseteq log', reminder' = reminder
      PROVE  \/ reminder' = [id |-> s.id, date |-> s.moment]
             \/ \E t \in log' : t.requested /\ t.id > s.id
  BY <1>a DEF RequestedIsPending
<1>1. CASE EntryStored
  <2>1. PICK n \in log' :
           /\ log' = log \cup {n} /\ now' = now
           /\ \A t \in log : t.id < n.id
           /\ n.requested => reminder' = [id |-> n.id, date |-> n.moment]
           /\ ~n.requested => reminder' = reminder
    BY <1>1, StoredReminder
  <2>2. CASE s = n
    BY <2>1, <2>2
  <2>3. CASE s \in log /\ ~n.requested
    BY <1>a, <2>1, <2>3
  <2>4. CASE s \in log /\ n.requested
    <3>1. s.id \in Nat /\ n.id \in Nat
      <4>1. log' \subseteq Stored
        BY <1>0, TypeStep DEF TypeOK
      <4>2. QED
        BY <4>1, Bounds DEF Stored
    <3>2. n.id > s.id
      BY <2>1, <2>4, <3>1
    <3>3. QED
      BY <2>4, <3>2
  <2>5. QED
    BY <2>1, <2>2, <2>3, <2>4
<1>2. CASE Tick
  <2>1. now' = now + 1 /\ log' = log
    BY <1>2 DEF Tick
  <2>2. s \in log /\ s.moment \in Nat
    BY <1>0, <2>1 DEF Stored, Dates
  <2>3. s.moment > now /\ s.moment # now'
    BY <1>0, <2>1, <2>2
  <2>4. CASE \E t \in log : t.requested /\ t.id > s.id
    BY <2>1, <2>4
  <2>5. CASE reminder = [id |-> s.id, date |-> s.moment]
    <3>1. reminder.date # now'
      BY <2>3, <2>5
    <3>2. reminder' = reminder
      BY <1>2, <3>1 DEF Tick
    <3>3. QED
      BY <2>5, <3>2
  <2>6. QED
    BY <2>2, <2>3, <2>4, <2>5 DEF RequestedIsPending
<1>3. CASE ~EntryStored /\ ~Tick
  <2>1. UNCHANGED <<reminder, now, log>>
    BY <1>3, ReminderRests
  <2>2. QED
    BY <1>a, <2>1
<1>4. QED
  BY <1>1, <1>2, <1>3

\* The pending reminder is due at the date that its entry's document holds: the text
\* in the draft and the moment handed from instance to instance are of one choice.
THEOREM ReminderIsStored == Spec => []ReminderDateIsStored
<1>1. Init => ReminderDateIsStored
  BY DEF Init, ReminderDateIsStored
<1>2. QED
  BY <1>1, Invariance, ReminderStep, PTL DEF Spec

\* A reminder asked for stays pending until it is due or a later entry asks for its own.
THEOREM RequestStays == Spec => []RequestedIsPending
<1>1. Init => RequestedIsPending
  BY DEF Init, RequestedIsPending
<1>2. QED
  BY <1>1, Invariance, RequestedStep, PTL DEF Spec
=============================================================================
