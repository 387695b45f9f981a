--------------------------- MODULE HistoryProofs ---------------------------
(***************************************************************************)
(* Proofs about History for any documents and bounds: what it takes to     *)
(* remove another row than the one chosen, and to show the wrong tab.      *)
(***************************************************************************)
EXTENDS History, SequenceTheorems, TLAPS

\* An alert opened with nothing outstanding still has its own cell, and nothing has become
\* outstanding since: the user can do nothing else while it is open.
QuietAlert == alert # None /\ alert.quiet => alert.cell = alert.chosen /\ Settled

RowInv == TypeOK /\ QuietAlert /\ WrongRowNeedsReload

\* Only the documents of t are on their way to the list.
From(t) ==
    /\ \A u \in Tabs \ {t} : asked[u] = 0
    /\ \A i \in DOMAIN main : main[i].type = "list" => main[i].rows \subseteq Home(t)

Coming(t) == asked[t] > 0 \/ \E i \in DOMAIN main : main[i].type = "list"

\* Without an overlap all that is coming is of one tab, the selected one if there is one,
\* and if nothing is coming then the list shows that tab already.
TabInv ==
    /\ TypeOK
    /\ \A t \in Tabs : stored[t] \subseteq Home(t)
    /\ ~overlap =>
          /\ \E t \in Tabs : From(t)
          /\ selected # None =>
                From(selected) /\ (Coming(selected) \/ list \subseteq Home(selected))
-----------------------------------------------------------------------------
(* Types *)

LEMMA DocsOf == \A t \in Tabs : Home(t) \subseteq Docs
  BY DEF Home, Docs

\* Asking for a tab, or for none.
LEMMA CreateArrayType ==
    ASSUME TypeOK, NEW tab, CreateArray(tab)
    PROVE  asked' \in [Tabs -> Nat] /\ overlap' \in BOOLEAN
<1>1. \A t \in Tabs : (IF t = tab THEN asked[t] + 1 ELSE asked[t]) \in Nat
  BY SMT DEF TypeOK
<1>2. asked' \in [Tabs -> Nat]
  BY <1>1 DEF CreateArray
<1>3. overlap' \in BOOLEAN
  <2>1. overlap' = (overlap \/ (tab # None /\ \E t \in Tabs \ {tab} :
                       asked[t] > 0 \/ \E i \in DOMAIN main : main[i].type = "list"))
    BY DEF CreateArray
  <2> QED
    BY <2>1
<1> QED
  BY <1>2, <1>3

LEMMA AskedLess ==
    ASSUME TypeOK, NEW t \in Tabs, asked[t] > 0, asked' = [asked EXCEPT ![t] = @ - 1]
    PROVE  asked' \in [Tabs -> Nat] /\ \A u \in Tabs : asked'[u] <= asked[u]
  BY SMT DEF TypeOK

\* The next handler, and the ones after it.
LEMMA HeadOfMain ==
    ASSUME TypeOK, main # <<>>
    PROVE  /\ Head(main) \in Handler /\ Tail(main) \in Seq(Handler)
           /\ 1 \in DOMAIN main /\ Head(main) = main[1]
           /\ \A i \in DOMAIN Tail(main) : i + 1 \in DOMAIN main /\ Tail(main)[i] = main[i + 1]
<1>1. main \in Seq(Handler)
  BY DEF TypeOK
<1>2. /\ Head(main) \in Handler /\ Tail(main) \in Seq(Handler) /\ Head(main) = main[1]
      /\ Len(Tail(main)) = Len(main) - 1
      /\ \A i \in 1..Len(Tail(main)) : Tail(main)[i] = main[i + 1]
  BY <1>1, HeadTailProperties
<1>3. DOMAIN main = 1..Len(main) /\ Len(main) \in Nat \ {0}
  BY <1>1, LenProperties, EmptySeq
<1>4. DOMAIN Tail(main) = 1..Len(Tail(main))
  BY <1>2, LenProperties
<1> QED
  BY <1>2, <1>3, <1>4

LEMMA AppendToMain ==
    ASSUME TypeOK, NEW h \in Handler, main' = Append(main, h)
    PROVE  /\ main' \in Seq(Handler)
           /\ DOMAIN main' = DOMAIN main \cup {Len(main) + 1}
           /\ \A i \in DOMAIN main : main'[i] = main[i]
           /\ main'[Len(main) + 1] = h
<1>1. main \in Seq(Handler)
  BY DEF TypeOK
<1>2. /\ main' \in Seq(Handler) /\ Len(main') = Len(main) + 1
      /\ \A i \in 1..Len(main) : main'[i] = main[i]
      /\ main'[Len(main) + 1] = h
  BY <1>1, AppendProperties
<1>3. DOMAIN main = 1..Len(main) /\ DOMAIN main' = 1..Len(main') /\ Len(main) \in Nat
  BY <1>1, <1>2, LenProperties
<1> QED
  BY <1>2, <1>3

\* Reloading the table keeps the alert, its cell apart.
LEMMA ReloadKeeps ==
    ASSUME TypeOK, NEW rows \in SUBSET Docs, Reload(rows)
    PROVE  /\ alert' \in Alert \cup {None}
           /\ alert = None => alert' = None
           /\ alert # None => alert'.quiet = alert.quiet
<1>1. CASE alert = None
  BY <1>1 DEF Reload
<1>2. CASE alert # None
  <2>1. alert \in Alert
    BY <1>2 DEF TypeOK
  <2>2. PICK doc \in rows \cup {alert.cell} : alert' = [alert EXCEPT !.cell = doc]
    BY <1>2 DEF Reload
  <2>3. doc \in Docs
    BY <2>1, <2>2 DEF Alert
  <2> QED
    BY <1>2, <2>1, <2>2, <2>3 DEF Alert
<1> QED
  BY <1>1, <1>2

\* delete() is called once more, or one of the calls is answered.
LEMMA RemovalConfirmedType ==
    ASSUME TypeOK, RemovalConfirmed
    PROVE  /\ removals' \in Seq(Removal) /\ Len(removals') <= MaxRemovals
           /\ DOMAIN removals' = DOMAIN removals \cup {Len(removals) + 1}
           /\ \A i \in DOMAIN removals : removals'[i] = removals[i]
           /\ removals'[Len(removals) + 1] = [tab |-> alert.tab, chosen |-> alert.chosen,
                  doc |-> alert.cell, quiet |-> alert.quiet, status |-> "queued"]
<1> DEFINE r == [tab |-> alert.tab, chosen |-> alert.chosen,
                 doc |-> alert.cell, quiet |-> alert.quiet, status |-> "queued"]
<1>1. alert \in Alert
  BY DEF TypeOK, RemovalConfirmed
<1>2. r \in Removal
  BY <1>1 DEF Alert, Removal
<1>3. removals \in Seq(Removal) /\ Len(removals) \in Nat /\ DOMAIN removals = 1..Len(removals)
  BY LenProperties DEF TypeOK
<1>4. removals' = Append(removals, r) /\ Len(removals) < MaxRemovals
  BY DEF RemovalConfirmed
<1> HIDE DEF r
<1>5. /\ removals' \in Seq(Removal) /\ Len(removals') = Len(removals) + 1
      /\ \A i \in 1..Len(removals) : removals'[i] = removals[i]
      /\ removals'[Len(removals) + 1] = r
  BY <1>2, <1>3, <1>4, AppendProperties
<1>6. DOMAIN removals' = 1..Len(removals')
  BY <1>5, LenProperties
<1>7. Len(removals') <= MaxRemovals
  BY <1>3, <1>4, <1>5, HistoryBounds
<1> QED
  BY <1>3, <1>5, <1>6, <1>7 DEF r

LEMMA RemovalAnsweredType ==
    ASSUME TypeOK, NEW status \in {"done", "refused"}, RemovalAnswered(status)
    PROVE  /\ removals' \in Seq(Removal) /\ Len(removals') <= MaxRemovals
           /\ DOMAIN removals' = DOMAIN removals
           /\ \A i \in DOMAIN removals : /\ removals[i] \in Removal
                                         /\ removals'[i].doc = removals[i].doc
                                         /\ removals'[i].chosen = removals[i].chosen
                                         /\ removals'[i].quiet = removals[i].quiet
           /\ stored' \in [Tabs -> SUBSET Docs]
           /\ \A t \in Tabs : stored'[t] \subseteq stored[t]
           /\ main' = main \/ main' = Append(main, [type |-> "removed"])
           /\ \E i \in DOMAIN removals : removals[i].status = "queued"
<1>1. PICK i \in DOMAIN removals :
        /\ removals[i].status = "queued"
        /\ removals' = [removals EXCEPT ![i].status = status]
        /\ IF status = "refused" THEN UNCHANGED <<stored, main>>
           ELSE /\ stored' = [stored EXCEPT ![removals[i].tab] = @ \ {removals[i].doc}]
                /\ main' = Append(main, [type |-> "removed"])
  BY DEF RemovalAnswered
<1>2. removals \in Seq(Removal) /\ Len(removals) \in Nat /\ DOMAIN removals = 1..Len(removals)
  BY LenProperties DEF TypeOK
<1>3. \A j \in DOMAIN removals : removals[j] \in Removal
  BY <1>2, ElementOfSeq
<1> DEFINE w == [removals[i] EXCEPT !.status = status]
<1>4. /\ w \in Removal /\ w.doc = removals[i].doc /\ w.chosen = removals[i].chosen
      /\ w.quiet = removals[i].quiet
  BY <1>1, <1>3 DEF Removal
<1>5. removals' = [removals EXCEPT ![i] = w]
  BY <1>1
<1> HIDE DEF w
<1>6. /\ removals' \in Seq(Removal) /\ Len(removals') = Len(removals)
      /\ \A j \in 1..Len(removals) : removals'[j] = IF j = i THEN w ELSE removals[j]
  BY <1>1, <1>2, <1>4, <1>5, ExceptSeq
<1>7. DOMAIN removals' = DOMAIN removals
  BY <1>2, <1>6, LenProperties
<1>8. /\ stored' \in [Tabs -> SUBSET Docs] /\ \A t \in Tabs : stored'[t] \subseteq stored[t]
      /\ main' = main \/ main' = Append(main, [type |-> "removed"])
  BY <1>1 DEF TypeOK
<1>9. Len(removals') <= MaxRemovals
  BY <1>6 DEF TypeOK
<1> QED
  BY <1>1, <1>2, <1>3, <1>4, <1>6, <1>7, <1>8, <1>9

\* The type invariant is inductive.
LEMMA TypeInit == Init => TypeOK
<1> SUFFICES ASSUME Init PROVE TypeOK
  OBVIOUS
<1>1. asked \in [Tabs -> Nat]
  BY DEF Init
<1>2. main \in Seq(Handler) /\ removals \in Seq(Removal) /\ Len(removals) <= MaxRemovals
  BY HistoryBounds, EmptySeq DEF Init
<1> QED
  BY <1>1, <1>2 DEF Init, TypeOK, Tabs

LEMMA TypeNext == TypeOK /\ [Next]_vars => TypeOK'
<1> SUFFICES ASSUME TypeOK, [Next]_vars PROVE TypeOK'
  OBVIOUS
<1>1. ASSUME NEW t \in Tabs, TabTapped(t) PROVE TypeOK'
  <2>1. CASE selected # t
    <3>1. asked' \in [Tabs -> Nat] /\ overlap' \in BOOLEAN
      BY <1>1, <2>1, CreateArrayType DEF TabTapped
    <3> QED
      BY <1>1, <2>1, <3>1 DEF TabTapped, TypeOK
  <2>2. CASE selected = t
    BY <1>1, <2>2 DEF TabTapped, TypeOK
  <2> QED
    BY <2>1, <2>2
<1>2. CASE Refreshed
  <2>1. asked' \in [Tabs -> Nat] /\ overlap' \in BOOLEAN
    BY <1>2, CreateArrayType DEF Refreshed, UpdateList
  <2> QED
    BY <1>2, <2>1 DEF Refreshed, UpdateList, TypeOK
<1>3. ASSUME NEW doc \in Docs, RowSwiped(doc) PROVE TypeOK'
  <2>1. Settled \in BOOLEAN
    BY DEF Settled
  <2>2. alert' \in Alert
    BY <1>3, <2>1 DEF RowSwiped, Alert, Tabs
  <2> QED
    BY <1>3, <2>2 DEF RowSwiped, TypeOK
<1>4. CASE RemovalConfirmed
  BY <1>4, RemovalConfirmedType DEF RemovalConfirmed, TypeOK
<1>5. CASE RemovalCancelled
  BY <1>5 DEF RemovalCancelled, TypeOK
<1>6. ASSUME NEW t \in Tabs, QueryAnswered(t) PROVE TypeOK'
  <2>1. PICK rows \in SUBSET Visible(t) : main' = Append(main, [type |-> "list", rows |-> rows])
    BY <1>6 DEF QueryAnswered
  <2>2. [type |-> "list", rows |-> rows] \in Handler
    BY <2>1 DEF Handler, Visible, TypeOK
  <2>3. main' \in Seq(Handler)
    BY <2>1, <2>2, AppendToMain
  <2>4. asked' \in [Tabs -> Nat]
    BY <1>6, AskedLess DEF QueryAnswered
  <2> QED
    BY <1>6, <2>3, <2>4 DEF QueryAnswered, TypeOK
<1>7. ASSUME NEW t \in Tabs, QueryFails(t) PROVE TypeOK'
  <2>1. asked' \in [Tabs -> Nat]
    BY <1>7, AskedLess DEF QueryFails
  <2> QED
    BY <1>7, <2>1 DEF QueryFails, TypeOK
<1>8. ASSUME NEW status \in {"done", "refused"}, RemovalAnswered(status) PROVE TypeOK'
  <2>1. [type |-> "removed"] \in Handler
    BY DEF Handler
  <2>2. main' \in Seq(Handler)
    BY <1>8, <2>1, RemovalAnsweredType, AppendToMain DEF TypeOK
  <2>3. /\ removals' \in Seq(Removal) /\ Len(removals') <= MaxRemovals
        /\ stored' \in [Tabs -> SUBSET Docs]
    BY <1>8, RemovalAnsweredType
  <2>4. UNCHANGED <<selected, list, asked, alert, overlap>>
    BY <1>8 DEF RemovalAnswered
  <2> QED
    BY <2>2, <2>3, <2>4 DEF TypeOK
<1>9. ASSUME NEW t \in Tabs, Stored(t) PROVE TypeOK'
  <2>1. stored' \in [Tabs -> SUBSET Docs]
    BY <1>9, DocsOf DEF Stored, TypeOK
  <2> QED
    BY <1>9, <2>1 DEF Stored, TypeOK
<1>10. CASE RowsArrive
  <2>1. Head(main) \in Handler /\ Tail(main) \in Seq(Handler)
    BY <1>10, HeadOfMain DEF RowsArrive
  <2>2. Head(main).rows \in SUBSET Docs
    BY <1>10, <2>1 DEF RowsArrive, Handler
  <2>3. alert' \in Alert \cup {None}
    BY <1>10, <2>2, ReloadKeeps DEF RowsArrive
  <2> QED
    BY <1>10, <2>1, <2>2, <2>3 DEF RowsArrive, TypeOK
<1>11. CASE RemovalArrives
  <2>1. Tail(main) \in Seq(Handler)
    BY <1>11, HeadOfMain DEF RemovalArrives
  <2>2. asked' \in [Tabs -> Nat] /\ overlap' \in BOOLEAN
    BY <1>11, CreateArrayType DEF RemovalArrives, UpdateList
  <2> QED
    BY <1>11, <2>1, <2>2 DEF RemovalArrives, UpdateList, TypeOK
<1>12. CASE UNCHANGED vars
  BY <1>12 DEF vars, TypeOK
<1> QED
  BY <1>1, <1>2, <1>3, <1>4, <1>5, <1>6, <1>7, <1>8, <1>9, <1>10, <1>11, <1>12
     DEF Next, Firestore, MainQueue

-----------------------------------------------------------------------------
(* The row that is removed *)

\* While nothing is outstanding only the user can do something.
LEMMA QuietStays ==
    ASSUME TypeOK, Settled, removals' = removals, asked' = asked, main' = main
    PROVE  Settled'
  BY DEF Settled, Queued

LEMMA RowInit == Init => RowInv
<1> SUFFICES ASSUME Init PROVE QuietAlert /\ WrongRowNeedsReload
  BY TypeInit DEF RowInv
<1> QED
  BY DEF Init, QuietAlert, WrongRowNeedsReload

LEMMA RowNext == RowInv /\ [Next]_vars => RowInv'
<1> SUFFICES ASSUME RowInv, [Next]_vars PROVE (QuietAlert /\ WrongRowNeedsReload)'
  BY TypeNext DEF RowInv
<1> USE DEF RowInv
<1>1. ASSUME NEW t \in Tabs, TabTapped(t) PROVE (QuietAlert /\ WrongRowNeedsReload)'
  BY <1>1 DEF TabTapped, MayAsk, UserActs, QuietAlert, WrongRowNeedsReload
<1>2. CASE Refreshed
  BY <1>2 DEF Refreshed, MayAsk, UserActs, QuietAlert, WrongRowNeedsReload
<1>3. ASSUME NEW doc \in Docs, RowSwiped(doc) PROVE (QuietAlert /\ WrongRowNeedsReload)'
  <2>1. Settled => Settled'
    BY <1>3, QuietStays DEF RowSwiped
  <2>2. alert'.cell = alert'.chosen /\ (alert'.quiet <=> Settled)
    BY <1>3 DEF RowSwiped
  <2> QED
    BY <1>3, <2>1, <2>2 DEF RowSwiped, QuietAlert, WrongRowNeedsReload
<1>4. CASE RemovalConfirmed
  <2>1. alert.quiet => alert.cell = alert.chosen
    BY <1>4 DEF RemovalConfirmed, QuietAlert
  <2>2. WrongRowNeedsReload'
    BY <1>4, <2>1, RemovalConfirmedType DEF WrongRowNeedsReload
  <2> QED
    BY <1>4, <2>2 DEF RemovalConfirmed, QuietAlert
<1>5. CASE RemovalCancelled
  BY <1>5 DEF RemovalCancelled, QuietAlert, WrongRowNeedsReload
<1>6. ASSUME NEW t \in Tabs, QueryAnswered(t) PROVE (QuietAlert /\ WrongRowNeedsReload)'
  <2>1. ~Settled
    BY <1>6, SMT DEF QueryAnswered, Settled, TypeOK
  <2> QED
    BY <1>6, <2>1 DEF QueryAnswered, QuietAlert, WrongRowNeedsReload
<1>7. ASSUME NEW t \in Tabs, QueryFails(t) PROVE (QuietAlert /\ WrongRowNeedsReload)'
  <2>1. ~Settled
    BY <1>7, SMT DEF QueryFails, Settled, TypeOK
  <2> QED
    BY <1>7, <2>1 DEF QueryFails, QuietAlert, WrongRowNeedsReload
<1>8. ASSUME NEW status \in {"done", "refused"}, RemovalAnswered(status)
      PROVE  (QuietAlert /\ WrongRowNeedsReload)'
  <2>1. ~Settled
    <3>1. PICK i \in DOMAIN removals : removals[i].status = "queued"
      BY <1>8, RemovalAnsweredType
    <3>2. removals[i].tab \in Tabs
      BY <1>8, RemovalAnsweredType DEF Removal
    <3>3. removals[i].doc \in Queued(removals[i].tab)
      BY <3>1 DEF Queued
    <3> QED
      BY <3>2, <3>3 DEF Settled
  <2>2. WrongRowNeedsReload'
    BY <1>8, RemovalAnsweredType DEF WrongRowNeedsReload
  <2> QED
    BY <1>8, <2>1, <2>2 DEF RemovalAnswered, QuietAlert
<1>9. ASSUME NEW t \in Tabs, Stored(t) PROVE (QuietAlert /\ WrongRowNeedsReload)'
  BY <1>9, QuietStays DEF Stored, QuietAlert, WrongRowNeedsReload
<1>10. CASE RowsArrive
  <2>1. ~Settled
    BY <1>10 DEF RowsArrive, Settled
  <2>2. Head(main).rows \in SUBSET Docs
    BY <1>10, HeadOfMain DEF RowsArrive, Handler
  <2>3. (alert = None => alert' = None) /\ (alert # None => alert'.quiet = alert.quiet)
    BY <1>10, <2>2, ReloadKeeps DEF RowsArrive
  <2> QED
    BY <1>10, <2>1, <2>3 DEF RowsArrive, QuietAlert, WrongRowNeedsReload
<1>11. CASE RemovalArrives
  BY <1>11 DEF RemovalArrives, Settled, QuietAlert, WrongRowNeedsReload
<1>12. CASE UNCHANGED vars
  BY <1>12, QuietStays DEF vars, QuietAlert, WrongRowNeedsReload
<1> QED
  BY <1>1, <1>2, <1>3, <1>4, <1>5, <1>6, <1>7, <1>8, <1>9, <1>10, <1>11, <1>12
     DEF Next, Firestore, MainQueue

\* Type correctness of the history, for any documents and bounds.
THEOREM TypeCorrect == Spec => []TypeOK
  BY TypeInit, TypeNext, PTL DEF Spec

\* Another row than the one chosen is removed only if an answer was outstanding when the
\* alert was opened (lines 303, 333).
THEOREM WrongRow == Spec => []WrongRowNeedsReload
<1>1. RowInv => WrongRowNeedsReload
  BY DEF RowInv
<1> QED
  BY <1>1, RowInit, RowNext, PTL DEF Spec

-----------------------------------------------------------------------------
(* The tab that is shown *)

HomesKept == \A t \in Tabs : stored[t] \subseteq Home(t)

OneTab == ~overlap =>
    /\ \E t \in Tabs : From(t)
    /\ selected # None => From(selected) /\ (Coming(selected) \/ list \subseteq Home(selected))

LEMMA TabInvParts == TabInv <=> TypeOK /\ HomesKept /\ OneTab
  BY DEF TabInv, HomesKept, OneTab

\* Nothing that is looked at changes.
LEMMA SameTab ==
    ASSUME OneTab, overlap' = overlap, asked' = asked, main' = main,
           selected' = selected, list' = list
    PROVE  OneTab'
  BY DEF OneTab, From, Coming

\* What a tab asks for comes from it, unless that makes an overlap.
LEMMA OneTabAsked ==
    ASSUME TypeOK, OneTab, NEW t \in Tabs, CreateArray(t), main' = main, ~overlap'
    PROVE  From(t)' /\ Coming(t)'
<1>1. \A u \in Tabs \ {t} : asked[u] = 0 /\ asked'[u] = 0
  <2>1. \A u \in Tabs \ {t} : ~(asked[u] > 0)
    BY CollectionsDiffer DEF CreateArray
  <2>2. \A u \in Tabs : asked[u] \in Nat
    BY DEF TypeOK
  <2>3. \A u \in Tabs \ {t} : asked[u] = 0
    BY <2>1, <2>2, SMT
  <2> QED
    BY <2>3 DEF CreateArray
<1>2. \A i \in DOMAIN main : main[i].type # "list"
  <2>1. PICK u \in Tabs : u # t
    <3>1. t = "walk" \/ t # "walk"
      OBVIOUS
    <3> QED
      BY <3>1 DEF Tabs
  <2>2. t # None
    BY CollectionsDiffer
  <2> QED
    BY <2>1, <2>2 DEF CreateArray
<1>3. asked'[t] > 0
  BY SMT DEF CreateArray, TypeOK
<1> QED
  BY <1>1, <1>2, <1>3 DEF From, Coming

LEMMA TabInit == Init => HomesKept /\ OneTab
<1> SUFFICES ASSUME Init PROVE HomesKept /\ OneTab
  OBVIOUS
<1>1. From("walk")
  BY DEF Init, From, Tabs
<1>2. "walk" \in Tabs /\ selected = "walk" /\ list = {}
  BY DEF Init, Tabs
<1> QED
  BY <1>1, <1>2 DEF Init, HomesKept, OneTab

LEMMA TabNext == TabInv /\ [Next]_vars => (HomesKept /\ OneTab)'
<1> SUFFICES ASSUME TypeOK, HomesKept, OneTab, [Next]_vars PROVE (HomesKept /\ OneTab)'
  BY TabInvParts
<1>1. ASSUME NEW t \in Tabs, TabTapped(t) PROVE (HomesKept /\ OneTab)'
  <2>1. CASE selected # t
    <3>1. CreateArray(t) /\ main' = main /\ selected' = t
      BY <1>1, <2>1 DEF TabTapped
    <3>2. ~overlap' => From(t)' /\ Coming(t)'
      BY <3>1, OneTabAsked
    <3> QED
      BY <1>1, <3>1, <3>2 DEF TabTapped, HomesKept, OneTab
  <2>2. CASE selected = t
    <3>1. From(t) => From(t)'
      BY <1>1, <2>2 DEF TabTapped, From
    <3>2. selected # None
      BY <2>2, CollectionsDiffer
    <3> QED
      BY <1>1, <2>2, <3>1, <3>2 DEF TabTapped, HomesKept, OneTab
  <2> QED
    BY <2>1, <2>2
<1>2. ASSUME UpdateList, stored' = stored, selected' = selected, TypeOK,
             \/ main' = main
             \/ main # <<>> /\ Head(main).type = "removed" /\ main' = Tail(main)
      PROVE  (HomesKept /\ OneTab)'
  <2>1. CreateArray(selected) /\ list' = {}
    BY <1>2 DEF UpdateList
  <2>2. ASSUME NEW t \in Tabs, From(t), t = selected \/ selected = None PROVE From(t)'
    <3>1. \A u \in Tabs \ {t} : asked'[u] = 0
      BY <2>1, <2>2, CollectionsDiffer DEF CreateArray, From, Tabs
    <3>2. \A i \in DOMAIN main' : main'[i].type = "list" => main'[i].rows \subseteq Home(t)
      BY <1>2, <2>2, HeadOfMain DEF From
    <3> QED
      BY <3>1, <3>2 DEF From
  <2>3. ~overlap' => ~overlap
    BY <2>1 DEF CreateArray
  <2>4. selected \in Tabs \cup {None}
    BY DEF TypeOK
  <2>5. HomesKept'
    BY <1>2 DEF HomesKept
  <2>6. CASE selected = None
    BY <1>2, <2>2, <2>3, <2>5, <2>6 DEF OneTab
  <2>7. CASE selected # None
    BY <1>2, <2>1, <2>2, <2>3, <2>4, <2>5, <2>7 DEF OneTab
  <2> QED
    BY <2>6, <2>7
<1>3. CASE Refreshed
  BY <1>3, <1>2 DEF Refreshed
<1>4. CASE RemovalArrives
  BY <1>4, <1>2 DEF RemovalArrives
<1>5. ASSUME NEW t \in Tabs, QueryAnswered(t) PROVE (HomesKept /\ OneTab)'
  <2>1. PICK rows \in SUBSET Visible(t) : main' = Append(main, [type |-> "list", rows |-> rows])
    BY <1>5 DEF QueryAnswered
  <2>2. rows \subseteq Home(t) /\ [type |-> "list", rows |-> rows] \in Handler
    BY <2>1, DocsOf DEF Handler, Visible, HomesKept
  <2>3. /\ asked' \in [Tabs -> Nat]
        /\ \A u \in Tabs : asked'[u] <= asked[u]
    BY <1>5, AskedLess DEF QueryAnswered
  <2>4. ASSUME NEW u \in Tabs, From(u) PROVE From(u)'
    <3>1. u = t
      BY <1>5, <2>4, SMT DEF QueryAnswered, From, TypeOK
    <3>2. \A v \in Tabs \ {u} : asked'[v] = 0
      BY <2>3, <2>4, SMT DEF From
    <3>3. \A i \in DOMAIN main' : main'[i].type = "list" => main'[i].rows \subseteq Home(u)
      BY <2>1, <2>2, <2>4, <3>1, AppendToMain DEF From
    <3> QED
      BY <3>2, <3>3 DEF From
  <2>5. \A u \in Tabs : Coming(u)'
    <3>1. Len(main) + 1 \in DOMAIN main' /\ main'[Len(main) + 1].type = "list"
      BY <2>1, <2>2, AppendToMain
    <3> QED
      BY <3>1 DEF Coming
  <2> QED
    BY <1>5, <2>4, <2>5 DEF QueryAnswered, HomesKept, OneTab, TypeOK
<1>6. ASSUME NEW t \in Tabs, QueryFails(t) PROVE (HomesKept /\ OneTab)'
  BY <1>6 DEF QueryFails, HomesKept, OneTab
<1>7. ASSUME NEW status \in {"done", "refused"}, RemovalAnswered(status)
      PROVE  (HomesKept /\ OneTab)'
  <2>1. UNCHANGED <<selected, list, asked, overlap>>
    BY <1>7 DEF RemovalAnswered
  <2>2. HomesKept'
    BY <1>7, RemovalAnsweredType DEF HomesKept
  <2>3. CASE main' = main
    BY <2>1, <2>2, <2>3, SameTab
  <2>4. CASE main' = Append(main, [type |-> "removed"])
    <3>1. [type |-> "removed"] \in Handler
      BY DEF Handler
    <3>2. /\ DOMAIN main' = DOMAIN main \cup {Len(main) + 1}
          /\ \A i \in DOMAIN main : main'[i] = main[i]
          /\ main'[Len(main) + 1].type = "removed"
      BY <2>4, <3>1, AppendToMain
    <3>3. \A t \in Tabs : From(t) => From(t)'
      BY <2>1, <3>2 DEF From
    <3>4. \A t \in Tabs : Coming(t) => Coming(t)'
      BY <2>1, <3>2 DEF Coming
    <3> QED
      BY <2>1, <2>2, <3>3, <3>4 DEF OneTab, TypeOK
  <2> QED
    BY <1>7, <2>3, <2>4, RemovalAnsweredType
<1>8. ASSUME NEW t \in Tabs, Stored(t) PROVE (HomesKept /\ OneTab)'
  <2>1. HomesKept'
    BY <1>8 DEF Stored, HomesKept, TypeOK
  <2> QED
    BY <1>8, <2>1, SameTab DEF Stored
<1>9. CASE RowsArrive
  <2>1. \A t \in Tabs : From(t) => From(t)' /\ list' \subseteq Home(t)
    <3>1. ASSUME NEW t \in Tabs, From(t) PROVE From(t)' /\ list' \subseteq Home(t)
      BY <1>9, <3>1, HeadOfMain DEF RowsArrive, From
    <3> QED
      BY <3>1
  <2>2. UNCHANGED <<stored, selected, overlap>>
    BY <1>9 DEF RowsArrive
  <2> QED
    BY <2>1, <2>2 DEF HomesKept, OneTab, TypeOK
<1>10. ASSUME NEW doc \in Docs, RowSwiped(doc) PROVE (HomesKept /\ OneTab)'
  BY <1>10, SameTab DEF RowSwiped, HomesKept
<1>11. CASE RemovalConfirmed
  BY <1>11, SameTab DEF RemovalConfirmed, HomesKept
<1>12. CASE RemovalCancelled
  BY <1>12, SameTab DEF RemovalCancelled, HomesKept
<1>13. CASE UNCHANGED vars
  BY <1>13, SameTab DEF vars, HomesKept
<1> QED
  BY <1>1, <1>3, <1>4, <1>5, <1>6, <1>7, <1>8, <1>9, <1>10, <1>11, <1>12, <1>13
     DEF Next, Firestore, MainQueue

\* With nothing outstanding the list is that of the selected tab, unless two tabs were asked
\* for at the same time or a query failed (createArray, lines 133-239).
THEOREM WrongTab == Spec => []WrongTabNeedsOverlap
<1>1. TabInv => WrongTabNeedsOverlap
  <2> SUFFICES ASSUME OneTab, Settled, selected # None, ~overlap, TypeOK
               PROVE  list \subseteq Home(selected)
    BY TabInvParts DEF WrongTabNeedsOverlap
  <2>1. ~Coming(selected)
    <3>1. asked[selected] = 0 /\ main = <<>>
      BY DEF Settled, TypeOK
    <3> QED
      BY <3>1, SMT DEF Coming
  <2> QED
    BY <2>1 DEF OneTab
<1>2. Init => TabInv
  BY TypeInit, TabInit, TabInvParts
<1>3. TabInv /\ [Next]_vars => TabInv'
  <2>1. TabInv /\ [Next]_vars => TypeOK' /\ HomesKept' /\ OneTab'
    BY TypeNext, TabNext, TabInvParts
  <2>2. TypeOK' /\ HomesKept' /\ OneTab' => TabInv'
    BY DEF TabInv, HomesKept, OneTab
  <2> QED
    BY <2>1, <2>2
<1> QED
  BY <1>1, <1>2, <1>3, PTL DEF Spec
=============================================================================
