------------------------------ MODULE History ------------------------------
(***************************************************************************)
(* The history of walks and baths: HistoryViewController.                  *)
(*                                                                         *)
(* One list shows two collections.  Selecting a tab asks for its           *)
(* documents and leaves the list as it is; whichever answer comes last     *)
(* fills it.  A row is removed in three steps: the swipe opens an alert    *)
(* that holds the table cell of the row, confirming it reads the document  *)
(* id from that cell, and the answer of the server empties the list and    *)
(* asks again.  Answers go on arriving while the alert is open.            *)
(*                                                                         *)
(* Completion handlers run on the main queue in the order in which         *)
(* Firestore calls them.  Firestore, UITableView and the other members of  *)
(* the household are external: queries see the removals this device has    *)
(* queued, and a reload may give a cell that is held to any row of the new *)
(* list, or to none.                                                       *)
(***************************************************************************)
EXTENDS Naturals, Sequences, FiniteSets

CONSTANTS
    Walks,       \* documents that belong to the collection promenad
    Baths,       \* documents that belong to the collection duschBad
    None,        \* no tab, no alert
    MaxAsked,    \* bound: queries the user leaves outstanding
    MaxRemovals  \* bound: removals confirmed in a behaviour

Tabs == {"walk", "bath"}

ASSUME CollectionsDiffer == Walks \cap Baths = {} /\ None \notin Tabs
ASSUME HistoryBounds == MaxAsked \in Nat \ {0} /\ MaxRemovals \in Nat

Docs    == Walks \cup Baths
Home(t) == IF t = "walk" THEN Walks ELSE Baths

Alert   == [tab : Tabs, chosen : Docs, cell : Docs, quiet : BOOLEAN]
Removal == [tab : Tabs, chosen : Docs, doc : Docs, quiet : BOOLEAN,
            status : {"queued", "done", "refused"}]
Handler == [type : {"list"}, rows : SUBSET Docs] \cup [type : {"removed"}]

VARIABLES
    stored,    \* the documents the server has in each collection
    selected,  \* walk, bath: the tab whose flag is set; None when neither is
    list,      \* the rows the table shows
    asked,     \* queries of each tab Firestore has not answered
    main,      \* completion handlers waiting on the main queue
    alert,     \* the removal to be confirmed
    removals,  \* delete() calls, in the order they were made
    overlap    \* history: two tabs were being asked for at once, or a query failed

vars == <<stored, selected, list, asked, main, alert, removals, overlap>>

TypeOK ==
    /\ stored \in [Tabs -> SUBSET Docs]
    /\ selected \in Tabs \cup {None}
    /\ list \subseteq Docs
    /\ asked \in [Tabs -> Nat]
    /\ main \in Seq(Handler)
    /\ alert \in Alert \cup {None}
    /\ removals \in Seq(Removal) /\ Len(removals) <= MaxRemovals
    /\ overlap \in BOOLEAN

-----------------------------------------------------------------------------
Queued(t)  == {removals[i].doc : i \in {j \in DOMAIN removals :
                  removals[j].status = "queued" /\ removals[j].tab = t}}
Visible(t) == stored[t] \ Queued(t)

\* Nothing that was asked for is still to come.
Settled == /\ \A t \in Tabs : asked[t] = 0 /\ Queued(t) = {}
           /\ main = <<>>

\* createArray: the query of the tab that is selected, if one is.
\* (mutant: both collections are asked for)
CreateArrayOfBoth(tab) ==
    /\ asked' = [t \in Tabs |-> asked[t] + 1]
    /\ overlap' = overlap
CreateArray(tab) ==
    /\ asked' = [t \in Tabs |-> IF t = tab THEN asked[t] + 1 ELSE asked[t]]
    /\ overlap' = (overlap \/ (tab # None /\ \E t \in Tabs \ {tab} :
                       asked[t] > 0 \/ \E i \in DOMAIN main : main[i].type = "list"))

\* updateList: the list is emptied at once and filled by the answer.
\* (mutant: the rows stay until the answer comes)
UpdateListKeepsRows ==
    /\ list' = list
    /\ CreateArray(selected)
UpdateList ==
    /\ list' = {}
    /\ CreateArray(selected)

\* reloadData with new rows: the cell an alert holds may be reused for any of them.
Reload(rows) ==
    IF alert = None THEN alert' = None
    ELSE \E doc \in rows \cup {alert.cell} : alert' = [alert EXCEPT !.cell = doc]

UserActs == alert = None

\* The user may ask (bounded).
MayAsk == /\ UserActs
          /\ asked["walk"] + asked["bath"] + Len(main) < MaxAsked

\* viewDidLoad, on a history with any documents.
Init ==
    /\ stored \in [Tabs -> SUBSET Docs] /\ \A t \in Tabs : stored[t] \subseteq Home(t)
    /\ selected = "walk" /\ list = {}
    /\ asked = [t \in Tabs |-> IF t = "walk" THEN 1 ELSE 0]
    /\ main = <<>> /\ alert = None /\ removals = <<>>
    /\ overlap = FALSE

-----------------------------------------------------------------------------
(* The user *)

\* WalkTapped, BathTapped: the other tab is selected and asked for, or the flag of
\* the selected one is cleared.
TabTapped(t) ==
    /\ MayAsk
    /\ IF selected # t THEN selected' = t /\ CreateArray(t)
                       ELSE selected' = None /\ UNCHANGED <<asked, overlap>>
    /\ UNCHANGED <<stored, list, main, alert, removals>>

\* The list is pulled down, or the refresh button is tapped.
Refreshed ==
    /\ MayAsk
    /\ UpdateList
    /\ UNCHANGED <<stored, selected, main, alert, removals>>

\* commit(editingStyle:): the collection is chosen by the walk flag, the cell is kept.
\* (mutant: the list is refreshed while the alert is opened)
RowSwipedRefreshes(doc) ==
    /\ UserActs
    /\ doc \in list
    /\ alert' = [tab    |-> IF selected = "walk" THEN "walk" ELSE "bath",
                 chosen |-> doc, cell |-> doc, quiet |-> Settled]
    /\ CreateArray(selected)
    /\ UNCHANGED <<stored, selected, list, main, removals>>
RowSwiped(doc) ==
    /\ UserActs
    /\ doc \in list
    /\ alert' = [tab    |-> IF selected = "walk" THEN "walk" ELSE "bath",
                 chosen |-> doc, cell |-> doc, quiet |-> Settled]
    /\ UNCHANGED <<stored, selected, list, asked, main, removals, overlap>>

\* removeRowAtWalk, removeRowAtShower: the id is read from the cell now.
RemovalConfirmed ==
    /\ alert # None
    /\ Len(removals) < MaxRemovals
    /\ removals' = Append(removals, [tab |-> alert.tab, chosen |-> alert.chosen,
                                     doc |-> alert.cell, quiet |-> alert.quiet,
                                     status |-> "queued"])
    /\ alert' = None
    /\ UNCHANGED <<stored, selected, list, asked, main, overlap>>

RemovalCancelled ==
    /\ alert # None
    /\ alert' = None
    /\ UNCHANGED <<stored, selected, list, asked, main, removals, overlap>>

-----------------------------------------------------------------------------
(* Firestore and the main queue *)

QueryAnswered(t) ==
    /\ asked[t] > 0
    /\ asked' = [asked EXCEPT ![t] = @ - 1]
    /\ \E rows \in SUBSET Visible(t) :
          main' = Append(main, [type |-> "list", rows |-> rows])
    /\ UNCHANGED <<stored, selected, list, alert, removals, overlap>>

\* The handler of a query that failed changes nothing.
QueryFails(t) ==
    /\ asked[t] > 0
    /\ asked' = [asked EXCEPT ![t] = @ - 1]
    /\ overlap' = TRUE
    /\ UNCHANGED <<stored, selected, list, main, alert, removals>>

\* The first removal of the queue is taken or refused; the handler of a refused one
\* changes nothing.
RemovalAnswered(status) ==
    \E i \in DOMAIN removals :
        /\ removals[i].status = "queued"
        /\ \A j \in 1..(i - 1) : removals[j].status # "queued"
        /\ removals' = [removals EXCEPT ![i].status = status]
        /\ IF status = "refused" THEN UNCHANGED <<stored, main>>
           ELSE /\ stored' = [stored EXCEPT ![removals[i].tab] = @ \ {removals[i].doc}]
                /\ main' = Append(main, [type |-> "removed"])
        /\ UNCHANGED <<selected, list, asked, alert, overlap>>

\* A member of the household stores a walk or a bath.
Stored(t) ==
    /\ \E doc \in Home(t) \ stored[t] :
          /\ \A i \in DOMAIN removals : removals[i].doc # doc
          /\ stored' = [stored EXCEPT ![t] = @ \cup {doc}]
    /\ UNCHANGED <<selected, list, asked, main, alert, removals, overlap>>

RowsArrive ==
    /\ main # <<>> /\ Head(main).type = "list"
    /\ main' = Tail(main)
    /\ list' = Head(main).rows
    /\ Reload(Head(main).rows)
    /\ UNCHANGED <<stored, selected, asked, removals, overlap>>

\* The completion handler of a removal: updateList.
RemovalArrives ==
    /\ main # <<>> /\ Head(main).type = "removed"
    /\ main' = Tail(main)
    /\ UpdateList
    /\ UNCHANGED <<stored, selected, alert, removals>>

-----------------------------------------------------------------------------
Firestore ==
    \/ \E t \in Tabs : QueryAnswered(t) \/ QueryFails(t) \/ Stored(t)
    \/ \E status \in {"done", "refused"} : RemovalAnswered(status)
MainQueue == RowsArrive \/ RemovalArrives

Next ==
    \/ \E t \in Tabs : TabTapped(t)
    \/ Refreshed
    \/ \E doc \in Docs : RowSwiped(doc)
    \/ RemovalConfirmed \/ RemovalCancelled
    \/ Firestore \/ MainQueue

Spec == Init /\ [][Next]_vars

\* A query is answered or fails, and the main queue runs every handler it was given.
Fairness == /\ WF_vars(\E t \in Tabs : QueryAnswered(t) \/ QueryFails(t))
            /\ WF_vars(MainQueue)
FairSpec == Spec /\ Fairness

-----------------------------------------------------------------------------
(* Properties *)

\* The cell an alert holds is the one of the row that was swiped, unless the alert was
\* opened while an answer was outstanding: another document than the one chosen can be
\* removed (lines 303, 333) only after a reload under the alert, and without anything
\* outstanding no reload comes.
WrongRowNeedsReload ==
    \A i \in DOMAIN removals :
        removals[i].doc # removals[i].chosen => ~removals[i].quiet

\* With nothing outstanding the list holds documents of the selected tab (so that
\* deleting one goes to its own collection), unless two tabs were asked for at the same
\* time or a query failed: nothing else lets the answer of one tab fill the other.
WrongTabNeedsOverlap ==
    Settled /\ selected # None /\ ~overlap => list \subseteq Home(selected)

\* Once a document is removed from its own collection it leaves the list and does not
\* come back, although queries asked before the removal may answer after it.
DeletedRowLeaves ==
    \A doc \in Docs :
        (\E i \in DOMAIN removals : /\ removals[i].doc = doc /\ removals[i].status = "done"
                                    /\ doc \in Home(removals[i].tab))
            ~> [](doc \notin list)
=============================================================================
