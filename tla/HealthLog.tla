----------------------------- MODULE HealthLog -----------------------------
(***************************************************************************)
(* The health log and its reminders: NewHealthViewController, the picker   *)
(* screens as it uses them, PremHisViewController.                         *)
(*                                                                         *)
(* An entry is put together on a pile of screens.  Picking the dog, the    *)
(* person or the date opens a picker, and saving the picker opens a new    *)
(* instance of the editor, which takes one field from the picker and the   *)
(* others from the draft in UserDefaults.  The moment of the reminder,     *)
(* exactDate, is handed on by the date picker only and kept nowhere.       *)
(* The entry's completion handler schedules the reminder, under one        *)
(* identifier for all entries, then clears the draft.                      *)
(*                                                                         *)
(* Firestore queues writes on disk and answers them in order; after a      *)
(* relaunch it sends them without their handlers.  The notification        *)
(* centre keeps one request per identifier.  Title and note are one text,  *)
(* and dog, person and text are there or not: which, no rule depends on.   *)
(* The list of entries works as the one of module History.                 *)
(***************************************************************************)
EXTENDS Naturals, Sequences, FiniteSets, SequencesExt

CONSTANTS
    MaxTime,   \* bound: the clock and the dates the user picks
    MaxDepth,  \* bound: screens in the pile
    MaxSaves   \* bound: entries saved in a behaviour

ASSUME HealthBounds == {MaxTime, MaxDepth} \subseteq Nat \ {0} /\ MaxSaves \in Nat

Dates  == 0..MaxTime                 \* 0: no date, or nil
Fields == {"text", "dog", "who", "date"}

\* What the rows of an entry hold; a date may be written as a moment.
Rows == [text : BOOLEAN, dog : BOOLEAN, who : BOOLEAN, date : Dates]

EmptyRows == [text |-> FALSE, dog |-> FALSE, who |-> FALSE, date |-> 0]

Editor == [type : {"editor"}, rows : Rows, handed : SUBSET {"dog", "who", "date"},
           exactDate : Dates, clean : BOOLEAN]
Picker == [type : {"picker"}, of : {"dog", "who", "date"}, seen : SUBSET Fields]
List   == [type : {"list"}]

Write == [op : {"add"}, id : 1..MaxSaves, rows : Rows, exactDate : Dates,
          at : 0..MaxDepth, handler : BOOLEAN]
            \cup [op : {"delete"}, id : 1..MaxSaves, handler : BOOLEAN]

VARIABLES
    pile,      \* the screens, the one shown last
    draft,     \* cTitleKey/cNoteKey, cDogKey, cPersonKey, cDateKey
    person,    \* the walk form's personKey is set
    writes,    \* writes Firestore has not answered
    entries,   \* the documents of healthControl: id -> date
    reminder,  \* the pending request "timerDone1"
    now,       \* the clock
    log,       \* history: every entry ever stored
    saves      \* entries saved so far

vars == <<pile, draft, person, writes, entries, reminder, now, log, saves>>

Stored == [id : 1..MaxSaves, date : Dates, moment : Dates, requested : BOOLEAN]

NoReminder == [id |-> 0, date |-> 0]

TypeOK ==
    /\ pile \in Seq(Editor \cup Picker \cup List) /\ Len(pile) <= MaxDepth
    /\ draft \in Rows
    /\ person \in BOOLEAN
    /\ writes \in Seq(Write)
    /\ entries \subseteq 1..MaxSaves
    /\ reminder \in [id : 0..MaxSaves, date : Dates]
    /\ now \in Dates
    /\ log \subseteq Stored
    /\ saves \in 0..MaxSaves

-----------------------------------------------------------------------------
Filled(rows, f) == IF f = "date" THEN rows.date # 0 ELSE rows[f]
FilledIn(rows)  == {f \in Fields : Filled(rows, f)}
Full(rows)      == FilledIn(rows) = Fields

Top        == Last(pile)
Shows(t)   == pile # <<>> /\ Top.type = t

\* getValues writes the text if there is one, and the fields this instance
\* was handed; the draft then fills all fields.
\* (mutant: the fields are filled from the draft before it is written)
MergedFirst(e) == draft

\* (mutant: what the draft has stays)
MergedOld(e) == [f \in Fields |-> IF Filled(draft, f) THEN draft[f] ELSE e.rows[f]]

Merged(e) == [f \in Fields |->
                 IF f \in e.handed \/ (f = "text" /\ e.rows.text) THEN e.rows[f]
                                                                  ELSE draft[f]]

Loaded(e) == [e EXCEPT !.rows = [Merged(e) EXCEPT !.who = @ \/ person], !.clean = TRUE]

GetValues(e) == draft' = Merged(e)

Init ==
    /\ pile = <<>> /\ draft = EmptyRows
    /\ person \in BOOLEAN
    /\ writes = <<>> /\ entries = {} /\ reminder = NoReminder /\ now = 1
    /\ log = {} /\ saves = 0

BlankEditor == [type |-> "editor", rows |-> EmptyRows, handed |-> {},
                exactDate |-> 0, clean |-> TRUE]

\* The menu opens the list.
LogbookTapped ==
    /\ pile = <<>>
    /\ pile' = <<[type |-> "list"]>>
    /\ UNCHANGED <<draft, person, writes, entries, reminder, now, log, saves>>

AddNew ==
    /\ Shows("list") /\ Len(pile) < MaxDepth
    /\ pile' = Append(pile, Loaded(BlankEditor))
    /\ GetValues(BlankEditor)
    /\ UNCHANGED <<person, writes, entries, reminder, now, log, saves>>

TextTyped ==
    /\ Shows("editor")
    /\ pile' = [pile EXCEPT ![Len(pile)].rows.text = TRUE]
    /\ UNCHANGED <<draft, person, writes, entries, reminder, now, log, saves>>

\* dogTapped, nameTapped, dateTapped
FieldTapped(f) ==
    /\ Shows("editor") /\ Len(pile) < MaxDepth
    /\ pile' = Append(Append(Front(pile), Loaded(Top)),
                      [type |-> "picker", of |-> f,
                       seen |-> IF Top.clean THEN FilledIn(Top.rows) ELSE {}])
    /\ GetValues(Top)
    /\ UNCHANGED <<person, writes, entries, reminder, now, log, saves>>

\* Save of DogViewController and of DateTimeViewController.
Picked(d) ==
    /\ Shows("picker") /\ Len(pile) < MaxDepth
    /\ LET f == Top.of
           e == [BlankEditor EXCEPT
                    !.rows   = [EmptyRows EXCEPT ![f] = IF f = "date" THEN d ELSE TRUE],
                    !.handed = {f},
                    !.exactDate = IF f = "date" THEN d ELSE 0]
       IN /\ f = "date" \/ d = 1
          /\ pile' = Append(pile, Loaded(e))
          /\ GetValues(e)
    /\ UNCHANGED <<person, writes, entries, reminder, now, log, saves>>

\* A sheet is swiped down.  A handler of its instance finds no screen then.
SheetClosed ==
    /\ pile # <<>>
    /\ pile' = Front(pile)
    /\ writes' = [i \in DOMAIN writes |->
                    IF writes[i].op = "add" /\ writes[i].at = Len(pile)
                    THEN [writes[i] EXCEPT !.at = 0] ELSE writes[i]]
    /\ UNCHANGED <<draft, person, entries, reminder, now, log, saves>>

\* saveHealthControl: nothing keeps it from being tapped again.
SaveTapped ==
    /\ Shows("editor") /\ saves < MaxSaves
    /\ Full(Top.rows)
    /\ saves' = saves + 1
    /\ writes' = Append(writes, [op |-> "add", id |-> saves', rows |-> Top.rows,
                                 exactDate |-> Top.exactDate, at |-> Len(pile),
                                 handler |-> TRUE])
    /\ UNCHANGED <<pile, draft, person, entries, reminder, now, log>>

\* The process ends: screens and handlers are gone, the queue is not.
Lost(queue) ==
    /\ pile' = <<>>
    /\ writes' = [i \in DOMAIN queue |-> [queue[i] EXCEPT !.handler = FALSE]]

\* (mutant: the pending request is cancelled whether or not there is a new one)
RunNotificationCancels(w) ==
    reminder' = IF w.exactDate > now THEN [id |-> w.id, date |-> w.exactDate] ELSE NoReminder

RunNotification(w) ==
    reminder' = IF w.exactDate > now THEN [id |-> w.id, date |-> w.exactDate] ELSE reminder

\* History: the draft was cleared under the screens that are open.
Dirty(screens) == [i \in DOMAIN screens |->
                     CASE screens[i].type = "editor" -> [screens[i] EXCEPT !.clean = FALSE]
                       [] screens[i].type = "picker" -> [screens[i] EXCEPT !.seen = {}]
                       [] OTHER                      -> screens[i]]

Added(w) == /\ entries' = entries \cup {w.id}
            /\ log' = log \cup {[id |-> w.id, date |-> w.rows.date, moment |-> w.exactDate,
                                 requested |-> w.handler /\ w.exactDate > now]}

\* The entry is stored.  Its handler schedules the reminder first, which
\* unwraps exactDate; the list opens if the instance is on the screen.
EntryStored ==
    /\ writes # <<>> /\ Head(writes).op = "add"
    /\ LET w == Head(writes) IN
       /\ Added(w)
       /\ \/ /\ ~w.handler
             /\ writes' = Tail(writes)
             /\ UNCHANGED <<pile, draft, reminder>>
          \/ /\ w.handler /\ w.exactDate = 0
             /\ Lost(Tail(writes))
             /\ UNCHANGED <<draft, reminder>>
          \/ /\ w.handler /\ w.exactDate # 0
             /\ RunNotification(w)
             /\ draft' = EmptyRows
             /\ pile' = IF w.at = Len(pile) /\ w.at # 0 /\ Len(pile) < MaxDepth
                        THEN Append(Dirty(pile), [type |-> "list"]) ELSE Dirty(pile)
             /\ writes' = Tail(writes)
    /\ UNCHANGED <<person, now, saves>>

\* The server refuses a write: its handler prints the error.
WriteRefused ==
    /\ writes # <<>>
    /\ writes' = Tail(writes)
    /\ UNCHANGED <<pile, draft, person, entries, reminder, now, log, saves>>

\* removeRowAt, confirmed
EntryRemoved(id) ==
    /\ Shows("list") /\ id \in entries
    /\ \A i \in DOMAIN writes : writes[i].id # id
    /\ writes' = Append(writes, [op |-> "delete", id |-> id, handler |-> TRUE])
    /\ UNCHANGED <<pile, draft, person, entries, reminder, now, log, saves>>

EntryGone ==
    /\ writes # <<>> /\ Head(writes).op = "delete"
    /\ entries' = entries \ {Head(writes).id}
    /\ writes' = Tail(writes)
    /\ UNCHANGED <<pile, draft, person, reminder, now, log, saves>>

Relaunched ==
    /\ pile # <<>>
    /\ Lost(writes)
    /\ UNCHANGED <<draft, person, entries, reminder, now, log, saves>>

\* Time passes; a reminder that is due is shown and no longer pending.
Tick ==
    /\ now < MaxTime
    /\ now' = now + 1
    /\ reminder' = IF reminder.date = now' THEN NoReminder ELSE reminder
    /\ UNCHANGED <<pile, draft, person, writes, entries, log, saves>>

Next ==
    \/ LogbookTapped \/ AddNew \/ TextTyped
    \/ \E f \in {"dog", "who", "date"} : FieldTapped(f)
    \/ \E d \in Dates \ {0} : Picked(d)
    \/ SheetClosed
    \/ SaveTapped \/ EntryStored \/ WriteRefused
    \/ \E id \in entries : EntryRemoved(id)
    \/ EntryGone
    \/ Relaunched \/ Tick

Spec == Init /\ [][Next]_vars

-----------------------------------------------------------------------------
(* Properties.                                                             *)

\* The reminder that is pending is due at the date written in the entry that
\* scheduled it, although date text and moment travel different ways: the
\* text through the draft, the moment from instance to instance.
ReminderDateIsStored ==
    reminder # NoReminder =>
        \E s \in log : s.id = reminder.id /\ s.date = reminder.date

\* What was filled in when a picker was opened is filled in on the editor
\* that the picker opens, unless an entry was stored meanwhile: one field
\* travels from screen to screen, three through the draft.
PickKeepsRows ==
    [][ (Shows("picker") /\ Len(pile') > Len(pile)) =>
          Top.seen \subseteq FilledIn(Last(pile').rows) ]_vars

\* A reminder that was asked for is pending until it is due, unless a later entry
\* has asked for its own: all of them have one identifier, and nothing else - no
\* refusal, removal, screen or end of the process - takes it back.
RequestedIsPending ==
    \A s \in log : s.requested /\ s.moment > now =>
        \/ reminder = [id |-> s.id, date |-> s.moment]
        \/ \E t \in log : t.requested /\ t.id > s.id
=============================================================================
