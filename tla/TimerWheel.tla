---------------------------- MODULE TimerWheel ----------------------------
(***************************************************************************)
(* The reminder interval of a dog: the wheel of ChooseTimerViewController  *)
(* and the editor that opens it (AddDogViewController).                    *)
(*                                                                         *)
(* The interval is stored as a number of seconds; the wheel has fifteen    *)
(* rows.  Two tables written by hand lead from one to the other, a third   *)
(* one names the rows.  The editor and the wheel hand the interval on      *)
(* through addTimerKey, which outlives an editor that is closed.           *)
(***************************************************************************)
EXTENDS Naturals

CONSTANT None   \* no dog stored yet, no row chosen

WheelRows == 0..14
NoTimer   == 864000022

ASSUME NoneIsNoNumber == None \notin Nat

\* convertRowIDtoTimer: the seconds of each row.
CodeOf == [r \in WheelRows |-> IF r = 0 THEN NoTimer ELSE 1800 * r]

\* getRowID: the row of each code, the first one for a code it does not know.
\* (mutant: the fifth entry is written twice)
RowOfTwice(code) ==
    IF code = 9000 THEN 4
    ELSE IF \E r \in 1..14 : code = 1800 * r THEN CHOOSE r \in 1..14 : code = 1800 * r ELSE 0
RowOf(code) ==
    IF \E r \in 1..14 : code = 1800 * r THEN CHOOSE r \in 1..14 : code = 1800 * r ELSE 0

Codes == {CodeOf[r] : r \in WheelRows}

VARIABLES
    screen,    \* list, editor, wheel; ended when the process has
    edit,      \* editMode of the editor, and editModeKey
    stored,    \* the interval of the stored dog
    draft,     \* addTimerKey
    timerStr,  \* the interval the editor would store
    rowID,     \* the row of the wheel
    turned     \* history: the wheel was turned since it was opened

vars == <<screen, edit, stored, draft, timerStr, rowID, turned>>

TypeOK ==
    /\ screen \in {"list", "editor", "wheel", "ended"}
    /\ edit \in BOOLEAN
    /\ stored \in Codes \cup {None}
    /\ draft \in Codes \cup {None}
    /\ timerStr \in Codes
    /\ rowID \in WheelRows \cup {None}
    /\ turned \in BOOLEAN

Init ==
    /\ screen = "list" /\ edit = FALSE
    /\ stored = None /\ draft = None
    /\ timerStr = NoTimer /\ rowID = None /\ turned = FALSE

\* getValues: what the editor was given goes to the draft, an editor with nothing loads it.
Loaded == IF draft = None THEN NoTimer ELSE draft

-----------------------------------------------------------------------------
\* A row of the list is opened, with the interval of the dog.
EditTapped ==
    /\ screen = "list" /\ stored # None
    /\ screen' = "editor" /\ edit' = TRUE
    /\ draft' = stored /\ timerStr' = stored
    /\ UNCHANGED <<stored, rowID, turned>>

\* A new dog; it goes on with the draft of one that was not stored, and with the edit mode
\* of any edited before.
PlusTapped ==
    /\ screen = "list" /\ stored = None
    /\ screen' = "editor"
    /\ timerStr' = Loaded
    /\ UNCHANGED <<edit, stored, draft, rowID, turned>>

\* timerTapped: the wheel starts at the row of the interval, without a row if a dog is added.
TimerTapped ==
    /\ screen = "editor"
    /\ screen' = "wheel"
    /\ draft' = timerStr
    /\ rowID' = IF edit THEN RowOf(timerStr) ELSE None
    /\ turned' = FALSE
    /\ UNCHANGED <<edit, stored, timerStr>>

\* pickerView(didSelectRow:)
Turned(r) ==
    /\ screen = "wheel"
    /\ rowID' = r /\ turned' = TRUE
    /\ UNCHANGED <<screen, edit, stored, draft, timerStr>>

WheelSaved ==
    /\ screen = "wheel" /\ rowID # None
    /\ screen' = "editor"
    /\ timerStr' = CodeOf[rowID] /\ draft' = CodeOf[rowID]
    /\ UNCHANGED <<edit, stored, rowID, turned>>
\* With premium, or without a row, the process ends instead.
WheelCrashes ==
    /\ screen = "wheel"
    /\ screen' = "ended"
    /\ UNCHANGED <<edit, stored, draft, timerStr, rowID, turned>>

\* The sheet is closed: the wheel, or the editor with its draft left behind.
WheelClosed ==
    /\ screen = "wheel"
    /\ screen' = "editor"
    /\ UNCHANGED <<edit, stored, draft, timerStr, rowID, turned>>
EditorClosed ==
    /\ screen = "editor"
    /\ screen' = "list"
    /\ UNCHANGED <<edit, stored, draft, timerStr, rowID, turned>>

\* saveNewDog and the success branch of its handler; in edit mode without a document the
\* process ends.
Saved ==
    /\ screen = "editor"
    /\ IF edit /\ stored = None
       THEN screen' = "ended" /\ UNCHANGED <<stored, draft>>
       ELSE screen' = "list" /\ stored' = timerStr /\ draft' = None
    /\ UNCHANGED <<edit, timerStr, rowID, turned>>

\* The dog is deleted, and with it the draft.
Deleted ==
    /\ screen = "list" /\ stored # None
    /\ stored' = None /\ draft' = None
    /\ UNCHANGED <<screen, edit, timerStr, rowID, turned>>

\* The app is launched again; the draft is still there.
Relaunched ==
    /\ screen' = "list"
    /\ UNCHANGED <<edit, stored, draft, timerStr, rowID, turned>>

Next ==
    \/ EditTapped \/ PlusTapped \/ TimerTapped \/ EditorClosed
    \/ \E r \in WheelRows : Turned(r)
    \/ WheelSaved \/ WheelCrashes \/ WheelClosed
    \/ Saved \/ Deleted \/ Relaunched

Spec == Init /\ [][Next]_vars

-----------------------------------------------------------------------------
(* Properties *)

\* The wheel of an editing stands at the row of the dog's interval until it is turned: the
\* two tables are inverse to each other on all fifteen rows, and the draft, the editor and
\* the wheel hand on the same interval.
WheelShowsTheInterval ==
    screen = "wheel" /\ edit /\ ~turned => rowID # None /\ CodeOf[rowID] = timerStr

\* Opening the wheel of an editing and saving it without a turn leaves the interval alone.
UntouchedWheelKeeps ==
    [][screen = "wheel" /\ screen' = "editor" /\ edit /\ ~turned => timerStr' = timerStr]_vars
=============================================================================
