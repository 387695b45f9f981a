------------------------------- MODULE WalkLog -------------------------------
(***************************************************************************)
(* What the walk form promises, without screens, drafts or handlers: a     *)
(* form is a session of editing, and the log of stored walks gets at most  *)
(* one entry from each session, never loses one, and gets it only after    *)
(* the user asked for it.                                                  *)
(***************************************************************************)
EXTENDS Naturals

CONSTANTS Sessions, Documents

VARIABLES
    phase,  \* what each session is doing
    log     \* the documents stored

vars == <<phase, log>>

Init ==
    /\ phase = [s \in Sessions |-> IF s = 1 THEN "editing" ELSE "unopened"]
    /\ log = {}

Goes(s, from, to) ==
    /\ phase[s] = from
    /\ phase' = [phase EXCEPT ![s] = to]

Open(s)   == Goes(s, "unopened", "editing") /\ UNCHANGED log
Submit(s) == Goes(s, "editing", "saving")   /\ UNCHANGED log
Refuse(s) == Goes(s, "saving", "editing")   /\ UNCHANGED log

\* The server takes the session's walk as document n: this ends the session.
Take(s) ==
    /\ Goes(s, "saving", "saved")
    /\ \E n \in Documents : log' = log \cup {[session |-> s, id |-> n]}

Next == \E s \in Sessions : Open(s) \/ Submit(s) \/ Refuse(s) \/ Take(s)

Spec == Init /\ [][Next]_vars
=============================================================================
