----------------------------- MODULE WriteQueue -----------------------------
(***************************************************************************)
(* What Firestore promises about the documents an app writes, whatever the *)
(* connection, the process and the account do meanwhile:                   *)
(*                                                                         *)
(*  - a write belongs to the user of the session it is taken up in, and is *)
(*    carried out in sessions of that user only;                           *)
(*  - the writes of a user are carried out in the order they were made: a  *)
(*    write reaches the database only after every earlier one that is      *)
(*    still stored has;                                                    *)
(*  - a write leaves the storage when it was carried out or refused, and   *)
(*    its completion handler runs at most once, with what happened to this *)
(*    write and no other; after a restart the write goes on and no handler *)
(*    does.                                                                *)
(*                                                                         *)
(* FirestoreWrites is shown to implement this.                             *)
(***************************************************************************)
EXTENDS Naturals, Sequences

CONSTANTS Users, MaxWrites

Writes == 1..MaxWrites

VARIABLES
    user,      \* the user of the session
    called,    \* the writes of this session not yet taken up, in their order
    pending,   \* per user, the stored writes in their order
    done,      \* the writes the database has carried out
    refused,   \* the writes the database has refused
    waiting,   \* the stored writes whose handler is still to be called
    answers,   \* the handler calls on their way to the app
    told       \* what the app was told of each write

vars == <<user, called, pending, done, refused, waiting, answers, told>>

Answer(w, ok) == [w |-> w, ok |-> ok]

Head1(u) == Head(pending[u])

\* Every write stored before the i-th has been carried out.
Ready(i) == \A j \in 1..(i - 1) : pending[user][j] \in done

Init ==
    /\ user \in Users
    /\ called = <<>>
    /\ pending = [u \in Users |-> <<>>]
    /\ done = {} /\ refused = {} /\ waiting = {}
    /\ answers = <<>>
    /\ told = [w \in Writes |-> "uncalled"]

Call(w) ==
    /\ told[w] = "uncalled"
    /\ told' = [told EXCEPT ![w] = "waiting"]
    /\ called' = Append(called, w)
    /\ UNCHANGED <<user, pending, done, refused, waiting, answers>>

Accept ==
    /\ called # <<>>
    /\ pending' = [pending EXCEPT ![user] = Append(@, Head(called))]
    /\ waiting' = waiting \union {Head(called)}
    /\ called' = Tail(called)
    /\ UNCHANGED <<user, done, refused, answers, told>>

Commit(i) ==
    /\ Ready(i)
    /\ done' = done \union {pending[user][i]}
    /\ UNCHANGED <<user, called, pending, refused, waiting, answers, told>>

Refuse(i) ==
    /\ Ready(i)
    /\ refused' = refused \union {pending[user][i]}
    /\ UNCHANGED <<user, called, pending, done, waiting, answers, told>>

\* The handler of a write that was carried out is called first; the write is
\* taken out of the storage after that.
Confirm ==
    /\ pending[user] # <<>>
    /\ Head1(user) \in done \intersect waiting
    /\ answers' = Append(answers, Answer(Head1(user), TRUE))
    /\ waiting' = waiting \ {Head1(user)}
    /\ UNCHANGED <<user, called, pending, done, refused, told>>

Remove ==
    /\ pending[user] # <<>>
    /\ Head1(user) \in done \ waiting
    /\ pending' = [pending EXCEPT ![user] = Tail(@)]
    /\ UNCHANGED <<user, called, done, refused, waiting, answers, told>>

Reject ==
    /\ pending[user] # <<>>
    /\ Head1(user) \in refused
    /\ pending' = [pending EXCEPT ![user] = Tail(@)]
    /\ waiting' = waiting \ {Head1(user)}
    /\ answers' = IF Head1(user) \in waiting
                  THEN Append(answers, Answer(Head1(user), FALSE))
                  ELSE answers
    /\ UNCHANGED <<user, called, done, refused, told>>

Tell ==
    /\ answers # <<>>
    /\ told' = [told EXCEPT ![Head(answers).w] =
                    IF Head(answers).ok THEN "ok" ELSE "error"]
    /\ answers' = Tail(answers)
    /\ UNCHANGED <<user, called, pending, done, refused, waiting>>

Switch(u) ==
    /\ user' = u
    /\ UNCHANGED <<called, pending, done, refused, waiting, answers, told>>

Restart(u) ==
    /\ user' = u
    /\ called' = <<>>
    /\ waiting' = {}
    /\ answers' = <<>>
    /\ UNCHANGED <<pending, done, refused, told>>

Next ==
    \/ \E w \in Writes : Call(w)
    \/ Accept \/ Confirm \/ Remove \/ Reject \/ Tell
    \/ \E i \in DOMAIN pending[user] : Commit(i) \/ Refuse(i)
    \/ \E u \in Users : Switch(u) \/ Restart(u)

Spec == Init /\ [][Next]_vars
=============================================================================
