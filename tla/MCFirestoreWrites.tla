------------------------ MODULE MCFirestoreWrites --------------------------
(***************************************************************************)
(* FirestoreWrites for TLC: two accounts (one of them nobody), a few       *)
(* writes, a pipeline shorter than the queue, and the mapping to the       *)
(* abstract WriteQueue.                                                    *)
(***************************************************************************)
EXTENDS FirestoreWrites

\* The messages of one kind, in the order of their queue.
Selected(q, kind) ==
    LET upTo[n \in 0..Len(q)] ==
            IF n = 0 THEN <<>>
            ELSE IF q[n].kind = kind THEN Append(upTo[n - 1], q[n])
            ELSE upTo[n - 1]
    IN  upTo[Len(q)]

\* The writes of a mutation queue or of tasks, and the answers of messages.
Texts(q)   == [i \in DOMAIN q |-> q[i].w]
Answers(q) == [i \in DOMAIN q |-> [w |-> q[i].w, ok |-> q[i].ok]]

WQ == INSTANCE WriteQueue WITH
    user    <- engine.user,
    called  <- Texts(Selected(tasks, "write")),
    pending <- [u \in Users |-> Texts(store.queue[u])],
    done    <- server.done,
    refused <- server.refused,
    waiting <- {c.w : c \in engine.callbacks},
    answers <- Answers(Selected(mainQ, "answer"))

\* The client keeps the promise of WriteQueue: writes are carried out in their
\* order and as their user's, each is settled once for the app, and a handler
\* learns what happened to its own write - through changes of user, lost
\* connections, refusals and restarts.
ImplementsWriteQueue == WQ!Spec
=============================================================================
