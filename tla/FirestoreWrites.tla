-------------------------- MODULE FirestoreWrites --------------------------
(***************************************************************************)
(* How a document the app writes reaches the database: the Firestore       *)
(* client of the Pods directory, between the app's call on the main thread *)
(* and the completion handler that comes back to it.                       *)
(*                                                                         *)
(* The main queue, Auth's work queue and Firestore's worker queue each run *)
(* one thing at a time and pass work to one another. The worker stores a   *)
(* write in the mutation queue of its user (LevelDB, which survives the    *)
(* process), keeps its callback in memory, copies the oldest stored writes *)
(* into the write pipeline and sends the pipeline over a stream it opens   *)
(* with a token of the user. An answer of the stream names no write: it is *)
(* about the front of the pipeline, whatever that is. Signing in or out    *)
(* makes the worker swap the mutation queue and open a new stream; a lost  *)
(* connection makes it send the pipeline again; a restart of the process   *)
(* begins with the stored writes and no callback.                          *)
(*                                                                         *)
(* The database and the connection are outside src/: the server answers    *)
(* the requests of a stream in their order, refuses one by ending the      *)
(* stream after the answers to the earlier ones, and handles nothing of a  *)
(* stream once it is closed. HARD_ASSERTs are kept in `failed`.            *)
(***************************************************************************)
EXTENDS Naturals, Sequences

CONSTANTS
    Users,       \* the users, Nobody (signed out) among them
    Nobody,
    MaxWrites,   \* bound: writes the app makes
    MaxPending,  \* kMaxPendingWrites
    MaxChanges,  \* bound: sign-ins, sign-outs and new tokens
    MaxBreaks,   \* bound: lost connections and tokens Auth fails to get
    MaxCrashes   \* bound: ends of the process

ASSUME UsersAssumption == Nobody \in Users
ASSUME BoundsAssumption ==
    /\ MaxWrites \in Nat /\ MaxPending \in Nat \ {0}
    /\ MaxChanges \in Nat /\ MaxBreaks \in Nat /\ MaxCrashes \in Nat

Writes == 1..MaxWrites

VARIABLES
    auth,    \* Auth's user, and Firestore's count of the changes it was told of
    mainQ,   \* the main queue
    tasks,   \* the worker queue
    engine,  \* SyncEngine: its user, its mutation callbacks, and the batch
             \* whose callback ran while the batch is still to be removed
    store,   \* LocalStore: the mutation queue of each user, the next batch id
    remote,  \* RemoteStore and WriteStream: the pipeline and the stream
    server,  \* the database: the writes carried out, the writes refused
    told,    \* what the app knows of each write
    spent,   \* how often the bounded events happened
    failed   \* a HARD_ASSERT did not hold

vars == <<auth, mainQ, tasks, engine, store, remote, server, told, spent, failed>>

Batch == [id : Nat, w : Writes]    \* ids start at 1

Notice(u)     == [kind |-> "notice", user |-> u]
Reply(w, ok)  == [kind |-> "answer", w |-> w, ok |-> ok]
Write(w)      == [kind |-> "write", w |-> w]
Credential(u) == [kind |-> "credential", user |-> u]
Token(f, ok)  == [kind |-> "token", closes |-> f.closes, as |-> f.as, ok |-> ok,
                  counter |-> f.counter]
-----------------------------------------------------------------------------
(* The stream (remote/stream.mm, remote/write_stream.mm).                  *)

IsStarted(r) == r.state \in {"Starting", "Open", "Backoff"}

\* hello: "none", "sent", "answered" by the server, "done" (handshake_complete).
HandshakeComplete(r) == r.hello = "done"

NoLink(r) == [r EXCEPT !.as = Nobody, !.outbox = <<>>, !.inbox = 0, !.ended = FALSE]

FreshRemote ==
    [state |-> "Initial", hello |-> "none", idle |-> FALSE, closes |-> 0,
     pipeline |-> <<>>, fetches |-> {},
     as |-> Nobody, outbox |-> <<>>, inbox |-> 0, ended |-> FALSE]

\* Stream::Start out of Initial: a token is requested, and the request notes
\* the token counter and the close count it was made at.
RequestCredentials(r, counter) ==
    [r EXCEPT !.state = "Starting",
              !.fetches = @ \union {[counter |-> counter, closes |-> r.closes,
                                     read |-> FALSE, as |-> Nobody]}]

\* (mutant: a stream that failed counts as started)
StartWriteStreamOnce(r, counter) ==
    IF IsStarted(r) \/ r.pipeline = <<>> \/ r.state = "Error" THEN r
    ELSE RequestCredentials(r, counter)

\* StartWriteStream where ShouldStartWriteStream: after an error it backs off.
StartWriteStream(r, counter) ==
    IF IsStarted(r) \/ r.pipeline = <<>> THEN r
    ELSE IF r.state = "Error" THEN [r EXCEPT !.state = "Backoff"]
    ELSE RequestCredentials(r, counter)

\* Close: the connection goes, timers are cancelled, every token request made
\* so far is stale, and the handshake is to be made again.
Closed(r, state) ==
    [NoLink(r) EXCEPT !.state = state, !.idle = FALSE, !.closes = @ + 1,
                      !.hello = "none"]

Stop(r) == IF IsStarted(r) THEN Closed(r, "Initial") ELSE r
-----------------------------------------------------------------------------
(* The mutation queues (local/leveldb_mutation_queue.mm).                  *)

Ids(queue) ==
    {0} \union UNION {{queue[u][i].id : i \in DOMAIN queue[u]} : u \in Users}

\* LoadNextBatchIdFromDb: one more than the highest id stored for any user,
\* so an id comes back once its batch is gone.
LoadNextBatchId(queue) ==
    1 + (CHOOSE m \in Ids(queue) : \A k \in Ids(queue) : k <= m)

\* NextMutationBatchAfterBatchId, as often as there is room.
NextBatches(q, last, room) ==
    LET from == CHOOSE i \in 1..(Len(q) + 1) :
                    \A j \in DOMAIN q : j < i <=> q[j].id <= last
        to   == IF from + room - 1 < Len(q) THEN from + room - 1 ELSE Len(q)
    IN  SubSeq(q, from, to)

Stored(q, b) == \E i \in DOMAIN q : q[i].id = b.id

\* RemoveMutationBatch, by the id.
Without(q, b) ==
    LET i == CHOOSE i \in DOMAIN q : q[i].id = b.id
    IN  IF Stored(q, b) THEN SubSeq(q, 1, i - 1) \o SubSeq(q, i + 1, Len(q)) ELSE q
-----------------------------------------------------------------------------
(* FillWritePipeline over the mutation queue q of the engine's user: the   *)
(* batches are added and, on a stream whose handshake is complete, sent;   *)
(* sending cancels the idle timer, and finding nothing sets it.            *)

\* (mutant: sending leaves the idle timer set)
FillWritePipelineIdle(r, q, counter) ==
    LET last == IF r.pipeline = <<>> THEN 0 ELSE r.pipeline[Len(r.pipeline)].id
        more == NextBatches(q, last, MaxPending - Len(r.pipeline))
        live == r.state = "Open" /\ HandshakeComplete(r)
        nothing == more = <<>> /\ r.pipeline = <<>> /\ r.state = "Open"
    IN  StartWriteStream(
            [r EXCEPT !.pipeline = @ \o more,
                      !.outbox = IF live THEN @ \o more ELSE @,
                      !.idle = nothing \/ r.idle],
            counter)

\* (mutant: an open stream is written to before its handshake is complete)
FillWritePipelineEarly(r, q, counter) ==
    LET last == IF r.pipeline = <<>> THEN 0 ELSE r.pipeline[Len(r.pipeline)].id
        more == NextBatches(q, last, MaxPending - Len(r.pipeline))
        live == r.state = "Open"
        idle == ~(more # <<>> /\ live)
                /\ (r.idle \/ (live /\ more = <<>> /\ r.pipeline = <<>>))
    IN  StartWriteStream(
            [r EXCEPT !.pipeline = @ \o more,
                      !.outbox = IF live THEN @ \o more ELSE @,
                      !.idle = idle],
            counter)

FillWritePipeline(r, q, counter) ==
    LET last == IF r.pipeline = <<>> THEN 0 ELSE r.pipeline[Len(r.pipeline)].id
        more == NextBatches(q, last, MaxPending - Len(r.pipeline))
        live == r.state = "Open" /\ HandshakeComplete(r)
        idle == CASE more # <<>> /\ live -> FALSE
                  [] more = <<>> /\ r.pipeline = <<>> /\ r.state = "Open" -> TRUE
                  [] OTHER -> r.idle
    IN  StartWriteStream(
            [r EXCEPT !.pipeline = @ \o more,
                      !.outbox = IF live THEN @ \o more ELSE @,
                      !.idle = idle],
            counter)

Queue == store.queue[engine.user]

Init ==
    /\ auth = [user |-> Nobody, counter |-> 0]
    /\ mainQ = <<>>
    /\ tasks = <<>>
    /\ engine = [user |-> Nobody, callbacks |-> {}, acking |-> <<>>]
    /\ store = [queue |-> [u \in Users |-> <<>>], nextId |-> 1]
    /\ remote = FreshRemote
    /\ server = [done |-> {}, refused |-> {}]
    /\ told = [w \in Writes |-> "uncalled"]
    /\ spent = [changes |-> 0, breaks |-> 0, crashes |-> 0]
    /\ failed = FALSE
-----------------------------------------------------------------------------
(* The app and Auth.                                                       *)

\* FirestoreClient::WriteMutations, called on the main thread.
WriteMutations(w) ==
    /\ told[w] = "uncalled"
    /\ \A v \in 1..(w - 1) : told[v] # "uncalled"
    /\ told' = [told EXCEPT ![w] = "waiting"]
    /\ tasks' = Append(tasks, Write(w))
    /\ UNCHANGED <<auth, mainQ, engine, store, remote, server, spent, failed>>

\* Auth's user changes, or the same user gets a new token: those who listen
\* are told on the main queue, later.
ChangeUser(u) ==
    /\ spent.changes < MaxChanges
    /\ u # Nobody \/ auth.user # Nobody
    /\ auth' = [auth EXCEPT !.user = u]
    /\ mainQ' = Append(mainQ, Notice(u))
    /\ spent' = [spent EXCEPT !.changes = @ + 1]
    /\ UNCHANGED <<tasks, engine, store, remote, server, told, failed>>

\* Auth's work queue takes up a token request: the token is the user's of now,
ReadUser(f) ==
    /\ ~f.read
    /\ remote' = [remote EXCEPT !.fetches =
                    (@ \ {f}) \union {[f EXCEPT !.read = TRUE, !.as = auth.user]}]
    /\ UNCHANGED <<auth, mainQ, tasks, engine, store, server, told, spent, failed>>

\* and the answer goes to the main queue when the token is there, or cannot be had.
AnswerToken(f, ok) ==
    /\ f.read
    /\ ~ok => spent.breaks < MaxBreaks
    /\ spent' = [spent EXCEPT !.breaks = IF ok THEN @ ELSE @ + 1]
    /\ remote' = [remote EXCEPT !.fetches = @ \ {f}]
    /\ mainQ' = Append(mainQ, Token(f, ok))
    /\ UNCHANGED <<auth, tasks, engine, store, server, told, failed>>
-----------------------------------------------------------------------------
(* The main queue.                                                         *)

\* The credentials provider hears of a change of user: it counts it, and the
\* client passes it to the worker.
HearChange ==
    /\ mainQ # <<>> /\ Head(mainQ).kind = "notice"
    /\ mainQ' = Tail(mainQ)
    /\ auth' = [auth EXCEPT !.counter = @ + 1]
    /\ tasks' = Append(tasks, Credential(Head(mainQ).user))
    /\ UNCHANGED <<engine, store, remote, server, told, spent, failed>>

\* A token comes back; it is given up if the user changed since the request.
HearToken ==
    /\ mainQ # <<>> /\ Head(mainQ).kind = "token"
    /\ mainQ' = Tail(mainQ)
    /\ tasks' = Append(tasks, [Head(mainQ) EXCEPT
                                  !.ok = @ /\ Head(mainQ).counter = auth.counter])
    /\ UNCHANGED <<auth, engine, store, remote, server, told, spent, failed>>

\* A completion handler of the app runs.
RunHandler ==
    /\ mainQ # <<>> /\ Head(mainQ).kind = "answer"
    /\ mainQ' = Tail(mainQ)
    /\ told' = [told EXCEPT ![Head(mainQ).w] = IF Head(mainQ).ok THEN "ok" ELSE "error"]
    /\ UNCHANGED <<auth, tasks, engine, store, remote, server, spent, failed>>
-----------------------------------------------------------------------------
(* The worker queue. A handler that is between its callback and the        *)
(* removal of the batch keeps everything else waiting.                     *)

Free == engine.acking = <<>>

Task(kind) == Free /\ tasks # <<>> /\ Head(tasks).kind = kind /\ tasks' = Tail(tasks)

\* SyncEngine::WriteMutations. The callback map keeps the callback it has if
\* the id is taken.
WriteLocally ==
    /\ Task("write")
    /\ LET w == Head(tasks).w
           b == [id |-> store.nextId, w |-> w]
           taken == \E c \in engine.callbacks : c.user = engine.user /\ c.id = b.id
       IN  /\ store' = [queue |-> [store.queue EXCEPT ![engine.user] = Append(@, b)],
                        nextId |-> store.nextId + 1]
           /\ engine' = IF taken THEN engine
                        ELSE [engine EXCEPT !.callbacks =
                                @ \union {[user |-> engine.user, id |-> b.id, w |-> w]}]
    /\ remote' = FillWritePipeline(remote, store'.queue[engine.user], auth.counter)
    /\ UNCHANGED <<auth, mainQ, server, told, spent, failed>>

\* (mutant: the pipeline of the user before is kept)
HandleCredentialChangeKeeps ==
    /\ Task("credential")
    /\ LET u == Head(tasks).user
       IN  /\ engine' = [engine EXCEPT !.user = u]
           /\ store' = IF u = engine.user THEN store
                       ELSE [store EXCEPT !.nextId = LoadNextBatchId(store.queue)]
           /\ remote' = FillWritePipeline(Stop(remote), store.queue[u], auth.counter)
    /\ UNCHANGED <<auth, mainQ, server, told, spent, failed>>

\* (mutant: the stream of the user before is kept)
HandleCredentialChangeOpen ==
    /\ Task("credential")
    /\ LET u == Head(tasks).user
       IN  /\ engine' = [engine EXCEPT !.user = u]
           /\ store' = IF u = engine.user THEN store
                       ELSE [store EXCEPT !.nextId = LoadNextBatchId(store.queue)]
           /\ remote' = FillWritePipeline([remote EXCEPT !.pipeline = <<>>],
                                          store.queue[u], auth.counter)
    /\ UNCHANGED <<auth, mainQ, server, told, spent, failed>>

\* HandleCredentialChange of SyncEngine, LocalStore and RemoteStore: the
\* network is off while the stream stops, so the stop needs no empty pipeline.
HandleCredentialChange ==
    /\ Task("credential")
    /\ LET u == Head(tasks).user
       IN  /\ engine' = [engine EXCEPT !.user = u]
           /\ store' = IF u = engine.user THEN store
                       ELSE [store EXCEPT !.nextId = LoadNextBatchId(store.queue)]
           /\ remote' = FillWritePipeline([Stop(remote) EXCEPT !.pipeline = <<>>],
                                          store.queue[u], auth.counter)
    /\ UNCHANGED <<auth, mainQ, server, told, spent, failed>>

\* ResumeStartWithCredentials. Opening the call and sending the handshake
\* follow at once.
ResumeStart ==
    /\ Task("token")
    /\ LET t == Head(tasks)
           stale == t.closes # remote.closes
           broken == remote.state # "Starting" \/ HandshakeComplete(remote)
       IN  \/ stale /\ UNCHANGED <<remote, failed>>
           \/ ~stale /\ broken /\ failed' = TRUE /\ UNCHANGED remote
           \/ /\ ~stale /\ ~broken
              /\ remote' =
                    IF t.ok
                    THEN [remote EXCEPT !.state = "Open", !.hello = "sent",
                                        !.idle = FALSE, !.as = t.as]
                    ELSE StartWriteStream(Closed(remote, "Error"), auth.counter)
              /\ UNCHANGED failed
    /\ UNCHANGED <<auth, mainQ, engine, store, server, told, spent>>

\* The backoff timer.
BackoffElapsed ==
    /\ Free /\ remote.state = "Backoff"
    /\ remote' = RequestCredentials(remote, auth.counter)
    /\ UNCHANGED <<auth, mainQ, tasks, engine, store, server, told, spent, failed>>

\* The idle timer: the stream is stopped although the network is in use.
IdleTimeout ==
    /\ Free /\ remote.idle
    /\ failed' = (failed \/ remote.pipeline # <<>>)
    /\ remote' = StartWriteStream(Stop(remote), auth.counter)
    /\ UNCHANGED <<auth, mainQ, tasks, engine, store, server, told, spent>>

\* OnWriteStreamHandshakeComplete: the pipeline is sent.
CompleteHandshake ==
    /\ Free /\ remote.state = "Open" /\ remote.hello = "answered"
    /\ remote' = [remote EXCEPT !.hello = "done", !.outbox = remote.pipeline,
                    !.idle = @ /\ remote.pipeline = <<>>]
    /\ UNCHANGED <<auth, mainQ, tasks, engine, store, server, told, spent, failed>>

\* (mutant: the callback is erased and not run)
MutationResultSilent ==
    /\ Free /\ remote.state = "Open" /\ HandshakeComplete(remote) /\ remote.inbox > 0
    /\ remote.pipeline # <<>>
    /\ LET b == Head(remote.pipeline)
           calls == {c \in engine.callbacks : c.user = engine.user /\ c.id = b.id}
       IN  /\ remote' = [remote EXCEPT !.inbox = @ - 1, !.pipeline = Tail(@)]
           /\ engine' = [engine EXCEPT !.acking = <<b>>, !.callbacks = @ \ calls]
    /\ UNCHANGED <<auth, mainQ, tasks, store, server, told, spent, failed>>

\* OnWriteStreamMutationResult up to NotifyUser: the front of the pipeline is
\* the write that was carried out, and its callback posts to the main queue.
MutationResult ==
    /\ Free /\ remote.state = "Open" /\ HandshakeComplete(remote) /\ remote.inbox > 0
    /\ IF remote.pipeline = <<>> THEN failed' = TRUE /\ UNCHANGED <<mainQ, engine, remote>>
       ELSE LET b == Head(remote.pipeline)
                calls == {c \in engine.callbacks : c.user = engine.user /\ c.id = b.id}
            IN  /\ remote' = [remote EXCEPT !.inbox = @ - 1, !.pipeline = Tail(@)]
                /\ engine' = [engine EXCEPT !.acking = <<b>>, !.callbacks = @ \ calls]
                /\ \/ calls = {} /\ UNCHANGED mainQ
                   \/ \E c \in calls : mainQ' = Append(mainQ, Reply(c.w, TRUE))
                /\ UNCHANGED failed
    /\ UNCHANGED <<auth, tasks, store, server, told, spent>>

\* The rest of it: LocalStore::AcknowledgeBatch and FillWritePipeline.
AcknowledgeBatch ==
    /\ ~Free
    /\ failed' = (failed \/ ~Stored(Queue, engine.acking[1]))
    /\ store' = [store EXCEPT !.queue[engine.user] = Without(@, engine.acking[1])]
    /\ engine' = [engine EXCEPT !.acking = <<>>]
    /\ remote' = FillWritePipeline(remote, store'.queue[engine.user], auth.counter)
    /\ UNCHANGED <<auth, mainQ, tasks, server, told, spent>>

\* (mutant: the callback of a rejected batch stays in the map)
HandleWriteErrorKeeps ==
    /\ Free /\ remote.state = "Open" /\ remote.ended /\ remote.inbox = 0
    /\ remote.pipeline # <<>>
    /\ LET b == Head(remote.pipeline)
           calls == {c \in engine.callbacks : c.user = engine.user /\ c.id = b.id}
       IN  /\ store' = [store EXCEPT !.queue[engine.user] = Without(@, b)]
           /\ \/ calls = {} /\ UNCHANGED mainQ
              \/ \E c \in calls : mainQ' = Append(mainQ, Reply(c.w, FALSE))
    /\ remote' = FillWritePipeline([Closed(remote, "Initial") EXCEPT !.pipeline = Tail(@)],
                                   store'.queue[engine.user], auth.counter)
    /\ UNCHANGED <<auth, tasks, engine, server, told, spent, failed>>

\* The stream ends with a permanent error once its answers are read:
\* HandleWriteError rejects the front of the pipeline and starts again at once.
HandleWriteError ==
    /\ Free /\ remote.state = "Open" /\ remote.ended /\ remote.inbox = 0
    /\ remote.pipeline # <<>>
    /\ LET b == Head(remote.pipeline)
           calls == {c \in engine.callbacks : c.user = engine.user /\ c.id = b.id}
       IN  /\ failed' = (failed \/ ~Stored(Queue, b))
           /\ store' = [store EXCEPT !.queue[engine.user] = Without(@, b)]
           /\ engine' = [engine EXCEPT !.callbacks = @ \ calls]
           /\ \/ calls = {} /\ UNCHANGED mainQ
              \/ \E c \in calls : mainQ' = Append(mainQ, Reply(c.w, FALSE))
    /\ remote' = FillWritePipeline([Closed(remote, "Initial") EXCEPT !.pipeline = Tail(@)],
                                   store'.queue[engine.user], auth.counter)
    /\ UNCHANGED <<auth, tasks, server, told, spent>>

\* The connection is lost, with the answers that were not read: nothing is
\* rejected, and the stream backs off if there is something to send.
StreamBreaks ==
    /\ Free /\ remote.state = "Open"
    /\ spent.breaks < MaxBreaks
    /\ spent' = [spent EXCEPT !.breaks = @ + 1]
    /\ remote' = StartWriteStream(Closed(remote, "Error"), auth.counter)
    /\ UNCHANGED <<auth, mainQ, tasks, engine, store, server, told, failed>>
-----------------------------------------------------------------------------
(* The database.                                                           *)

ServerGreets ==
    /\ remote.hello = "sent"
    /\ remote' = [remote EXCEPT !.hello = "answered"]
    /\ UNCHANGED <<auth, mainQ, tasks, engine, store, server, told, spent, failed>>

ServerCommits ==
    /\ remote.outbox # <<>> /\ ~remote.ended
    /\ server' = [server EXCEPT !.done = @ \union {Head(remote.outbox).w}]
    /\ remote' = [remote EXCEPT !.outbox = Tail(@), !.inbox = @ + 1]
    /\ UNCHANGED <<auth, mainQ, tasks, engine, store, told, spent, failed>>

ServerRefuses ==
    /\ remote.outbox # <<>> /\ ~remote.ended
    /\ server' = [server EXCEPT !.refused = @ \union {Head(remote.outbox).w}]
    /\ remote' = [remote EXCEPT !.ended = TRUE]
    /\ UNCHANGED <<auth, mainQ, tasks, engine, store, told, spent, failed>>
-----------------------------------------------------------------------------
\* The process ends, wherever its queues are, and is started again: Auth loads
\* its user on its own queue, so Firestore may begin as Nobody; a notice of
\* the loaded user is on the main queue either way.
Restart(u) ==
    /\ spent.crashes < MaxCrashes
    /\ u \in {Nobody, auth.user}
    /\ spent' = [spent EXCEPT !.crashes = @ + 1]
    /\ auth' = [auth EXCEPT !.counter = 0]
    /\ mainQ' = IF auth.user = Nobody THEN <<>> ELSE <<Notice(auth.user)>>
    /\ tasks' = <<>>
    /\ engine' = [user |-> u, callbacks |-> {}, acking |-> <<>>]
    /\ store' = [store EXCEPT !.nextId = LoadNextBatchId(store.queue)]
    /\ remote' = FillWritePipeline(FreshRemote, store.queue[u], 0)
    /\ UNCHANGED <<server, told, failed>>

Worker ==
    \/ WriteLocally \/ HandleCredentialChange \/ ResumeStart
    \/ BackoffElapsed \/ CompleteHandshake \/ MutationResult \/ AcknowledgeBatch
    \/ HandleWriteError

Main == HearChange \/ HearToken \/ RunHandler

Auth ==
    \E f \in remote.fetches : ReadUser(f) \/ AnswerToken(f, TRUE)

Server == ServerGreets \/ ServerCommits \/ ServerRefuses

Next ==
    \/ \E w \in Writes : WriteMutations(w)
    \/ \E u \in Users : ChangeUser(u)
    \/ \E f \in remote.fetches : AnswerToken(f, FALSE)
    \/ Auth \/ Main \/ Worker \/ Server
    \/ IdleTimeout \/ StreamBreaks
    \/ \E u \in Users : Restart(u)

Spec == Init /\ [][Next]_vars

\* The queues go on, Auth and a database that can be reached answer, and a
\* timer that is set goes off. No account has to change, no connection has to
\* break and no process has to end.
Fairness ==
    /\ WF_vars(Main) /\ WF_vars(Worker) /\ WF_vars(Server) /\ WF_vars(Auth)

LiveSpec == Spec /\ Fairness
-----------------------------------------------------------------------------
(* The properties.                                                         *)

Stream ==
    [state : {"Initial", "Starting", "Open", "Backoff", "Error"},
     hello : {"none", "sent", "answered", "done"},
     idle : BOOLEAN, closes : Nat, pipeline : Seq(Batch),
     fetches : SUBSET [counter : Nat, closes : Nat, read : BOOLEAN, as : Users],
     as : Users, outbox : Seq(Batch), inbox : Nat, ended : BOOLEAN]

Tokens ==
    [kind : {"token"}, closes : Nat, as : Users, ok : BOOLEAN, counter : Nat]

Messages ==
    Tokens \union [kind : {"notice"}, user : Users]
           \union [kind : {"answer"}, w : Writes, ok : BOOLEAN]

Jobs ==
    Tokens \union [kind : {"credential"}, user : Users]
           \union [kind : {"write"}, w : Writes]

TypeOK ==
    /\ auth \in [user : Users, counter : Nat]
    /\ mainQ \in Seq(Messages)
    /\ tasks \in Seq(Jobs)
    /\ engine \in [user : Users, acking : Seq(Batch),
                   callbacks : SUBSET [user : Users, id : Nat, w : Writes]]
    /\ store \in [queue : [Users -> Seq(Batch)], nextId : Nat]
    /\ remote \in Stream
    /\ server \in [done : SUBSET Writes, refused : SUBSET Writes]
    /\ told \in [Writes -> {"uncalled", "waiting", "ok", "error"}]
    /\ spent \in [changes : Nat, breaks : Nat, crashes : Nat]
    /\ failed \in BOOLEAN

\* The client's own assertions hold: a token arrives at a stream that waits for
\* it, a stream in use is never stopped by the idle timer, every answer finds a
\* write in the pipeline, and every batch that is removed is stored.
NoAssertionFails == ~failed

\* Batch ids are given again once their batches are gone, also to another user's
\* batches; still every callback in the map belongs to the batch that has its id.
CallbackHasItsBatch ==
    \A c \in engine.callbacks :
        \E i \in DOMAIN store.queue[c.user] :
            store.queue[c.user][i] = [id |-> c.id, w |-> c.w]

\* The answers of a stream name no write: what was answered and not yet read,
\* and what was sent and not yet answered, is the pipeline in its order.
AnswersMatchThePipeline ==
    HandshakeComplete(remote) =>
        /\ Len(remote.pipeline) = remote.inbox + Len(remote.outbox)
        /\ \A i \in 1..Len(remote.outbox) :
              remote.outbox[i] = remote.pipeline[remote.inbox + i]

\* A write is sent with a token of the user whose mutation queue holds it,
\* whenever the account changes between the request for the token and the answer.
SentAsItsUser ==
    \A i \in DOMAIN remote.outbox :
        \E j \in DOMAIN store.queue[remote.as] :
            store.queue[remote.as][j] = remote.outbox[i]

\* While a session lasts and the database can be reached, the writes of its user
\* are all settled.
QueueDrains ==
    \A u \in Users : engine.user = u /\ store.queue[u] # <<>>
                        ~> engine.user # u \/ store.queue[u] = <<>>

HasHandler(w, u) ==
    engine.user = u /\ \E c \in engine.callbacks : c.w = w /\ c.user = u

\* A handler that is in the callback map of the session's user is told, unless
\* the session or the process ends.
HandlerIsTold ==
    \A w \in Writes, u \in Users, n \in 0..MaxCrashes :
        HasHandler(w, u) /\ spent.crashes = n
            ~> told[w] \in {"ok", "error"} \/ engine.user # u \/ spent.crashes # n
=============================================================================
