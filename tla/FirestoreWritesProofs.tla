---------------------- MODULE FirestoreWritesProofs ----------------------
(***************************************************************************)
(* Proofs about FirestoreWrites, for any users, any number of writes and   *)
(* any bounds: the types, the ids of the mutation queues, the callbacks,   *)
(* the correspondence of answers and pipeline, the assertions of the       *)
(* client, that a write goes out with a token of its user, and that the    *)
(* client implements WriteQueue.                                           *)
(***************************************************************************)
EXTENDS MCFirestoreWrites, SequenceTheorems, WellFoundedInduction, TLAPS

-----------------------------------------------------------------------------
(* Natural numbers.                                                        *)

LEMMA LeastNatural ==
    ASSUME NEW T, T \subseteq Nat, T # {}
    PROVE  \E x \in T : \A y \in T : x <= y
<1> DEFINE R == OpToRel(<, Nat)
<1>1. IsWellFoundedOn(R, Nat)
  BY NatLessThanWellFounded
<1>2. \A y, x \in Nat : <<y, x>> \in R <=> y < x
  BY DEF OpToRel
<1> HIDE DEF R
<1>3. PICK x \in T : \A y \in T : ~ (<<y, x>> \in R)
  BY <1>1, WFMin
<1>4. ASSUME NEW y \in T PROVE x <= y
  <2>1. x \in Nat /\ y \in Nat
    OBVIOUS
  <2>2. ~(y < x)
    BY <1>2, <1>3, <2>1, Zenon
  <2> QED
    BY <2>1, <2>2
<1> QED
  BY <1>4

LEMMA RestLength ==
    ASSUME NEW n \in Nat, NEW i \in 1..n, NEW x,
           x = IF i + 1 <= n THEN n - (i + 1) + 1 ELSE 0
    PROVE  x = n - i
<1>1. CASE i < n
  BY <1>1
<1>2. CASE i = n
  BY <1>2
<1> QED
  BY <1>1, <1>2

\* What the CHOOSE of LoadNextBatchId finds.
LEMMA GreatestNatural ==
    ASSUME NEW S, S \subseteq Nat, S # {},
           NEW n \in Nat, \A k \in S : k <= n
    PROVE  \E m \in S : \A k \in S : k <= m
<1> DEFINE T == {n - k : k \in S}
<1>1. \A k \in S : n - k \in Nat
  OBVIOUS
<1>2. T \subseteq Nat /\ T # {}
  BY <1>1, Zenon
<1>3. PICK x \in T : \A y \in T : x <= y
  BY <1>2, LeastNatural
<1>4. PICK m \in S : x = n - m
  OBVIOUS
<1>5. ASSUME NEW k \in S PROVE k <= m
  <2>1. n - k \in T
    OBVIOUS
  <2>2. n - m <= n - k
    BY <1>3, <1>4, <2>1
  <2> QED
    BY <2>2
<1> QED
  BY <1>5
-----------------------------------------------------------------------------
(* The mutation queues.                                                    *)

\* The ids of a queue grow from its oldest batch to its newest.
Sorted(q) == \A i, j \in DOMAIN q : i < j => q[i].id < q[j].id

\* Every stored id is below the next one.
Fresh(queue, n) == \A u \in Users : \A i \in DOMAIN queue[u] : queue[u][i].id < n

StoreOK ==
    /\ \A u \in Users : Sorted(store.queue[u])
    /\ Fresh(store.queue, store.nextId)

LEMMA BatchAt ==
    ASSUME NEW q \in Seq(Batch), NEW i \in DOMAIN q
    PROVE  q[i] \in Batch /\ q[i].id \in Nat /\ i \in 1..Len(q)
<1>1. q[i] \in Batch /\ i \in 1..Len(q)
  OBVIOUS
<1> QED
  BY <1>1 DEF Batch

\* The id that is given next is above every stored one.
LEMMA NextIdIsFresh ==
    ASSUME NEW queue \in [Users -> Seq(Batch)], NEW n \in Nat, Fresh(queue, n)
    PROVE  /\ LoadNextBatchId(queue) \in Nat /\ LoadNextBatchId(queue) > 0
           /\ Fresh(queue, LoadNextBatchId(queue))
<1> DEFINE S == Ids(queue)
<1>1. \A u \in Users : \A i \in DOMAIN queue[u] : queue[u][i].id \in S
  BY DEF Ids
<1>2. \A k \in S : k = 0 \/ \E u \in Users : \E i \in DOMAIN queue[u] : k = queue[u][i].id
  BY DEF Ids
<1>3. \A u \in Users : \A i \in DOMAIN queue[u] : queue[u][i].id \in Nat /\ queue[u][i].id < n
  <2> SUFFICES ASSUME NEW u \in Users, NEW i \in DOMAIN queue[u]
               PROVE  queue[u][i].id \in Nat /\ queue[u][i].id < n
    OBVIOUS
  <2>1. queue[u] \in Seq(Batch)
    OBVIOUS
  <2> QED
    BY <2>1, BatchAt DEF Fresh
<1>4. S \subseteq Nat /\ \A k \in S : k <= n
  BY <1>2, <1>3
<1>5. 0 \in S
  BY DEF Ids
<1> HIDE DEF S
<1>6. \E m \in S : \A k \in S : k <= m
  BY <1>4, <1>5, GreatestNatural
<1> DEFINE m == CHOOSE m \in S : \A k \in S : k <= m
<1>7. m \in S /\ \A k \in S : k <= m
  BY <1>6
<1>8. LoadNextBatchId(queue) = 1 + m
  BY DEF LoadNextBatchId, S
<1> HIDE DEF m
<1>9. m \in Nat
  BY <1>4, <1>7
<1>10. ASSUME NEW u \in Users, NEW i \in DOMAIN queue[u]
      PROVE  queue[u][i].id < 1 + m
  BY <1>1, <1>3, <1>7, <1>9
<1> QED
  BY <1>8, <1>9, <1>10 DEF Fresh

\* Where the batches after `last` begin.
LEMMA BatchesBegin ==
    ASSUME NEW q \in Seq(Batch), Sorted(q), NEW last \in Nat
    PROVE  \E i \in 1..(Len(q) + 1) : \A j \in DOMAIN q : j < i <=> q[j].id <= last
<1> DEFINE T == {Len(q) + 1} \union {j \in 1..Len(q) : q[j].id > last}
<1>1. T \subseteq Nat /\ T # {}
  OBVIOUS
<1>2. PICK i \in T : \A y \in T : i <= y
  BY <1>1, LeastNatural
<1>3. i \in 1..(Len(q) + 1)
  OBVIOUS
<1>4. DOMAIN q = 1..Len(q) /\ Len(q) \in Nat
  OBVIOUS
<1>5. ASSUME NEW j \in DOMAIN q PROVE j < i <=> q[j].id <= last
  <2>1. q[j].id \in Nat /\ j \in 1..Len(q)
    BY BatchAt
  <2>2. ASSUME j < i PROVE q[j].id <= last
    <3>1. j \notin T
      BY <1>2, <1>3, <2>1, <2>2
    <3> QED
      BY <2>1, <3>1
  <2>3. ASSUME ~(j < i) PROVE ~(q[j].id <= last)
    <3>1. i <= j /\ i \in 1..Len(q)
      BY <1>3, <2>1, <2>3
    <3>4. q[i].id \in Nat
      BY <1>4, <3>1, BatchAt
    <3>2. q[i].id > last
      BY <3>1
    <3>3. q[i].id <= q[j].id
      BY <1>4, <2>1, <3>1, <3>4 DEF Sorted
    <3> QED
      BY <2>1, <3>2, <3>3, <3>4
  <2> QED
    BY <2>2, <2>3
<1> QED
  BY <1>3, <1>5

LEMMA NextBatchesType ==
    ASSUME NEW q \in Seq(Batch), Sorted(q), NEW last \in Nat, NEW room \in Int
    PROVE  NextBatches(q, last, room) \in Seq(Batch)
<1> DEFINE from == CHOOSE i \in 1..(Len(q) + 1) :
                      \A j \in DOMAIN q : j < i <=> q[j].id <= last
           to == IF from + room - 1 < Len(q) THEN from + room - 1 ELSE Len(q)
<1>1. from \in 1..(Len(q) + 1)
  BY BatchesBegin
<1>2. NextBatches(q, last, room) = SubSeq(q, from, to)
  BY DEF NextBatches
<1> HIDE DEF from
<1>3. to \in Int /\ to <= Len(q)
  BY <1>1
<1> HIDE DEF to
<1> QED
  BY <1>1, <1>2, <1>3

\* Removing a batch keeps the others, in their order.
LEMMA WithoutKeeps ==
    ASSUME NEW q \in Seq(Batch), Sorted(q), NEW b
    PROVE  /\ Without(q, b) \in Seq(Batch)
           /\ Sorted(Without(q, b))
           /\ \A i \in DOMAIN q : q[i].id # b.id =>
                  \E j \in DOMAIN Without(q, b) : Without(q, b)[j] = q[i]
           /\ \A j \in DOMAIN Without(q, b) :
                  \E i \in DOMAIN q : Without(q, b)[j] = q[i]
<1> DEFINE W == Without(q, b)
<1>1. CASE ~Stored(q, b)
  BY <1>1 DEF Without
<1>2. CASE Stored(q, b)
  <2> DEFINE i == CHOOSE i \in DOMAIN q : q[i].id = b.id
  <2>1. i \in DOMAIN q /\ q[i].id = b.id
    BY <1>2 DEF Stored
  <2> HIDE DEF i
  <2>2. i \in 1..Len(q) /\ Len(q) \in Nat /\ DOMAIN q = 1..Len(q)
    BY <2>1
  <2> DEFINE A == SubSeq(q, 1, i - 1)
             B == SubSeq(q, i + 1, Len(q))
  <2>3. W = A \o B
    BY <1>2 DEF Without, i
  <2>4. A \in Seq(Batch) /\ Len(A) = i - 1 /\ \A k \in 1..(i - 1) : A[k] = q[k]
    BY <2>2, SubSeqProperties
  <2>5. B \in Seq(Batch) /\ Len(B) = Len(q) - i
        /\ \A k \in 1..(Len(q) - i) : B[k] = q[i + k]
    <3>1. \A k \in (i + 1)..Len(q) : q[k] \in Batch
      BY <2>2
    <3>2. /\ B \in Seq(Batch)
          /\ Len(B) = IF i + 1 <= Len(q) THEN Len(q) - (i + 1) + 1 ELSE 0
          /\ \A k \in 1..(Len(q) - (i + 1) + 1) : B[k] = q[(i + 1) + k - 1]
      BY <2>2, <3>1, SubSeqProperties
    <3> HIDE DEF B
    <3>3. Len(B) = Len(q) - i
      <4>1. Len(B) = IF i + 1 <= Len(q) THEN Len(q) - (i + 1) + 1 ELSE 0
        BY <3>2
      <4> QED
        BY <2>2, <4>1, RestLength
    <3>4. ASSUME NEW k \in 1..(Len(q) - i) PROVE B[k] = q[i + k]
      <4>1. k \in 1..(Len(q) - (i + 1) + 1) /\ (i + 1) + k - 1 = i + k
        BY <2>2
      <4> QED
        BY <3>2, <4>1
    <3> QED
      BY <3>2, <3>3, <3>4
  <2> HIDE DEF A, B, W
  <2>6. /\ W \in Seq(Batch) /\ Len(W) = Len(q) - 1 /\ DOMAIN W = 1..(Len(q) - 1)
        /\ \A k \in 1..(Len(q) - 1) : W[k] = IF k <= i - 1 THEN A[k] ELSE B[k - (i - 1)]
    <3>1. Len(A) + Len(B) = Len(q) - 1
      BY <2>2, <2>4, <2>5
    <3>2. W \in Seq(Batch) /\ Len(W) = Len(A) + Len(B)
          /\ \A k \in 1..Len(A) + Len(B) : W[k] = IF k <= Len(A) THEN A[k] ELSE B[k - Len(A)]
      BY <2>3, <2>4, <2>5, ConcatProperties
    <3> QED
      BY <2>4, <3>1, <3>2
  <2>7. \A k \in 1..(i - 1) : W[k] = q[k]
    BY <2>2, <2>4, <2>6
  <2>8. ASSUME NEW k \in i..(Len(q) - 1) PROVE W[k] = q[k + 1]
    <3>1. W[k] = B[k - (i - 1)]
      BY <2>2, <2>6
    <3>2. k - (i - 1) \in 1..(Len(q) - i) /\ i + (k - (i - 1)) = k + 1
      BY <2>2
    <3> QED
      BY <2>5, <3>1, <3>2
  <2>9. ASSUME NEW j \in DOMAIN W
        PROVE  \E k \in DOMAIN q : W[j] = q[k] /\ k = IF j < i THEN j ELSE j + 1
    BY <2>2, <2>6, <2>7, <2>8
  <2>10. Sorted(W)
    <3> SUFFICES ASSUME NEW j \in DOMAIN W, NEW k \in DOMAIN W, j < k
                 PROVE  W[j].id < W[k].id
      BY DEF Sorted
    <3>1. PICK jj \in DOMAIN q : W[j] = q[jj] /\ jj = IF j < i THEN j ELSE j + 1
      BY <2>9
    <3>2. PICK kk \in DOMAIN q : W[k] = q[kk] /\ kk = IF k < i THEN k ELSE k + 1
      BY <2>9
    <3>3. jj < kk
      BY <2>2, <2>6, <3>1, <3>2
    <3> QED
      BY <3>1, <3>2, <3>3 DEF Sorted
  <2>11. ASSUME NEW k \in DOMAIN q, q[k].id # b.id
         PROVE  \E j \in DOMAIN W : W[j] = q[k]
    <3>1. CASE k < i
      <4>1. k \in 1..(i - 1) /\ k \in DOMAIN W
        BY <2>2, <2>6, <3>1
      <4> QED
        BY <2>7, <4>1
    <3>2. CASE k > i
      <4>1. k - 1 \in i..(Len(q) - 1) /\ k - 1 \in DOMAIN W /\ (k - 1) + 1 = k
        BY <2>2, <2>6, <3>2
      <4> QED
        BY <2>8, <4>1
    <3> QED
      BY <2>1, <2>2, <2>11, <3>1, <3>2
  <2> QED
    BY <2>6, <2>9, <2>10, <2>11 DEF W
<1> QED
  BY <1>1, <1>2
-----------------------------------------------------------------------------
(* The stream.                                                             *)

\* n writes at the front of p, and then out, are p.
Alike(p, out, n) ==
    /\ Len(p) = n + Len(out)
    /\ \A i \in 1..Len(out) : out[i] = p[n + i]

\* Only an open stream has anything of its call, and until the handshake is
\* complete it carries no write; then sent and answered are the pipeline.
LinkOK(r) ==
    /\ r.hello # "none" => r.state = "Open"
    /\ r.hello # "done" => r.outbox = <<>> /\ r.inbox = 0
    /\ r.hello = "done" => Alike(r.pipeline, r.outbox, r.inbox)

GoodStream(r) == r \in Stream /\ LinkOK(r)

LEMMA FreshGood == GoodStream(FreshRemote) /\ FreshRemote.hello = "none"
<1>1. <<>> \in Seq(Batch)
  OBVIOUS
<1>2. FreshRemote \in Stream
  BY <1>1, UsersAssumption DEF FreshRemote, Stream
<1> QED
  BY <1>2 DEF GoodStream, LinkOK, FreshRemote

LEMMA ClosedGood ==
    ASSUME NEW r \in Stream, NEW s \in {"Initial", "Error"}
    PROVE  GoodStream(Closed(r, s)) /\ Closed(r, s).hello = "none"
<1>1. <<>> \in Seq(Batch)
  OBVIOUS
<1>2. Closed(r, s) = [r EXCEPT !.as = Nobody, !.outbox = <<>>, !.inbox = 0,
                               !.ended = FALSE, !.state = s, !.idle = FALSE,
                               !.closes = @ + 1, !.hello = "none"]
  BY DEF Closed, NoLink, Stream
<1>3. r.closes \in Nat /\ r.closes + 1 \in Nat
  BY DEF Stream
<1>4. [r EXCEPT !.as = Nobody, !.outbox = <<>>, !.inbox = 0, !.ended = FALSE] \in Stream
  BY <1>1, UsersAssumption DEF Stream
<1>5. Closed(r, s) \in Stream
  BY <1>3, <1>4 DEF Closed, NoLink, Stream
<1> QED
  BY <1>2, <1>5 DEF GoodStream, LinkOK, Stream

LEMMA StopGood ==
    ASSUME NEW r, GoodStream(r)
    PROVE  GoodStream(Stop(r)) /\ Stop(r).hello = "none"
<1>1. CASE IsStarted(r)
  BY <1>1, ClosedGood DEF Stop, GoodStream
<1>2. CASE ~IsStarted(r)
  <2>1. r.hello = "none"
    BY <1>2 DEF GoodStream, LinkOK, IsStarted
  <2> QED
    BY <1>2, <2>1 DEF Stop
<1> QED
  BY <1>1, <1>2

LEMMA PipelineGood ==
    ASSUME NEW r, GoodStream(r), r.hello = "none", NEW p \in Seq(Batch)
    PROVE  GoodStream([r EXCEPT !.pipeline = p])
BY DEF GoodStream, LinkOK, Stream

LEMMA RequestGood ==
    ASSUME NEW r, GoodStream(r), r.hello = "none", NEW n \in Nat
    PROVE  GoodStream(RequestCredentials(r, n))
<1> DEFINE f == [counter |-> n, closes |-> r.closes, read |-> FALSE, as |-> Nobody]
<1>1. f \in [counter : Nat, closes : Nat, read : BOOLEAN, as : Users]
  BY UsersAssumption DEF GoodStream, Stream
<1>2. RequestCredentials(r, n) = [r EXCEPT !.state = "Starting", !.fetches = @ \union {f}]
  BY DEF RequestCredentials
<1> HIDE DEF f
<1>3. [r EXCEPT !.state = "Starting", !.fetches = @ \union {f}] \in Stream
  BY <1>1 DEF GoodStream, Stream
<1>4. LinkOK([r EXCEPT !.state = "Starting", !.fetches = @ \union {f}])
  BY DEF GoodStream, LinkOK, Stream
<1> QED
  BY <1>2, <1>3, <1>4 DEF GoodStream

LEMMA StartGood ==
    ASSUME NEW r, GoodStream(r), NEW n \in Nat
    PROVE  GoodStream(StartWriteStream(r, n))
<1>1. CASE IsStarted(r) \/ r.pipeline = <<>>
  BY <1>1 DEF StartWriteStream
<1>2. CASE ~(IsStarted(r) \/ r.pipeline = <<>>)
  <2>1. r.hello = "none"
    BY <1>2 DEF GoodStream, LinkOK, IsStarted
  <2>2. CASE r.state = "Error"
    <3>1. GoodStream([r EXCEPT !.state = "Backoff"])
      BY <2>1 DEF GoodStream, LinkOK, Stream
    <3> QED
      BY <1>2, <2>2, <3>1 DEF StartWriteStream
  <2>3. CASE r.state # "Error"
    BY <1>2, <2>1, <2>3, RequestGood DEF StartWriteStream
  <2> QED
    BY <2>2, <2>3
<1> QED
  BY <1>1, <1>2

\* What is appended to the pipeline of a complete stream is appended to what
\* it sends.
LEMMA AppendedAlike ==
    ASSUME NEW p \in Seq(Batch), NEW out \in Seq(Batch), NEW more \in Seq(Batch),
           NEW n \in Nat, Alike(p, out, n)
    PROVE  Alike(p \o more, out \o more, n)
<1>0. Len(p) = n + Len(out) /\ \A i \in 1..Len(out) : out[i] = p[n + i]
  BY DEF Alike
<1>a. Len(p \o more) = Len(p) + Len(more)
  BY ConcatProperties
<1>b. Len(out \o more) = Len(out) + Len(more)
  BY ConcatProperties
<1>1. /\ Len(p) \in Nat /\ Len(out) \in Nat /\ Len(more) \in Nat
      /\ Len(p \o more) = Len(p) + Len(more)
      /\ Len(out \o more) = Len(out) + Len(more)
  BY <1>a, <1>b, LenProperties
<1>2. /\ \A i \in 1..Len(p) + Len(more) :
             (p \o more)[i] = IF i <= Len(p) THEN p[i] ELSE more[i - Len(p)]
      /\ \A i \in 1..Len(out) + Len(more) :
             (out \o more)[i] = IF i <= Len(out) THEN out[i] ELSE more[i - Len(out)]
  BY ConcatProperties
<1>3. ASSUME NEW i \in 1..(Len(out) + Len(more))
      PROVE  (out \o more)[i] = (p \o more)[n + i]
  <2>1. n + i \in 1..(Len(p) + Len(more)) /\ i \in Nat
    BY <1>0, <1>1
  <2>2. CASE i <= Len(out)
    <3>1. n + i <= Len(p)
      BY <1>0, <1>1, <2>1, <2>2
    <3>2. out[i] = p[n + i]
      BY <1>0, <1>1, <2>1, <2>2
    <3> QED
      BY <1>2, <2>1, <2>2, <3>1, <3>2
  <2>3. CASE ~(i <= Len(out))
    <3>1. ~(n + i <= Len(p)) /\ (n + i) - Len(p) = i - Len(out)
      BY <1>0, <1>1, <2>1, <2>3
    <3> QED
      BY <1>2, <2>1, <2>3, <3>1
  <2> QED
    BY <2>2, <2>3
<1> QED
  BY <1>0, <1>1, <1>3 DEF Alike

\* An answer is read from the front of the pipeline,
LEMMA AnswerRead ==
    ASSUME NEW p \in Seq(Batch), NEW out \in Seq(Batch), NEW n \in Nat,
           p # <<>>, n > 0, Alike(p, out, n)
    PROVE  Alike(Tail(p), out, n - 1)
<1> DEFINE t == Tail(p)
<1>1. Len(p) = n + Len(out) /\ \A i \in 1..Len(out) : out[i] = p[n + i]
  BY DEF Alike
<1>2. /\ Len(t) = Len(p) - 1 /\ Len(p) \in Nat /\ Len(out) \in Nat
      /\ \A i \in 1..(Len(p) - 1) : t[i] = p[i + 1]
  BY HeadTailProperties
<1> HIDE DEF t
<1>3. Len(t) = (n - 1) + Len(out)
  BY <1>1, <1>2
<1>4. ASSUME NEW i \in 1..Len(out) PROVE out[i] = t[(n - 1) + i]
  <2>1. (n - 1) + i \in 1..(Len(p) - 1) /\ ((n - 1) + i) + 1 = n + i
    BY <1>1, <1>2
  <2> QED
    BY <1>1, <1>2, <2>1
<1> QED
  BY <1>3, <1>4 DEF Alike, t

\* and a write that the server handles goes from what is sent to what is answered.
LEMMA WriteHandled ==
    ASSUME NEW p \in Seq(Batch), NEW out \in Seq(Batch), NEW n \in Nat,
           out # <<>>, Alike(p, out, n)
    PROVE  Alike(p, Tail(out), n + 1)
<1> DEFINE t == Tail(out)
<1>1. Len(p) = n + Len(out) /\ \A i \in 1..Len(out) : out[i] = p[n + i]
  BY DEF Alike
<1>2. /\ Len(t) = Len(out) - 1 /\ Len(out) \in Nat
      /\ \A i \in 1..(Len(out) - 1) : t[i] = out[i + 1]
  BY HeadTailProperties
<1> HIDE DEF t
<1>3. Len(p) = (n + 1) + Len(t)
  BY <1>1, <1>2
<1>4. ASSUME NEW i \in 1..Len(t) PROVE t[i] = p[(n + 1) + i]
  <2>1. i \in 1..(Len(out) - 1) /\ i + 1 \in 1..Len(out) /\ n + (i + 1) = (n + 1) + i
    BY <1>2
  <2> QED
    BY <1>1, <1>2, <2>1
<1> QED
  BY <1>3, <1>4 DEF Alike, t

\* The stream whose pipeline was filled, before it is started if it must be.
Filled(r, q) ==
    LET last == IF r.pipeline = <<>> THEN 0 ELSE r.pipeline[Len(r.pipeline)].id
        more == NextBatches(q, last, MaxPending - Len(r.pipeline))
        live == r.state = "Open" /\ HandshakeComplete(r)
        idle == CASE more # <<>> /\ live -> FALSE
                  [] more = <<>> /\ r.pipeline = <<>> /\ r.state = "Open" -> TRUE
                  [] OTHER -> r.idle
    IN  [r EXCEPT !.pipeline = @ \o more,
                  !.outbox = IF live THEN @ \o more ELSE @,
                  !.idle = idle]

LEMMA FillStarts ==
    ASSUME NEW r, NEW q, NEW n
    PROVE  FillWritePipeline(r, q, n) = StartWriteStream(Filled(r, q), n)
BY DEF FillWritePipeline, Filled

LEMMA FilledGood ==
    ASSUME NEW r, GoodStream(r), NEW q \in Seq(Batch), Sorted(q)
    PROVE  GoodStream(Filled(r, q))
<1> DEFINE last == IF r.pipeline = <<>> THEN 0 ELSE r.pipeline[Len(r.pipeline)].id
           more == NextBatches(q, last, MaxPending - Len(r.pipeline))
           live == r.state = "Open" /\ HandshakeComplete(r)
           idle == CASE more # <<>> /\ live -> FALSE
                     [] more = <<>> /\ r.pipeline = <<>> /\ r.state = "Open" -> TRUE
                     [] OTHER -> r.idle
           s == [r EXCEPT !.pipeline = @ \o more,
                          !.outbox = IF live THEN @ \o more ELSE @,
                          !.idle = idle]
<1>1. r \in Stream /\ LinkOK(r)
  BY DEF GoodStream
<1>2. /\ r.pipeline \in Seq(Batch) /\ r.outbox \in Seq(Batch) /\ r.inbox \in Nat
      /\ r.idle \in BOOLEAN
  BY <1>1 DEF Stream
<1>3. last \in Nat
  <2>1. CASE r.pipeline # <<>>
    <3>1. Len(r.pipeline) \in DOMAIN r.pipeline
      BY <1>2, <2>1
    <3>2. r.pipeline[Len(r.pipeline)].id \in Nat
      BY <1>2, <3>1, BatchAt
    <3> QED
      BY <2>1, <3>2
  <2> QED
    BY <2>1
<1>4. MaxPending - Len(r.pipeline) \in Int
  BY <1>2, BoundsAssumption
<1> HIDE DEF last
<1>5. more \in Seq(Batch)
  BY <1>3, <1>4, NextBatchesType
<1> HIDE DEF more
<1>6. idle \in BOOLEAN
  BY <1>2
<1> HIDE DEF idle
<1>7. r.pipeline \o more \in Seq(Batch) /\ r.outbox \o more \in Seq(Batch)
  BY <1>2, <1>5
<1>8. s \in Stream
  BY <1>1, <1>6, <1>7 DEF Stream
<1>9. /\ s.state = r.state /\ s.hello = r.hello /\ s.inbox = r.inbox
      /\ s.pipeline = r.pipeline \o more
      /\ s.outbox = IF live THEN r.outbox \o more ELSE r.outbox
  BY <1>1 DEF Stream
<1> HIDE DEF s
<1>10. LinkOK(s)
  <2>1. CASE r.hello = "done"
    <3>1. live
      BY <1>1, <2>1 DEF LinkOK, HandshakeComplete
    <3>2. Alike(r.pipeline, r.outbox, r.inbox)
      BY <1>1, <2>1 DEF LinkOK
    <3>3. Alike(r.pipeline \o more, r.outbox \o more, r.inbox)
      BY <1>2, <1>5, <3>2, AppendedAlike
    <3>4. Alike(s.pipeline, s.outbox, s.inbox)
      BY <1>9, <3>1, <3>3
    <3> QED
      BY <1>1, <1>9, <2>1, <3>4 DEF LinkOK
  <2>2. CASE r.hello # "done"
    <3>1. ~live
      BY <2>2 DEF HandshakeComplete
    <3> QED
      BY <1>1, <1>9, <2>2, <3>1 DEF LinkOK
  <2> QED
    BY <2>1, <2>2
<1>11. Filled(r, q) = s
  BY DEF Filled, s, last, more, live, idle
<1> QED
  BY <1>8, <1>10, <1>11 DEF GoodStream

LEMMA FillGood ==
    ASSUME NEW r, GoodStream(r), NEW q \in Seq(Batch), Sorted(q), NEW n \in Nat
    PROVE  GoodStream(FillWritePipeline(r, q, n))
BY FilledGood, FillStarts, StartGood
-----------------------------------------------------------------------------
(* The inductive invariant.                                                *)

\* The batch that is about to be removed has no callback any more.
AckingAnswered ==
    engine.acking # <<>> =>
        \A c \in engine.callbacks :
            ~(c.user = engine.user /\ c.id = engine.acking[1].id)

IInv ==
    /\ TypeOK /\ LinkOK(remote)
    /\ StoreOK
    /\ CallbackHasItsBatch /\ AckingAnswered

LEMMA MessageKinds ==
    ASSUME NEW m \in Messages
    PROVE  /\ m.kind = "notice" => m.user \in Users
           /\ m.kind = "answer" => m.w \in Writes
           /\ m.kind = "token" => m \in Tokens
BY DEF Messages, Tokens

LEMMA JobKinds ==
    ASSUME NEW m \in Jobs
    PROVE  /\ m.kind = "credential" => m.user \in Users
           /\ m.kind = "write" => m.w \in Writes
           /\ m.kind = "token" => m \in Tokens
BY DEF Jobs, Tokens

\* What the handlers do to the two queues.
LEMMA QueueSteps ==
    ASSUME NEW M, NEW s \in Seq(M)
    PROVE  /\ \A m \in M : Append(s, m) \in Seq(M)
           /\ s # <<>> => Head(s) \in M /\ Tail(s) \in Seq(M)
BY HeadTailProperties, AppendProperties

\* Whatever the worker does, the stream it leaves is a good one, and the queues
\* stay in their order with the next id above them.
LEMMA StreamStep ==
    ASSUME IInv, Next
    PROVE  GoodStream(remote') /\ StoreOK' /\ store' \in [queue : [Users -> Seq(Batch)], nextId : Nat]
<1> USE DEF IInv
<1>1. GoodStream(remote)
  BY DEF GoodStream, TypeOK
<1>2. /\ store.queue \in [Users -> Seq(Batch)] /\ store.nextId \in Nat
      /\ store \in [queue : [Users -> Seq(Batch)], nextId : Nat]
      /\ \A u \in Users : store.queue[u] \in Seq(Batch) /\ Sorted(store.queue[u])
      /\ Fresh(store.queue, store.nextId)
      /\ engine.user \in Users /\ auth.user \in Users /\ auth.counter \in Nat
  BY DEF TypeOK, StoreOK
<1>3. LoadNextBatchId(store.queue) \in Nat /\ Fresh(store.queue, LoadNextBatchId(store.queue))
  BY <1>2, NextIdIsFresh
<1>4. ASSUME UNCHANGED store, GoodStream(remote')
      PROVE  GoodStream(remote') /\ StoreOK' /\ store' \in [queue : [Users -> Seq(Batch)], nextId : Nat]
  BY <1>2, <1>4 DEF StoreOK
<1>5. ASSUME store' = [store EXCEPT !.nextId = LoadNextBatchId(store.queue)]
      PROVE  StoreOK' /\ store' \in [queue : [Users -> Seq(Batch)], nextId : Nat]
  BY <1>2, <1>3, <1>5 DEF StoreOK
<1>6. ASSUME NEW b, store' = [store EXCEPT !.queue[engine.user] = Without(@, b)]
      PROVE  /\ StoreOK' /\ store' \in [queue : [Users -> Seq(Batch)], nextId : Nat]
             /\ store'.queue[engine.user] \in Seq(Batch) /\ Sorted(store'.queue[engine.user])
  <2> DEFINE W == Without(store.queue[engine.user], b)
  <2>1. /\ W \in Seq(Batch) /\ Sorted(W)
        /\ \A j \in DOMAIN W : \E i \in DOMAIN store.queue[engine.user] :
               W[j] = store.queue[engine.user][i]
    <3> DEFINE q == store.queue[engine.user]
    <3>1. q \in Seq(Batch) /\ Sorted(q) /\ W = Without(q, b)
      BY <1>2
    <3> HIDE DEF q, W
    <3>2. /\ Without(q, b) \in Seq(Batch) /\ Sorted(Without(q, b))
          /\ \A j \in DOMAIN Without(q, b) : \E i \in DOMAIN q : Without(q, b)[j] = q[i]
      BY <3>1, WithoutKeeps, SMTT(30)
    <3> QED
      BY <3>1, <3>2 DEF q
  <2>2. store' = [queue |-> [store.queue EXCEPT ![engine.user] = W], nextId |-> store.nextId]
    BY <1>2, <1>6
  <2> HIDE DEF W
  <2>3. \A u \in Users : store'.queue[u] = IF u = engine.user THEN W ELSE store.queue[u]
    BY <1>2, <2>2
  <2>4. Fresh(store'.queue, store'.nextId)
    BY <1>2, <2>1, <2>2, <2>3 DEF Fresh
  <2>5. store' \in [queue : [Users -> Seq(Batch)], nextId : Nat]
    BY <1>2, <2>1, <2>2
  <2> QED
    BY <1>2, <2>1, <2>3, <2>4, <2>5 DEF StoreOK
<1>7. CASE \/ \E w \in Writes : WriteMutations(w)
           \/ \E u \in Users : ChangeUser(u)
           \/ Main
  <2>1. UNCHANGED <<store, remote>>
    BY <1>7 DEF WriteMutations, ChangeUser, Main, HearChange, HearToken, RunHandler
  <2> QED
    BY <1>1, <1>4, <2>1 DEF GoodStream, LinkOK
<1>8. ASSUME NEW f \in remote.fetches, ReadUser(f)
      PROVE  GoodStream(remote')
  <2>1. [f EXCEPT !.read = TRUE, !.as = auth.user]
           \in [counter : Nat, closes : Nat, read : BOOLEAN, as : Users]
    BY <1>1, <1>2 DEF GoodStream, Stream
  <2>2. remote' = [remote EXCEPT !.fetches =
                     (@ \ {f}) \union {[f EXCEPT !.read = TRUE, !.as = auth.user]}]
    BY <1>8 DEF ReadUser
  <2>3. remote' \in Stream
    BY <1>1, <2>1, <2>2 DEF GoodStream, Stream
  <2> QED
    BY <1>1, <2>2, <2>3 DEF GoodStream, LinkOK, Stream
<1>9. ASSUME NEW f \in remote.fetches, NEW ok, AnswerToken(f, ok)
      PROVE  GoodStream(remote')
  <2>1. remote' = [remote EXCEPT !.fetches = @ \ {f}]
    BY <1>9 DEF AnswerToken
  <2>2. remote' \in Stream
    BY <1>1, <2>1 DEF GoodStream, Stream
  <2> QED
    BY <1>1, <2>1, <2>2 DEF GoodStream, LinkOK, Stream
<1>10. CASE Auth \/ \E f \in remote.fetches : AnswerToken(f, FALSE)
  <2>1. UNCHANGED store
    BY <1>10 DEF Auth, ReadUser, AnswerToken
  <2> QED
    BY <1>4, <1>8, <1>9, <1>10, <2>1 DEF Auth
<1>11. CASE WriteLocally
  <2> DEFINE b == [id |-> store.nextId, w |-> Head(tasks).w]
             Q == Append(store.queue[engine.user], b)
  <2>1. b \in Batch
    <3>1. Head(tasks) \in Jobs /\ Head(tasks).kind = "write"
      BY <1>11, QueueSteps DEF WriteLocally, Task, TypeOK
    <3> QED
      BY <1>2, <3>1, JobKinds DEF Batch
  <2>2. store' = [queue |-> [store.queue EXCEPT ![engine.user] = Q],
                  nextId |-> store.nextId + 1]
        /\ remote' = FillWritePipeline(remote, store'.queue[engine.user], auth.counter)
    BY <1>11 DEF WriteLocally
  <2>3. /\ Q \in Seq(Batch) /\ DOMAIN Q = 1..(Len(store.queue[engine.user]) + 1)
        /\ \A i \in DOMAIN store.queue[engine.user] : Q[i] = store.queue[engine.user][i]
        /\ Q[Len(store.queue[engine.user]) + 1] = b
        /\ DOMAIN store.queue[engine.user] = 1..Len(store.queue[engine.user])
        /\ Len(store.queue[engine.user]) \in Nat
    BY <1>2, <2>1, AppendProperties
  <2>4. b.id = store.nextId
    OBVIOUS
  <2> HIDE DEF b, Q
  <2>5. \A u \in Users : store'.queue[u] = IF u = engine.user THEN Q ELSE store.queue[u]
    BY <1>2, <2>2
  <2>6. \A i \in DOMAIN store.queue[engine.user] :
            store.queue[engine.user][i].id \in Nat /\ store.queue[engine.user][i].id < store.nextId
    BY <1>2, BatchAt DEF Fresh
  <2>7. Sorted(Q)
    <3> SUFFICES ASSUME NEW i \in DOMAIN Q, NEW j \in DOMAIN Q, i < j
                 PROVE  Q[i].id < Q[j].id
      BY DEF Sorted
    <3>1. i \in DOMAIN store.queue[engine.user]
      BY <2>3
    <3>2. CASE j \in DOMAIN store.queue[engine.user]
      BY <1>2, <2>3, <3>1, <3>2 DEF Sorted
    <3>3. CASE j \notin DOMAIN store.queue[engine.user]
      <4>1. Q[j] = b
        BY <2>3, <3>3
      <4> QED
        BY <2>3, <2>4, <2>6, <3>1, <4>1
    <3> QED
      BY <3>2, <3>3
  <2>8. Fresh(store'.queue, store'.nextId)
    <3> SUFFICES ASSUME NEW u \in Users, NEW i \in DOMAIN store'.queue[u]
                 PROVE  store'.queue[u][i].id < store'.nextId
      BY DEF Fresh
    <3>1. store'.nextId = store.nextId + 1
      BY <2>2
    <3>2. CASE u = engine.user
      <4>1. i \in DOMAIN Q /\ store'.queue[u][i] = Q[i]
        BY <2>5, <3>2
      <4>2. CASE i \in DOMAIN store.queue[engine.user]
        BY <1>2, <2>3, <2>6, <3>1, <4>1, <4>2
      <4>3. CASE i \notin DOMAIN store.queue[engine.user]
        <5>1. Q[i] = b
          BY <2>3, <4>1, <4>3
        <5> QED
          BY <1>2, <2>4, <3>1, <4>1, <5>1
      <4> QED
        BY <4>2, <4>3
    <3>3. CASE u # engine.user
      <4>1. store'.queue[u] = store.queue[u] /\ i \in DOMAIN store.queue[u]
        BY <2>5, <3>3
      <4>2. store.queue[u][i].id < store.nextId /\ store.queue[u][i].id \in Nat
        BY <1>2, <4>1, BatchAt DEF Fresh
      <4> QED
        BY <1>2, <3>1, <4>1, <4>2
    <3> QED
      BY <3>2, <3>3
  <2>9. store' \in [queue : [Users -> Seq(Batch)], nextId : Nat]
    BY <1>2, <2>2, <2>3
  <2>10. GoodStream(remote')
    BY <1>1, <1>2, <2>2, <2>3, <2>5, <2>7, FillGood
  <2> QED
    BY <1>2, <2>5, <2>7, <2>8, <2>9, <2>10 DEF StoreOK
<1>12. CASE HandleCredentialChange
  <2>1. PICK u : /\ u = Head(tasks).user
                 /\ store' = IF u = engine.user THEN store
                             ELSE [store EXCEPT !.nextId = LoadNextBatchId(store.queue)]
                 /\ remote' = FillWritePipeline([Stop(remote) EXCEPT !.pipeline = <<>>],
                                                store.queue[u], auth.counter)
    BY <1>12 DEF HandleCredentialChange
  <2>2. u \in Users
    <3>1. Head(tasks) \in Jobs /\ Head(tasks).kind = "credential"
      BY <1>12, QueueSteps DEF HandleCredentialChange, Task, TypeOK
    <3> QED
      BY <2>1, <3>1, JobKinds
  <2>3. GoodStream([Stop(remote) EXCEPT !.pipeline = <<>>])
    <3>1. <<>> \in Seq(Batch)
      OBVIOUS
    <3> QED
      BY <1>1, <3>1, StopGood, PipelineGood
  <2>4. GoodStream(remote')
    BY <1>2, <2>1, <2>2, <2>3, FillGood
  <2> QED
    BY <1>4, <1>5, <2>1, <2>4
<1>13. CASE ResumeStart
  <2>1. UNCHANGED store
    BY <1>13 DEF ResumeStart
  <2>2. CASE UNCHANGED remote
    BY <1>1, <1>4, <2>1, <2>2 DEF GoodStream, LinkOK
  <2>3. CASE remote' = StartWriteStream(Closed(remote, "Error"), auth.counter)
    BY <1>1, <1>2, <1>4, <2>1, <2>3, ClosedGood, StartGood DEF GoodStream
  <2>4. CASE /\ remote.state = "Starting"
             /\ remote' = [remote EXCEPT !.state = "Open", !.hello = "sent",
                                        !.idle = FALSE, !.as = Head(tasks).as]
    <3>1. Head(tasks).as \in Users
      <4>1. Head(tasks) \in Jobs /\ Head(tasks).kind = "token"
        BY <1>13, QueueSteps DEF ResumeStart, Task, TypeOK
      <4> QED
        BY <4>1, JobKinds DEF Tokens
    <3>2. remote' \in Stream
      BY <1>1, <2>4, <3>1 DEF GoodStream, Stream
    <3>3. LinkOK(remote')
      BY <1>1, <2>4 DEF GoodStream, LinkOK, Stream
    <3> QED
      BY <1>4, <2>1, <3>2, <3>3 DEF GoodStream
  <2> QED
    BY <1>13, <2>2, <2>3, <2>4 DEF ResumeStart
<1>14. CASE BackoffElapsed
  <2>1. remote.state = "Backoff" /\ UNCHANGED store
        /\ remote' = RequestCredentials(remote, auth.counter)
    BY <1>14 DEF BackoffElapsed
  <2>2. remote.hello = "none"
    BY <1>1, <2>1 DEF GoodStream, LinkOK
  <2> QED
    BY <1>1, <1>2, <1>4, <2>1, <2>2, RequestGood
<1>15. CASE IdleTimeout
  <2>1. UNCHANGED store /\ remote' = StartWriteStream(Stop(remote), auth.counter)
    BY <1>15 DEF IdleTimeout
  <2> QED
    BY <1>1, <1>2, <1>4, <2>1, StopGood, StartGood
<1>16. CASE CompleteHandshake
  <2>1. /\ remote.state = "Open" /\ remote.hello = "answered" /\ UNCHANGED store
        /\ remote' = [remote EXCEPT !.hello = "done", !.outbox = remote.pipeline,
                        !.idle = @ /\ remote.pipeline = <<>>]
    BY <1>16 DEF CompleteHandshake
  <2>2. remote' \in Stream
    BY <1>1, <2>1 DEF GoodStream, Stream
  <2>3. remote.pipeline \in Seq(Batch) /\ remote.inbox = 0
    BY <1>1, <2>1 DEF GoodStream, LinkOK, Stream
  <2>4. Alike(remote.pipeline, remote.pipeline, 0)
    BY <2>3 DEF Alike
  <2>5. /\ remote'.pipeline = remote.pipeline /\ remote'.outbox = remote.pipeline
        /\ remote'.inbox = 0 /\ remote'.hello = "done" /\ remote'.state = "Open"
    BY <1>1, <2>1, <2>3 DEF GoodStream, Stream
  <2>6. LinkOK(remote')
    BY <2>4, <2>5 DEF LinkOK
  <2> QED
    BY <1>4, <2>1, <2>2, <2>6 DEF GoodStream
<1>17. CASE MutationResult
  <2>1. UNCHANGED store
    BY <1>17 DEF MutationResult
  <2>2. CASE UNCHANGED remote
    BY <1>1, <1>4, <2>1, <2>2 DEF GoodStream, LinkOK
  <2>3. CASE /\ remote.inbox > 0 /\ HandshakeComplete(remote) /\ remote.pipeline # <<>>
             /\ remote' = [remote EXCEPT !.inbox = @ - 1, !.pipeline = Tail(@)]
    <3>1. /\ remote.inbox \in Nat /\ remote.inbox - 1 \in Nat
          /\ remote.pipeline \in Seq(Batch) /\ Tail(remote.pipeline) \in Seq(Batch)
          /\ remote.outbox \in Seq(Batch)
      BY <1>1, <2>3, HeadTailProperties DEF GoodStream, Stream
    <3>2. remote' \in Stream
      BY <1>1, <2>3, <3>1 DEF GoodStream, Stream
    <3>3. Alike(remote.pipeline, remote.outbox, remote.inbox)
      BY <1>1, <2>3 DEF GoodStream, LinkOK, HandshakeComplete
    <3>5. Alike(Tail(remote.pipeline), remote.outbox, remote.inbox - 1)
      BY <2>3, <3>1, <3>3, AnswerRead
    <3>6. /\ remote'.pipeline = Tail(remote.pipeline) /\ remote'.outbox = remote.outbox
          /\ remote'.inbox = remote.inbox - 1 /\ remote'.hello = remote.hello
          /\ remote'.state = remote.state /\ remote.hello = "done"
      BY <1>1, <2>3 DEF GoodStream, Stream, HandshakeComplete
    <3>7. LinkOK(remote')
      BY <1>1, <3>5, <3>6 DEF LinkOK, GoodStream
    <3> QED
      BY <1>4, <2>1, <3>2, <3>7 DEF GoodStream
  <2> QED
    BY <1>17, <2>2, <2>3 DEF MutationResult
<1>18. CASE AcknowledgeBatch
  <2>1. /\ store' = [store EXCEPT !.queue[engine.user] = Without(@, engine.acking[1])]
        /\ remote' = FillWritePipeline(remote, store'.queue[engine.user], auth.counter)
    BY <1>18 DEF AcknowledgeBatch
  <2>2. StoreOK' /\ store' \in [queue : [Users -> Seq(Batch)], nextId : Nat]
        /\ store'.queue[engine.user] \in Seq(Batch) /\ Sorted(store'.queue[engine.user])
    BY <1>6, <2>1
  <2> QED
    BY <1>1, <1>2, <2>1, <2>2, FillGood
<1>19. CASE HandleWriteError
  <2> DEFINE c == Closed(remote, "Initial")
             p == Tail(remote.pipeline)
  <2>1. /\ store' = [store EXCEPT !.queue[engine.user] = Without(@, Head(remote.pipeline))]
        /\ remote' = FillWritePipeline([c EXCEPT !.pipeline = Tail(@)],
                                       store'.queue[engine.user], auth.counter)
        /\ remote.pipeline # <<>>
    BY <1>19 DEF HandleWriteError
  <2>2. StoreOK' /\ store' \in [queue : [Users -> Seq(Batch)], nextId : Nat]
        /\ store'.queue[engine.user] \in Seq(Batch) /\ Sorted(store'.queue[engine.user])
    BY <1>6, <2>1
  <2>3. GoodStream(c) /\ c.hello = "none"
    BY <1>1, ClosedGood DEF GoodStream
  <2>4. c.pipeline = remote.pipeline /\ p \in Seq(Batch)
    BY <1>1, <2>1, HeadTailProperties DEF Closed, NoLink, GoodStream, Stream
  <2> HIDE DEF c
  <2>5. [c EXCEPT !.pipeline = Tail(@)] = [c EXCEPT !.pipeline = p]
    BY <2>4
  <2>6. GoodStream([c EXCEPT !.pipeline = p])
    BY <2>3, <2>4, PipelineGood
  <2> QED
    BY <1>2, <2>1, <2>2, <2>5, <2>6, FillGood
<1>20. CASE StreamBreaks
  <2>1. UNCHANGED store
        /\ remote' = StartWriteStream(Closed(remote, "Error"), auth.counter)
    BY <1>20 DEF StreamBreaks
  <2> QED
    BY <1>1, <1>2, <1>4, <2>1, ClosedGood, StartGood DEF GoodStream
<1>21. CASE ServerGreets
  <2>1. /\ UNCHANGED store /\ remote.hello = "sent"
        /\ remote' = [remote EXCEPT !.hello = "answered"]
    BY <1>21 DEF ServerGreets
  <2> QED
    BY <1>1, <1>4, <2>1 DEF GoodStream, LinkOK, Stream
<1>22. CASE ServerCommits
  <2>1. /\ UNCHANGED store /\ remote.outbox # <<>>
        /\ remote' = [remote EXCEPT !.outbox = Tail(@), !.inbox = @ + 1]
    BY <1>22 DEF ServerCommits
  <2>2. /\ remote.inbox \in Nat /\ remote.inbox + 1 \in Nat
        /\ remote.outbox \in Seq(Batch) /\ Tail(remote.outbox) \in Seq(Batch)
        /\ remote.pipeline \in Seq(Batch)
    BY <1>1, <2>1, HeadTailProperties DEF GoodStream, Stream
  <2>3. remote' \in Stream
    BY <1>1, <2>1, <2>2 DEF GoodStream, Stream
  <2>4. /\ remote.hello = "done" /\ remote.state = "Open"
        /\ Alike(remote.pipeline, remote.outbox, remote.inbox)
    BY <1>1, <2>1 DEF GoodStream, LinkOK
  <2>6. Alike(remote.pipeline, Tail(remote.outbox), remote.inbox + 1)
    BY <2>1, <2>2, <2>4, WriteHandled
  <2>7. /\ remote'.pipeline = remote.pipeline /\ remote'.outbox = Tail(remote.outbox)
        /\ remote'.inbox = remote.inbox + 1 /\ remote'.hello = "done"
        /\ remote'.state = "Open"
    BY <1>1, <2>1, <2>4 DEF GoodStream, Stream
  <2>8. LinkOK(remote')
    BY <2>6, <2>7 DEF LinkOK
  <2> QED
    BY <1>4, <2>1, <2>3, <2>8 DEF GoodStream
<1>23. CASE ServerRefuses
  <2>1. UNCHANGED store /\ remote' = [remote EXCEPT !.ended = TRUE]
    BY <1>23 DEF ServerRefuses
  <2> QED
    BY <1>1, <1>4, <2>1 DEF GoodStream, LinkOK, Stream
<1>24. ASSUME NEW u \in Users, Restart(u)
       PROVE  GoodStream(remote') /\ StoreOK' /\ store' \in [queue : [Users -> Seq(Batch)], nextId : Nat]
  <2>1. /\ store' = [store EXCEPT !.nextId = LoadNextBatchId(store.queue)]
        /\ remote' = FillWritePipeline(FreshRemote, store.queue[u], 0)
    BY <1>24 DEF Restart
  <2> QED
    BY <1>2, <1>5, <2>1, FreshGood, FillGood
<1> QED
  BY <1>7, <1>10, <1>11, <1>12, <1>13, <1>14, <1>15, <1>16, <1>17, <1>18, <1>19, <1>20,
     <1>21, <1>22, <1>23, <1>24 DEF Next, Worker, Server

\* The messages and jobs that are posted are messages and jobs.
LEMMA Posted ==
    /\ \A u \in Users : Notice(u) \in Messages /\ Credential(u) \in Jobs
    /\ \A w \in Writes : Write(w) \in Jobs /\ \A ok \in BOOLEAN : Reply(w, ok) \in Messages
    /\ \A f \in [counter : Nat, closes : Nat, read : BOOLEAN, as : Users], ok \in BOOLEAN :
           Token(f, ok) \in Messages
    /\ \A t \in Tokens, ok \in BOOLEAN : [t EXCEPT !.ok = ok] \in Jobs
BY DEF Notice, Credential, Write, Reply, Token, Messages, Jobs, Tokens

LEMMA TypeStep ==
    ASSUME IInv, Next
    PROVE  TypeOK'
<1> USE DEF IInv
<1>1. /\ store' \in [queue : [Users -> Seq(Batch)], nextId : Nat]
      /\ remote' \in Stream
  BY StreamStep DEF GoodStream
<1>2. /\ auth \in [user : Users, counter : Nat]
      /\ mainQ \in Seq(Messages)
      /\ tasks \in Seq(Jobs)
      /\ engine \in [user : Users, acking : Seq(Batch),
                     callbacks : SUBSET [user : Users, id : Nat, w : Writes]]
      /\ server \in [done : SUBSET Writes, refused : SUBSET Writes]
      /\ told \in [Writes -> {"uncalled", "waiting", "ok", "error"}]
      /\ spent \in [changes : Nat, breaks : Nat, crashes : Nat]
      /\ failed \in BOOLEAN
  BY DEF TypeOK
<1>3. /\ remote.fetches \subseteq [counter : Nat, closes : Nat, read : BOOLEAN, as : Users]
      /\ remote.outbox \in Seq(Batch) /\ remote.pipeline \in Seq(Batch)
      /\ store.nextId \in Nat
  BY DEF TypeOK, Stream
<1>4. /\ mainQ # <<>> => Head(mainQ) \in Messages /\ Tail(mainQ) \in Seq(Messages)
      /\ \A m \in Messages : Append(mainQ, m) \in Seq(Messages)
      /\ tasks # <<>> => Head(tasks) \in Jobs /\ Tail(tasks) \in Seq(Jobs)
      /\ \A m \in Jobs : Append(tasks, m) \in Seq(Jobs)
  BY <1>2, QueueSteps
<1>5. <<>> \in Seq(Batch) /\ \A b \in Batch : <<b>> \in Seq(Batch)
  OBVIOUS
<1> DEFINE Changes(n) == [spent EXCEPT !.changes = n]
           Breaks(n) == [spent EXCEPT !.breaks = n]
           Crashes(n) == [spent EXCEPT !.crashes = n]
<1>a. /\ auth.counter + 1 \in Nat /\ spent.changes + 1 \in Nat
      /\ spent.breaks + 1 \in Nat /\ spent.crashes + 1 \in Nat
      /\ spent.breaks \in Nat
  BY <1>2
<1>b. \A n \in Nat : /\ Changes(n) \in [changes : Nat, breaks : Nat, crashes : Nat]
                     /\ Breaks(n) \in [changes : Nat, breaks : Nat, crashes : Nat]
                     /\ Crashes(n) \in [changes : Nat, breaks : Nat, crashes : Nat]
                     /\ [auth EXCEPT !.counter = n] \in [user : Users, counter : Nat]
  BY <1>2
<1> HIDE DEF Changes, Breaks, Crashes
<1>6. ASSUME NEW w \in Writes, WriteMutations(w) PROVE TypeOK'
  BY <1>1, <1>2, <1>4, <1>6, Posted DEF WriteMutations, TypeOK
<1>7. ASSUME NEW u \in Users, ChangeUser(u) PROVE TypeOK'
  <2>1. auth' \in [user : Users, counter : Nat]
    BY <1>2, <1>7 DEF ChangeUser
  <2>2. spent' \in [changes : Nat, breaks : Nat, crashes : Nat]
    BY <1>a, <1>b, <1>7 DEF ChangeUser, Changes
  <2> QED
    BY <1>1, <1>2, <1>4, <1>7, <2>1, <2>2, Posted DEF ChangeUser, TypeOK
<1>8. ASSUME NEW f \in remote.fetches, ReadUser(f) PROVE TypeOK'
  BY <1>1, <1>2, <1>8 DEF ReadUser, TypeOK
<1>9. ASSUME NEW f \in remote.fetches, NEW ok \in BOOLEAN, AnswerToken(f, ok) PROVE TypeOK'
  <2>1. spent' \in [changes : Nat, breaks : Nat, crashes : Nat]
    BY <1>a, <1>b, <1>9 DEF AnswerToken, Breaks
  <2>2. mainQ' \in Seq(Messages)
    BY <1>3, <1>4, <1>9, Posted DEF AnswerToken
  <2> QED
    BY <1>1, <1>2, <1>9, <2>1, <2>2 DEF AnswerToken, TypeOK
<1>10. CASE HearChange
  <2>1. Head(mainQ).user \in Users /\ mainQ' \in Seq(Messages)
    BY <1>4, <1>10, MessageKinds DEF HearChange
  <2>2. auth' \in [user : Users, counter : Nat]
    BY <1>a, <1>b, <1>10 DEF HearChange
  <2>3. tasks' \in Seq(Jobs)
    BY <1>4, <1>10, <2>1, Posted DEF HearChange
  <2> QED
    BY <1>1, <1>2, <1>10, <2>1, <2>2, <2>3 DEF HearChange, TypeOK
<1>11. CASE HearToken
  <2>1. Head(mainQ) \in Tokens /\ mainQ' \in Seq(Messages)
    BY <1>4, <1>11, MessageKinds DEF HearToken
  <2> DEFINE ok == Head(mainQ).ok /\ Head(mainQ).counter = auth.counter
  <2>2. ok \in BOOLEAN /\ tasks' = Append(tasks, [Head(mainQ) EXCEPT !.ok = ok])
    BY <1>11, <2>1 DEF HearToken, Tokens
  <2> HIDE DEF ok
  <2>3. [Head(mainQ) EXCEPT !.ok = ok] \in Jobs
    BY <2>1, <2>2, Posted
  <2>4. tasks' \in Seq(Jobs)
    BY <1>4, <2>2, <2>3
  <2> QED
    BY <1>1, <1>2, <1>11, <2>1, <2>4 DEF HearToken, TypeOK
<1>12. CASE RunHandler
  <2>1. Head(mainQ).w \in Writes /\ mainQ' \in Seq(Messages)
    BY <1>4, <1>12, MessageKinds DEF RunHandler
  <2>2. told' \in [Writes -> {"uncalled", "waiting", "ok", "error"}]
    BY <1>2, <1>12, <2>1 DEF RunHandler
  <2> QED
    BY <1>1, <1>2, <1>12, <2>1, <2>2 DEF RunHandler, TypeOK
<1>13. CASE WriteLocally
  <2>1. Head(tasks).w \in Writes /\ tasks' \in Seq(Jobs)
    BY <1>4, <1>13, JobKinds DEF WriteLocally, Task
  <2> DEFINE c == [user |-> engine.user, id |-> store.nextId, w |-> Head(tasks).w]
  <2>2. engine' = engine \/ engine' = [engine EXCEPT !.callbacks = @ \union {c}]
    BY <1>13 DEF WriteLocally
  <2>3. c \in [user : Users, id : Nat, w : Writes]
    BY <1>2, <1>3, <2>1
  <2> HIDE DEF c
  <2>4. engine' \in [user : Users, acking : Seq(Batch),
                     callbacks : SUBSET [user : Users, id : Nat, w : Writes]]
    <3>1. CASE engine' = engine
      BY <1>2, <3>1
    <3>2. CASE engine' = [engine EXCEPT !.callbacks = @ \union {c}]
      <4>1. engine.callbacks \union {c} \in SUBSET [user : Users, id : Nat, w : Writes]
        BY <1>2, <2>3
      <4>2. QED
        BY <1>2, <3>2, <4>1
    <3>3. QED
      BY <2>2, <3>1, <3>2
  <2> QED
    BY <1>1, <1>2, <1>13, <2>1, <2>4 DEF WriteLocally, TypeOK
<1>14. CASE HandleCredentialChange
  <2>1. Head(tasks).user \in Users /\ tasks' \in Seq(Jobs)
    BY <1>4, <1>14, JobKinds DEF HandleCredentialChange, Task
  <2>2. engine' = [engine EXCEPT !.user = Head(tasks).user]
    BY <1>14 DEF HandleCredentialChange
  <2>3. engine' \in [user : Users, acking : Seq(Batch),
                     callbacks : SUBSET [user : Users, id : Nat, w : Writes]]
    BY <1>2, <2>1, <2>2
  <2> QED
    BY <1>1, <1>2, <1>14, <2>1, <2>3 DEF HandleCredentialChange, TypeOK
<1>15. CASE ResumeStart
  <2>1. tasks' \in Seq(Jobs) /\ failed' \in BOOLEAN
        /\ UNCHANGED <<auth, mainQ, engine, server, told, spent>>
    BY <1>2, <1>4, <1>15 DEF ResumeStart, Task
  <2> QED
    BY <1>1, <1>2, <2>1 DEF TypeOK
<1>16. CASE BackoffElapsed \/ CompleteHandshake \/ ServerGreets
  BY <1>1, <1>2, <1>16 DEF BackoffElapsed, CompleteHandshake, ServerGreets, TypeOK
<1>17. CASE IdleTimeout
  BY <1>1, <1>2, <1>17 DEF IdleTimeout, TypeOK
<1>18. ASSUME NEW b \in Batch, NEW ok \in BOOLEAN, NEW a \in Seq(Batch),
              NEW calls, calls = {c \in engine.callbacks : c.user = engine.user /\ c.id = b.id},
              \/ UNCHANGED engine
              \/ engine' = [engine EXCEPT !.callbacks = @ \ calls]
              \/ engine' = [engine EXCEPT !.acking = a, !.callbacks = @ \ calls],
              UNCHANGED mainQ \/ \E c \in calls : mainQ' = Append(mainQ, Reply(c.w, ok))
       PROVE  /\ mainQ' \in Seq(Messages)
              /\ engine' \in [user : Users, acking : Seq(Batch),
                              callbacks : SUBSET [user : Users, id : Nat, w : Writes]]
  <2>1. \A c \in calls : c.w \in Writes
    BY <1>2, <1>18
  <2>2. mainQ' \in Seq(Messages)
    <3>1. CASE UNCHANGED mainQ
      BY <1>2, <3>1
    <3>2. CASE \E c \in calls : mainQ' = Append(mainQ, Reply(c.w, ok))
      <4>1. PICK c \in calls : mainQ' = Append(mainQ, Reply(c.w, ok))
        BY <3>2
      <4>2. Reply(c.w, ok) \in Messages
        BY <2>1, <1>18, Posted
      <4> QED
        BY <1>4, <4>1, <4>2
    <3> QED
      BY <1>18, <3>1, <3>2
  <2>3. engine.callbacks \ calls \in SUBSET [user : Users, id : Nat, w : Writes]
    BY <1>2
  <2>4. engine' \in [user : Users, acking : Seq(Batch),
                     callbacks : SUBSET [user : Users, id : Nat, w : Writes]]
    BY <1>2, <1>18, <2>3
  <2> QED
    BY <2>2, <2>4
<1>19. CASE MutationResult
  <2> DEFINE b == Head(remote.pipeline)
             calls == {c \in engine.callbacks : c.user = engine.user /\ c.id = b.id}
  <2>1. failed' \in BOOLEAN /\ UNCHANGED <<auth, tasks, server, told, spent>>
    BY <1>2, <1>19 DEF MutationResult
  <2>2. CASE UNCHANGED <<mainQ, engine>>
    BY <1>1, <1>2, <2>1, <2>2 DEF TypeOK
  <2>3. CASE /\ remote.pipeline # <<>>
             /\ engine' = [engine EXCEPT !.acking = <<b>>, !.callbacks = @ \ calls]
             /\ UNCHANGED mainQ \/ \E c \in calls : mainQ' = Append(mainQ, Reply(c.w, TRUE))
    <3>1. b \in Batch /\ <<b>> \in Seq(Batch)
      BY <1>3, <1>5, <2>3, HeadTailProperties
    <3>2. TRUE \in BOOLEAN
      OBVIOUS
    <3> HIDE DEF b
    <3>3. /\ mainQ' \in Seq(Messages)
          /\ engine' \in [user : Users, acking : Seq(Batch),
                          callbacks : SUBSET [user : Users, id : Nat, w : Writes]]
      BY <1>18, <2>3, <3>1, <3>2
    <3> QED
      BY <1>1, <1>2, <2>1, <3>3 DEF TypeOK
  <2> QED
    BY <1>19, <2>2, <2>3 DEF MutationResult
<1>20. CASE AcknowledgeBatch
  <2>1. engine' \in [user : Users, acking : Seq(Batch),
                     callbacks : SUBSET [user : Users, id : Nat, w : Writes]]
    BY <1>2, <1>5, <1>20 DEF AcknowledgeBatch
  <2>2. failed' \in BOOLEAN
    BY <1>2, <1>20 DEF AcknowledgeBatch
  <2> QED
    BY <1>1, <1>2, <1>20, <2>1, <2>2 DEF AcknowledgeBatch, TypeOK
<1>21. CASE HandleWriteError
  <2> DEFINE b == Head(remote.pipeline)
             calls == {c \in engine.callbacks : c.user = engine.user /\ c.id = b.id}
  <2>1. failed' \in BOOLEAN /\ UNCHANGED <<auth, tasks, server, told, spent>>
    BY <1>2, <1>21 DEF HandleWriteError
  <2>2. /\ remote.pipeline # <<>>
        /\ engine' = [engine EXCEPT !.callbacks = @ \ calls]
        /\ UNCHANGED mainQ \/ \E c \in calls : mainQ' = Append(mainQ, Reply(c.w, FALSE))
    BY <1>21 DEF HandleWriteError
  <2>3. b \in Batch /\ <<b>> \in Seq(Batch)
    BY <1>3, <1>5, <2>2, HeadTailProperties
  <2>4. FALSE \in BOOLEAN
    OBVIOUS
  <2> HIDE DEF b
  <2>5. /\ mainQ' \in Seq(Messages)
        /\ engine' \in [user : Users, acking : Seq(Batch),
                        callbacks : SUBSET [user : Users, id : Nat, w : Writes]]
    BY <1>18, <2>2, <2>3, <2>4
  <2> QED
    BY <1>1, <1>2, <2>1, <2>5 DEF TypeOK
<1>22. CASE StreamBreaks
  <2>1. spent' \in [changes : Nat, breaks : Nat, crashes : Nat]
    BY <1>a, <1>b, <1>22 DEF StreamBreaks, Breaks
  <2> QED
    BY <1>1, <1>2, <1>22, <2>1 DEF StreamBreaks, TypeOK
<1>23. CASE ServerCommits \/ ServerRefuses
  <2>1. Head(remote.outbox).w \in Writes
    <3>1. remote.outbox # <<>>
      BY <1>23 DEF ServerCommits, ServerRefuses
    <3>2. Head(remote.outbox) \in Batch
      BY <1>3, <3>1, HeadTailProperties
    <3> QED
      BY <3>2 DEF Batch
  <2>2. server' \in [done : SUBSET Writes, refused : SUBSET Writes]
    BY <1>2, <1>23, <2>1 DEF ServerCommits, ServerRefuses
  <2> QED
    BY <1>1, <1>2, <1>23, <2>2 DEF ServerCommits, ServerRefuses, TypeOK
<1>24. ASSUME NEW u \in Users, Restart(u) PROVE TypeOK'
  <2>1. spent' \in [changes : Nat, breaks : Nat, crashes : Nat]
        /\ auth' \in [user : Users, counter : Nat]
    <3>1. 0 \in Nat
      OBVIOUS
    <3> QED
      BY <1>a, <1>b, <1>24, <3>1 DEF Restart, Crashes
  <2>2. engine' \in [user : Users, acking : Seq(Batch),
                     callbacks : SUBSET [user : Users, id : Nat, w : Writes]]
    BY <1>5, <1>24 DEF Restart
  <2>3. mainQ' \in Seq(Messages) /\ tasks' \in Seq(Jobs)
    <3>1. Notice(auth.user) \in Messages
      BY <1>2, Posted
    <3>2. <<Notice(auth.user)>> \in Seq(Messages)
      BY <3>1
    <3> QED
      BY <1>24, <3>2 DEF Restart
  <2> QED
    BY <1>1, <1>2, <1>24, <2>1, <2>2, <2>3 DEF Restart, TypeOK
<1>25. FALSE \in BOOLEAN /\ TRUE \in BOOLEAN
  OBVIOUS
<1> QED
  BY <1>6, <1>7, <1>8, <1>9, <1>10, <1>11, <1>12, <1>13, <1>14, <1>15, <1>16, <1>17, <1>19,
     <1>20, <1>21, <1>22, <1>23, <1>24, <1>25 DEF Next, Worker, Server, Main, Auth

\* A callback is made with its batch, and goes before its batch does.
LEMMA CallbackStep ==
    ASSUME IInv, Next
    PROVE  CallbackHasItsBatch' /\ AckingAnswered'
<1> USE DEF IInv
<1> DEFINE Has(queue, c) == \E i \in DOMAIN queue[c.user] :
                               queue[c.user][i] = [id |-> c.id, w |-> c.w]
<1>1. /\ store.queue \in [Users -> Seq(Batch)] /\ store.nextId \in Nat
      /\ store \in [queue : [Users -> Seq(Batch)], nextId : Nat]
      /\ \A u \in Users : store.queue[u] \in Seq(Batch) /\ Sorted(store.queue[u])
      /\ Fresh(store.queue, store.nextId)
      /\ engine.user \in Users
      /\ engine \in [user : Users, acking : Seq(Batch),
                     callbacks : SUBSET [user : Users, id : Nat, w : Writes]]
  BY DEF TypeOK, StoreOK
<1>2. \A c \in engine.callbacks : c.user \in Users /\ c.id \in Nat
  BY <1>1
<1>3. \A c \in engine.callbacks : Has(store.queue, c)
  BY DEF CallbackHasItsBatch
<1>4. ASSUME store'.queue = store.queue, engine'.callbacks \subseteq engine.callbacks
      PROVE  CallbackHasItsBatch'
  BY <1>3, <1>4 DEF CallbackHasItsBatch
<1>5. ASSUME engine'.acking = <<>> PROVE AckingAnswered'
  BY <1>5 DEF AckingAnswered
<1>6. ASSUME NEW b, store' = [store EXCEPT !.queue[engine.user] = Without(@, b)],
             engine'.callbacks \subseteq engine.callbacks,
             \A c \in engine'.callbacks : ~(c.user = engine.user /\ c.id = b.id)
      PROVE  CallbackHasItsBatch'
  <2> DEFINE q == store.queue[engine.user]
             W == Without(q, b)
  <2>1. q \in Seq(Batch) /\ Sorted(q)
    BY <1>1
  <2>2. \A u \in Users : store'.queue[u] = IF u = engine.user THEN W ELSE store.queue[u]
    BY <1>1, <1>6
  <2>3. \A i \in DOMAIN q : q[i].id # b.id => \E j \in DOMAIN W : W[j] = q[i]
    <3> HIDE DEF q
    <3> QED
      BY <2>1, WithoutKeeps, SMTT(30)
  <2>4. ASSUME NEW c \in engine'.callbacks PROVE Has(store'.queue, c)
    <3>1. c \in engine.callbacks /\ c.user \in Users /\ Has(store.queue, c)
      BY <1>2, <1>3, <1>6
    <3>2. CASE c.user = engine.user
      <4>1. PICK i \in DOMAIN q : q[i] = [id |-> c.id, w |-> c.w]
        BY <3>1, <3>2
      <4>2. q[i].id # b.id
        BY <1>6, <3>2, <4>1
      <4>3. PICK j \in DOMAIN W : W[j] = q[i]
        BY <2>3, <4>2
      <4> QED
        BY <2>2, <3>1, <3>2, <4>1, <4>3
    <3>3. CASE c.user # engine.user
      BY <2>2, <3>1, <3>3
    <3> QED
      BY <3>2, <3>3
  <2> QED
    BY <2>4 DEF CallbackHasItsBatch
<1>7. ASSUME NEW w \in Writes, WriteMutations(w) PROVE CallbackHasItsBatch' /\ AckingAnswered'
  BY <1>7 DEF WriteMutations, CallbackHasItsBatch, AckingAnswered
<1>8. ASSUME NEW u \in Users, ChangeUser(u) PROVE CallbackHasItsBatch' /\ AckingAnswered'
  BY <1>8 DEF ChangeUser, CallbackHasItsBatch, AckingAnswered
<1>9. CASE Auth \/ Main \/ Server \/ \E f \in remote.fetches : AnswerToken(f, FALSE)
  <2>1. UNCHANGED <<store, engine>>
    BY <1>9 DEF Auth, ReadUser, AnswerToken, Main, HearChange, HearToken, RunHandler,
                Server, ServerGreets, ServerCommits, ServerRefuses
  <2> QED
    BY <2>1 DEF CallbackHasItsBatch, AckingAnswered
<1>10. CASE ResumeStart \/ BackoffElapsed \/ IdleTimeout \/ CompleteHandshake \/ StreamBreaks
  <2>1. UNCHANGED <<store, engine>>
    BY <1>10 DEF ResumeStart, BackoffElapsed, IdleTimeout, CompleteHandshake, StreamBreaks
  <2> QED
    BY <2>1 DEF CallbackHasItsBatch, AckingAnswered
<1>11. CASE WriteLocally
  <2> DEFINE q == store.queue[engine.user]
             b == [id |-> store.nextId, w |-> Head(tasks).w]
             Q == Append(q, b)
             n == [user |-> engine.user, id |-> b.id, w |-> Head(tasks).w]
  <2>1. /\ store'.queue = [store.queue EXCEPT ![engine.user] = Q]
        /\ engine' = engine \/ engine' = [engine EXCEPT !.callbacks = @ \union {n}]
        /\ engine.acking = <<>>
    BY <1>11 DEF WriteLocally, Task, Free
  <2>2. b \in Batch
    <3>1. Head(tasks) \in Jobs /\ Head(tasks).kind = "write"
      BY <1>11, QueueSteps DEF WriteLocally, Task, TypeOK
    <3> QED
      BY <1>1, <3>1, JobKinds DEF Batch
  <2>3. /\ n.user = engine.user /\ [id |-> n.id, w |-> n.w] = b
        /\ q \in Seq(Batch)
    BY <1>1
  <2> HIDE DEF b, n
  <2>4. /\ DOMAIN Q = 1..(Len(q) + 1) /\ DOMAIN q = 1..Len(q) /\ Len(q) \in Nat
        /\ \A i \in DOMAIN q : Q[i] = q[i]
        /\ Q[Len(q) + 1] = b
    BY <2>2, <2>3, AppendProperties
  <2>5. \A u \in Users : store'.queue[u] = IF u = engine.user THEN Q ELSE store.queue[u]
    BY <1>1, <2>1
  <2>6. Len(q) + 1 \in DOMAIN Q /\ \A i \in DOMAIN q : i \in DOMAIN Q
    BY <2>4
  <2> HIDE DEF Q
  <2>7. ASSUME NEW c \in engine.callbacks PROVE Has(store'.queue, c)
    <3>1. c.user \in Users /\ Has(store.queue, c)
      BY <1>2, <1>3
    <3>2. CASE c.user = engine.user
      BY <2>4, <2>5, <2>6, <3>1, <3>2
    <3>3. CASE c.user # engine.user
      BY <2>5, <3>1, <3>3
    <3> QED
      BY <3>2, <3>3
  <2>8. Has(store'.queue, n)
    BY <1>1, <2>3, <2>4, <2>5, <2>6
  <2>9. \A c \in engine'.callbacks : c \in engine.callbacks \/ c = n
    BY <1>1, <2>1
  <2>10. CallbackHasItsBatch'
    BY <2>7, <2>8, <2>9 DEF CallbackHasItsBatch
  <2>11. engine'.acking = <<>>
    BY <1>1, <2>1
  <2> QED
    BY <1>5, <2>10, <2>11
<1>12. CASE HandleCredentialChange
  <2>1. /\ engine' = [engine EXCEPT !.user = Head(tasks).user] /\ engine.acking = <<>>
        /\ store' = store \/ store' = [store EXCEPT !.nextId = LoadNextBatchId(store.queue)]
    BY <1>12 DEF HandleCredentialChange, Task, Free
  <2>2. engine'.acking = <<>> /\ engine'.callbacks = engine.callbacks
    BY <1>1, <2>1
  <2>3. store'.queue = store.queue
    BY <1>1, <2>1
  <2> QED
    BY <1>4, <1>5, <2>2, <2>3
<1>13. CASE MutationResult
  <2> DEFINE b == Head(remote.pipeline)
             calls == {c \in engine.callbacks : c.user = engine.user /\ c.id = b.id}
  <2>1. /\ store' = store
        /\ engine' = engine \/ engine' = [engine EXCEPT !.acking = <<b>>, !.callbacks = @ \ calls]
    BY <1>13 DEF MutationResult
  <2>2. CASE engine' = engine
    <3>1. AckingAnswered'
      BY <2>2 DEF AckingAnswered
    <3> QED
      BY <1>4, <2>1, <2>2, <3>1
  <2>3. CASE engine' = [engine EXCEPT !.acking = <<b>>, !.callbacks = @ \ calls]
    <3>1. /\ engine'.callbacks = engine.callbacks \ calls /\ engine'.user = engine.user
          /\ engine'.acking = <<b>>
      BY <1>1, <2>3
    <3>2. <<b>>[1] = b
      OBVIOUS
    <3> HIDE DEF b
    <3>3. \A c \in engine'.callbacks : ~(c.user = engine'.user /\ c.id = engine'.acking[1].id)
      BY <3>1, <3>2
    <3>4. AckingAnswered'
      BY <3>3 DEF AckingAnswered
    <3>5. engine'.callbacks \subseteq engine.callbacks
      BY <3>1
    <3> QED
      BY <1>4, <2>1, <3>4, <3>5
  <2> QED
    BY <2>1, <2>2, <2>3
<1>14. CASE AcknowledgeBatch
  <2>1. /\ store' = [store EXCEPT !.queue[engine.user] = Without(@, engine.acking[1])]
        /\ engine' = [engine EXCEPT !.acking = <<>>] /\ engine.acking # <<>>
    BY <1>14 DEF AcknowledgeBatch, Free
  <2>2. engine'.callbacks = engine.callbacks /\ engine'.acking = <<>>
    BY <1>1, <2>1
  <2>3. \A c \in engine'.callbacks : ~(c.user = engine.user /\ c.id = engine.acking[1].id)
    BY <2>1, <2>2 DEF AckingAnswered
  <2> QED
    BY <1>5, <1>6, <2>1, <2>2, <2>3
<1>15. CASE HandleWriteError
  <2> DEFINE b == Head(remote.pipeline)
             calls == {c \in engine.callbacks : c.user = engine.user /\ c.id = b.id}
  <2>1. /\ store' = [store EXCEPT !.queue[engine.user] = Without(@, b)]
        /\ engine' = [engine EXCEPT !.callbacks = @ \ calls] /\ engine.acking = <<>>
    BY <1>15 DEF HandleWriteError, Free
  <2>2. engine'.callbacks = engine.callbacks \ calls /\ engine'.acking = <<>>
    BY <1>1, <2>1
  <2> HIDE DEF b
  <2>3. \A c \in engine'.callbacks : ~(c.user = engine.user /\ c.id = b.id)
    BY <2>2
  <2> QED
    BY <1>5, <1>6, <2>1, <2>2, <2>3
<1>16. ASSUME NEW u \in Users, Restart(u) PROVE CallbackHasItsBatch' /\ AckingAnswered'
  <2>1. engine'.callbacks = {}
    BY <1>16 DEF Restart
  <2> QED
    BY <2>1 DEF CallbackHasItsBatch, AckingAnswered
<1> QED
  BY <1>7, <1>8, <1>9, <1>10, <1>11, <1>12, <1>13, <1>14, <1>15, <1>16 DEF Next, Worker

LEMMA InvInit == Init => IInv
<1> SUFFICES ASSUME Init PROVE IInv
  OBVIOUS
<1>1. GoodStream(remote)
  BY FreshGood DEF Init
<1>2. /\ <<>> \in Seq(Messages) /\ <<>> \in Seq(Jobs) /\ <<>> \in Seq(Batch)
      /\ 0 \in Nat /\ 1 \in Nat
  OBVIOUS
<1>3. auth \in [user : Users, counter : Nat] /\ failed \in BOOLEAN
  BY <1>2, UsersAssumption DEF Init
<1>4. engine \in [user : Users, acking : Seq(Batch),
                  callbacks : SUBSET [user : Users, id : Nat, w : Writes]]
  BY <1>2, UsersAssumption DEF Init
<1>5. store \in [queue : [Users -> Seq(Batch)], nextId : Nat]
  BY <1>2 DEF Init
<1>6. /\ server \in [done : SUBSET Writes, refused : SUBSET Writes]
      /\ told \in [Writes -> {"uncalled", "waiting", "ok", "error"}]
      /\ spent \in [changes : Nat, breaks : Nat, crashes : Nat]
  BY <1>2 DEF Init
<1>7. TypeOK
  BY <1>1, <1>2, <1>3, <1>4, <1>5, <1>6 DEF Init, TypeOK, GoodStream
<1>8. StoreOK
  BY DEF Init, StoreOK, Sorted, Fresh
<1>9. CallbackHasItsBatch /\ AckingAnswered
  BY DEF Init, CallbackHasItsBatch, AckingAnswered
<1> QED
  BY <1>1, <1>7, <1>8, <1>9 DEF IInv, GoodStream

LEMMA InvNext == IInv /\ [Next]_vars => IInv'
<1> SUFFICES ASSUME IInv, [Next]_vars PROVE IInv'
  OBVIOUS
<1>1. CASE Next
  BY <1>1, StreamStep, TypeStep, CallbackStep DEF IInv, GoodStream
<1>2. CASE UNCHANGED vars
  BY <1>2 DEF vars, IInv, TypeOK, LinkOK, StoreOK, CallbackHasItsBatch, AckingAnswered
<1> QED
  BY <1>1, <1>2

LEMMA Invariance == Spec => []IInv
<1> QED
  BY InvInit, InvNext, PTL DEF Spec
-----------------------------------------------------------------------------
\* Every variable of the client keeps its type, for any number of users and writes.
THEOREM TypeCorrect == Spec => []TypeOK
<1>1. IInv => TypeOK
  BY DEF IInv
<1> QED
  BY <1>1, Invariance, PTL

\* A batch id that comes back, after a restart or to another user, never finds a
\* callback that was made for the batch that had the id before.
THEOREM CallbacksKeepTheirBatch == Spec => []CallbackHasItsBatch
<1>1. IInv => CallbackHasItsBatch
  BY DEF IInv
<1> QED
  BY <1>1, Invariance, PTL

\* Whatever is lost, stopped, refused or sent again, an answer that is read is
\* about the write at the front of the pipeline.
THEOREM AnswersMatch == Spec => []AnswersMatchThePipeline
<1>1. IInv => AnswersMatchThePipeline
  BY DEF IInv, LinkOK, Alike, HandshakeComplete, AnswersMatchThePipeline
<1> QED
  BY <1>1, Invariance, PTL
-----------------------------------------------------------------------------
(* The pipeline and the queue it is filled from.                           *)

Holds(q, b) == \E j \in DOMAIN q : q[j] = b

\* The pipeline is a part of the queue, in its order.
LineOK(r, q) ==
    /\ Sorted(r.pipeline)
    /\ \A i \in DOMAIN r.pipeline : Holds(q, r.pipeline[i])

\* The idle timer is set on a stream in use that has nothing to send, and a stream
\* is started, and waits for its handshake, with something to send only.
IdleOK(r) ==
    /\ r.idle => r.pipeline = <<>> /\ r.state = "Open" /\ r.hello = "done"
    /\ IsStarted(r) /\ r.hello # "done" => r.pipeline # <<>>

\* The batch that is about to be removed is stored, and was before the pipeline.
AckingOK ==
    engine.acking # <<>> =>
        /\ Holds(Queue, engine.acking[1])
        /\ \A i \in DOMAIN remote.pipeline : engine.acking[1].id < remote.pipeline[i].id

LineInv == LineOK(remote, Queue) /\ IdleOK(remote) /\ AckingOK

LEMMA NextBatchesAbove ==
    ASSUME NEW q \in Seq(Batch), Sorted(q), NEW last \in Nat, NEW room \in Int
    PROVE  LET more == NextBatches(q, last, room)
           IN  /\ Sorted(more)
               /\ \A i \in DOMAIN more : Holds(q, more[i]) /\ last < more[i].id
<1> DEFINE from == CHOOSE i \in 1..(Len(q) + 1) :
                      \A j \in DOMAIN q : j < i <=> q[j].id <= last
           to == IF from + room - 1 < Len(q) THEN from + room - 1 ELSE Len(q)
           more == NextBatches(q, last, room)
<1>1. from \in 1..(Len(q) + 1) /\ \A j \in DOMAIN q : j < from <=> q[j].id <= last
  BY BatchesBegin
<1>2. more = SubSeq(q, from, to)
  BY DEF NextBatches
<1> HIDE DEF from
<1>3. to \in Int /\ to <= Len(q)
  BY <1>1
<1> HIDE DEF to, more
<1>4. DOMAIN q = 1..Len(q) /\ Len(q) \in Nat
  BY LenProperties
<1>5. CASE to < from
  <2>1. more = <<>>
    BY <1>1, <1>2, <1>3, <1>4, <1>5
  <2> QED
    BY <2>1 DEF Sorted, more
<1>6. CASE ~(to < from)
  <2>1. from \in 1..Len(q) /\ to \in 1..Len(q)
    BY <1>1, <1>3, <1>4, <1>6
  <2>2. /\ Len(more) = to - from + 1
        /\ \A i \in 1..(to - from + 1) : more[i] = q[from + i - 1]
    BY <1>2, <1>6, <2>1, SubSeqProperties
  <2>3. DOMAIN more = 1..(to - from + 1)
    BY <1>2, <1>6, <2>1, <2>2
  <2>4. \A i \in DOMAIN more : /\ from + i - 1 \in DOMAIN q /\ i \in Nat
                               /\ ~(from + i - 1 < from)
    BY <1>4, <2>1, <2>3
  <2>5. \A i \in DOMAIN more : Holds(q, more[i])
    BY <2>2, <2>3, <2>4 DEF Holds
  <2>6. \A i \in DOMAIN more : last < more[i].id
    <3> SUFFICES ASSUME NEW i \in DOMAIN more PROVE last < more[i].id
      OBVIOUS
    <3>1. q[from + i - 1].id \in Nat
      BY <2>4, BatchAt
    <3>2. ~(q[from + i - 1].id <= last)
      BY <1>1, <2>4
    <3> QED
      BY <2>2, <2>3, <3>1, <3>2
  <2>7. Sorted(more)
    <3> SUFFICES ASSUME NEW i \in DOMAIN more, NEW j \in DOMAIN more, i < j
                 PROVE  more[i].id < more[j].id
      BY DEF Sorted
    <3>1. from + i - 1 < from + j - 1
      BY <2>1, <2>4
    <3> QED
      BY <2>2, <2>3, <2>4, <3>1 DEF Sorted
  <2> QED
    BY <2>5, <2>6, <2>7 DEF more
<1> QED
  BY <1>5, <1>6

\* A sorted pipeline with later batches after it.
LEMMA LineAppended ==
    ASSUME NEW p \in Seq(Batch), NEW more \in Seq(Batch), Sorted(p), Sorted(more),
           NEW q, \A i \in DOMAIN p : Holds(q, p[i]), \A i \in DOMAIN more : Holds(q, more[i]),
           p # <<>> => \A i \in DOMAIN more : p[Len(p)].id < more[i].id
    PROVE  Sorted(p \o more) /\ \A i \in DOMAIN (p \o more) : Holds(q, (p \o more)[i])
<1> DEFINE c == p \o more
<1>0. /\ Len(p) \in Nat /\ Len(more) \in Nat
      /\ DOMAIN p = 1..Len(p) /\ DOMAIN more = 1..Len(more)
  BY LenProperties
<1>a. c \in Seq(Batch)
  BY ConcatProperties
<1>b. Len(c) = Len(p) + Len(more)
  BY ConcatProperties
<1>c. \A i \in 1..(Len(p) + Len(more)) : c[i] = IF i <= Len(p) THEN p[i] ELSE more[i - Len(p)]
  BY ConcatProperties
<1> HIDE DEF c
<1>1. /\ c \in Seq(Batch) /\ Len(c) = Len(p) + Len(more)
      /\ \A i \in 1..(Len(p) + Len(more)) : c[i] = IF i <= Len(p) THEN p[i] ELSE more[i - Len(p)]
  BY <1>a, <1>b, <1>c
<1>2. DOMAIN c = 1..(Len(p) + Len(more))
  BY <1>1, LenProperties
<1>3. \A i \in DOMAIN c : \/ i \in DOMAIN p /\ c[i] = p[i]
                          \/ /\ i - Len(p) \in DOMAIN more /\ c[i] = more[i - Len(p)]
                             /\ i > Len(p)
  <2> SUFFICES ASSUME NEW i \in DOMAIN c
               PROVE  \/ i \in DOMAIN p /\ c[i] = p[i]
                      \/ /\ i - Len(p) \in DOMAIN more /\ c[i] = more[i - Len(p)]
                         /\ i > Len(p)
    OBVIOUS
  <2>1. i \in 1..(Len(p) + Len(more))
    BY <1>2
  <2>2. c[i] = IF i <= Len(p) THEN p[i] ELSE more[i - Len(p)]
    BY <1>1, <2>1
  <2>3. i <= Len(p) => i \in DOMAIN p
    BY <1>0, <2>1
  <2>4. ~(i <= Len(p)) => i - Len(p) \in DOMAIN more /\ i > Len(p)
    BY <1>0, <2>1
  <2> QED
    BY <2>2, <2>3, <2>4
<1>4. \A i \in DOMAIN c : Holds(q, c[i])
  BY <1>3
<1>5. Sorted(c)
  <2> SUFFICES ASSUME NEW i \in DOMAIN c, NEW j \in DOMAIN c, i < j
               PROVE  c[i].id < c[j].id
    BY DEF Sorted
  <2>1. CASE i \in DOMAIN p /\ j \in DOMAIN p
    BY <1>0, <1>1, <1>3, <2>1 DEF Sorted
  <2>2. CASE i \notin DOMAIN p
    <3>1. /\ i - Len(p) \in DOMAIN more /\ c[i] = more[i - Len(p)]
          /\ j - Len(p) \in DOMAIN more /\ c[j] = more[j - Len(p)]
          /\ i - Len(p) < j - Len(p)
      BY <1>0, <1>1, <1>2, <1>3, <2>2
    <3> QED
      BY <3>1 DEF Sorted
  <2>3. CASE i \in DOMAIN p /\ j \notin DOMAIN p
    <3>1. j - Len(p) \in DOMAIN more /\ c[j] = more[j - Len(p)] /\ c[i] = p[i]
      BY <1>0, <1>1, <1>2, <1>3, <2>3
    <3>2. p # <<>> /\ Len(p) \in DOMAIN p /\ i <= Len(p)
      BY <1>0, <1>1, <2>3
    <3>3. p[i].id \in Nat /\ p[Len(p)].id \in Nat /\ c[j].id \in Nat
      BY <2>3, <3>1, <3>2, BatchAt
    <3>4. p[i].id <= p[Len(p)].id
      <4>1. CASE i = Len(p)
        BY <3>3, <4>1
      <4>2. CASE i < Len(p)
        BY <2>3, <3>2, <3>3, <4>2 DEF Sorted
      <4> QED
        BY <1>0, <2>3, <3>2, <4>1, <4>2
    <3>5. p[Len(p)].id < c[j].id
      BY <3>1, <3>2
    <3> QED
      BY <3>1, <3>3, <3>4, <3>5
  <2> QED
    BY <2>1, <2>2, <2>3
<1> QED
  BY <1>4, <1>5 DEF c

LEMMA FreshLine == ASSUME NEW q PROVE LineOK(FreshRemote, q) /\ IdleOK(FreshRemote)
  BY DEF FreshRemote, LineOK, IdleOK, Sorted, IsStarted

LEMMA ClosedLine ==
    ASSUME NEW r \in Stream, NEW s \in {"Initial", "Error"}
    PROVE  /\ IdleOK(Closed(r, s)) /\ ~IsStarted(Closed(r, s))
           /\ Closed(r, s).pipeline = r.pipeline
  BY DEF Closed, NoLink, Stream, IdleOK, IsStarted

LEMMA StopLine ==
    ASSUME NEW r \in Stream, IdleOK(r)
    PROVE  IdleOK(Stop(r)) /\ ~IsStarted(Stop(r)) /\ Stop(r).pipeline = r.pipeline
  BY ClosedLine DEF Stop

LEMMA StartLine ==
    ASSUME NEW r, GoodStream(r), IdleOK(r), NEW n
    PROVE  /\ IdleOK(StartWriteStream(r, n))
           /\ StartWriteStream(r, n).pipeline = r.pipeline
<1>1. CASE IsStarted(r) \/ r.pipeline = <<>>
  BY <1>1 DEF StartWriteStream
<1>2. CASE ~(IsStarted(r) \/ r.pipeline = <<>>)
  <2>1. r \in Stream /\ ~r.idle
    BY <1>2 DEF GoodStream, IdleOK, Stream
  <2>2. CASE r.state = "Error"
    <3>1. StartWriteStream(r, n) = [r EXCEPT !.state = "Backoff"]
      BY <1>2, <2>2 DEF StartWriteStream
    <3> QED
      BY <1>2, <2>1, <3>1 DEF IdleOK, Stream
  <2>3. CASE r.state # "Error"
    <3>1. StartWriteStream(r, n) = RequestCredentials(r, n)
      BY <1>2, <2>3 DEF StartWriteStream
    <3>2. /\ RequestCredentials(r, n).idle = r.idle
          /\ RequestCredentials(r, n).pipeline = r.pipeline
      BY <2>1 DEF RequestCredentials, Stream
    <3> QED
      BY <1>2, <2>1, <3>1, <3>2 DEF IdleOK
  <2> QED
    BY <2>2, <2>3
<1> QED
  BY <1>1, <1>2

LEMMA FillLine ==
    ASSUME NEW r, GoodStream(r), IdleOK(r), NEW q \in Seq(Batch), Sorted(q), LineOK(r, q),
           NEW n \in Nat
    PROVE  LineOK(FillWritePipeline(r, q, n), q) /\ IdleOK(FillWritePipeline(r, q, n))
<1> DEFINE last == IF r.pipeline = <<>> THEN 0 ELSE r.pipeline[Len(r.pipeline)].id
           more == NextBatches(q, last, MaxPending - Len(r.pipeline))
           live == r.state = "Open" /\ HandshakeComplete(r)
           idle == CASE more # <<>> /\ live -> FALSE
                     [] more = <<>> /\ r.pipeline = <<>> /\ r.state = "Open" -> TRUE
                     [] OTHER -> r.idle
           s == [r EXCEPT !.pipeline = @ \o more,
                          !.outbox = IF live THEN @ \o more ELSE @,
                          !.idle = idle]
<1>1. r \in Stream /\ LinkOK(r)
  BY DEF GoodStream
<1>2. /\ r.pipeline \in Seq(Batch) /\ r.outbox \in Seq(Batch) /\ r.inbox \in Nat
      /\ r.idle \in BOOLEAN
  BY <1>1 DEF Stream
<1>3. last \in Nat
  <2>1. CASE r.pipeline # <<>>
    <3>1. Len(r.pipeline) \in DOMAIN r.pipeline
      BY <1>2, <2>1
    <3>2. r.pipeline[Len(r.pipeline)].id \in Nat
      BY <1>2, <3>1, BatchAt
    <3> QED
      BY <2>1, <3>2
  <2> QED
    BY <2>1
<1>4. MaxPending - Len(r.pipeline) \in Int
  BY <1>2, BoundsAssumption
<1>5. r.pipeline # <<>> => last = r.pipeline[Len(r.pipeline)].id
  OBVIOUS
<1> HIDE DEF last
<1>6. /\ more \in Seq(Batch) /\ Sorted(more)
      /\ \A i \in DOMAIN more : Holds(q, more[i]) /\ last < more[i].id
  BY <1>3, <1>4, NextBatchesType, NextBatchesAbove
<1> HIDE DEF more
<1>7. Sorted(r.pipeline \o more)
      /\ \A i \in DOMAIN (r.pipeline \o more) : Holds(q, (r.pipeline \o more)[i])
  <2>1. r.pipeline # <<>> => \A i \in DOMAIN more : r.pipeline[Len(r.pipeline)].id < more[i].id
    BY <1>5, <1>6
  <2> QED
    BY <1>2, <1>6, <2>1, LineAppended DEF LineOK
<1>8. r.pipeline \o more = <<>> <=> r.pipeline = <<>> /\ more = <<>>
  BY <1>2, <1>6, ConcatProperties, EmptySeq, LenProperties
<1>0. idle => \/ more = <<>> /\ (r.idle \/ (r.pipeline = <<>> /\ r.state = "Open"))
              \/ r.idle /\ ~live
  <2> HIDE DEF live
  <2>1. CASE more # <<>> /\ live
    <3>1. idle = FALSE
      BY <2>1
    <3> QED
      BY <3>1
  <2>2. CASE more = <<>> /\ r.pipeline = <<>> /\ r.state = "Open"
    BY <2>2
  <2>3. CASE ~(more # <<>> /\ live) /\ ~(more = <<>> /\ r.pipeline = <<>> /\ r.state = "Open")
    <3>1. idle = r.idle
      BY <2>3
    <3> HIDE DEF idle
    <3> QED
      BY <2>3, <3>1
  <2> QED
    BY <2>1, <2>2, <2>3
<1> HIDE DEF idle
<1>9. /\ s.state = r.state /\ s.hello = r.hello /\ s.idle = idle
      /\ s.pipeline = r.pipeline \o more
  BY <1>1 DEF Stream
<1>10. IdleOK(s)
  <2>1. ASSUME idle PROVE s.pipeline = <<>> /\ s.state = "Open" /\ s.hello = "done"
    <3>1. CASE r.idle /\ ~live
      BY <3>1 DEF IdleOK, HandshakeComplete
    <3>2. CASE more = <<>> /\ (r.idle \/ (r.pipeline = <<>> /\ r.state = "Open"))
      <4>1. r.pipeline = <<>> /\ r.state = "Open"
        BY <3>2 DEF IdleOK
      <4>2. r.hello = "done"
        BY <4>1 DEF IdleOK, IsStarted
      <4> QED
        BY <1>8, <1>9, <3>2, <4>1, <4>2
    <3> QED
      BY <1>0, <2>1, <3>1, <3>2
  <2>2. IsStarted(s) /\ s.hello # "done" => s.pipeline # <<>>
    BY <1>8, <1>9 DEF IdleOK, IsStarted
  <2> QED
    BY <1>9, <2>1, <2>2 DEF IdleOK
<1>11. Filled(r, q) = s
  BY DEF Filled, s, last, more, live, idle
<1>12. GoodStream(s)
  BY <1>11, FilledGood
<1> HIDE DEF s
<1> QED
  BY <1>7, <1>9, <1>10, <1>11, <1>12, FillStarts, StartLine DEF LineOK

LEMMA LineMore ==
    ASSUME NEW r, NEW p, NEW q, LineOK(r, p), \A b : Holds(p, b) => Holds(q, b)
    PROVE  LineOK(r, q)
  BY DEF LineOK

LEMMA LineSame ==
    ASSUME NEW r, NEW s, s.pipeline = r.pipeline, s.idle = r.idle, s.state = r.state,
           s.hello = r.hello \/ (s.hello # "done" /\ r.hello # "done"),
           IdleOK(r)
    PROVE  /\ IdleOK(s)
           /\ \A q : LineOK(r, q) => LineOK(s, q)
  BY DEF LineOK, IdleOK, IsStarted

\* A stream that was closed, and is started again if it has something to send.
LEMMA CloseStartLine ==
    ASSUME NEW r, GoodStream(r), NEW s \in {"Initial", "Error"}, NEW n \in Nat
    PROVE  /\ IdleOK(StartWriteStream(Closed(r, s), n))
           /\ StartWriteStream(Closed(r, s), n).pipeline = r.pipeline
  BY ClosedGood, ClosedLine, StartLine DEF GoodStream

LEMMA StopStartLine ==
    ASSUME NEW r, GoodStream(r), IdleOK(r), NEW n \in Nat
    PROVE  /\ IdleOK(StartWriteStream(Stop(r), n))
           /\ StartWriteStream(Stop(r), n).pipeline = r.pipeline
  BY StopGood, StopLine, StartLine DEF GoodStream

\* The rest of a line is after its first batch.
LEMMA LineRest ==
    ASSUME NEW p \in Seq(Batch), p # <<>>, Sorted(p)
    PROVE  /\ Head(p) \in Batch /\ 1 \in DOMAIN p /\ Head(p) = p[1]
           /\ Tail(p) \in Seq(Batch) /\ Sorted(Tail(p))
           /\ \A i \in DOMAIN Tail(p) : /\ i + 1 \in DOMAIN p /\ Tail(p)[i] = p[i + 1]
                                        /\ Head(p).id < Tail(p)[i].id
<1> DEFINE t == Tail(p)
<1>1. /\ t \in Seq(Batch) /\ Len(t) = Len(p) - 1
      /\ \A i \in 1..(Len(p) - 1) : t[i] = p[i + 1]
  BY HeadTailProperties
<1>2. DOMAIN p = 1..Len(p) /\ Len(p) \in Nat /\ Len(p) # 0
  BY LenProperties, EmptySeq
<1>3. DOMAIN t = 1..(Len(p) - 1)
  BY <1>1, LenProperties
<1>4. Head(p) \in Batch /\ Head(p) = p[1] /\ 1 \in DOMAIN p
  BY <1>2, HeadTailProperties
<1> HIDE DEF t
<1>5. \A i \in DOMAIN t : i + 1 \in DOMAIN p /\ t[i] = p[i + 1] /\ i \in Nat /\ 1 < i + 1
  BY <1>1, <1>2, <1>3
<1>6. \A i \in DOMAIN t : p[1].id < t[i].id
  <2> SUFFICES ASSUME NEW i \in DOMAIN t PROVE p[1].id < t[i].id
    OBVIOUS
  <2>1. 1 \in DOMAIN p /\ i + 1 \in DOMAIN p /\ t[i] = p[i + 1] /\ 1 < i + 1
    BY <1>4, <1>5
  <2>2. p[1].id < p[i + 1].id
    BY <2>1 DEF Sorted
  <2> QED
    BY <2>1, <2>2
<1>7. Sorted(t)
  <2> SUFFICES ASSUME NEW i \in DOMAIN t, NEW j \in DOMAIN t, i < j
               PROVE  t[i].id < t[j].id
    BY DEF Sorted
  <2>1. i + 1 < j + 1
    BY <1>5
  <2> QED
    BY <1>5, <2>1 DEF Sorted
<1> QED
  BY <1>1, <1>4, <1>5, <1>6, <1>7 DEF t

\* A line that is after a batch stays one when the batch is removed.
LEMMA LineWithout ==
    ASSUME NEW q \in Seq(Batch), Sorted(q), NEW b \in Batch, NEW r,
           r.pipeline \in Seq(Batch), LineOK(r, q),
           \A i \in DOMAIN r.pipeline : b.id < r.pipeline[i].id
    PROVE  /\ LineOK(r, Without(q, b))
           /\ Without(q, b) \in Seq(Batch) /\ Sorted(Without(q, b))
<1>a. Without(q, b) \in Seq(Batch)
  BY WithoutKeeps
<1>b. Sorted(Without(q, b))
  BY WithoutKeeps
<1>1. \A i \in DOMAIN q : q[i].id # b.id => Holds(Without(q, b), q[i])
  BY WithoutKeeps DEF Holds
<1>2. ASSUME NEW i \in DOMAIN r.pipeline
      PROVE  Holds(Without(q, b), r.pipeline[i])
  <2>1. PICK j \in DOMAIN q : q[j] = r.pipeline[i]
    BY DEF LineOK, Holds
  <2>2. r.pipeline[i].id \in Nat /\ b.id \in Nat
    BY BatchAt DEF Batch
  <2>3. q[j].id # b.id
    BY <2>1, <2>2
  <2> QED
    BY <1>1, <2>1, <2>3
<1> QED
  BY <1>a, <1>b, <1>2 DEF LineOK

-----------------------------------------------------------------------------
(* The steps keep the pipeline a part of its queue.                        *)

LEMMA LineStep ==
    ASSUME IInv, LineInv, Next
    PROVE  LineInv'
<1>1. /\ GoodStream(remote) /\ remote \in Stream /\ remote.pipeline \in Seq(Batch)
      /\ IdleOK(remote) /\ LineOK(remote, Queue) /\ AckingOK
  BY DEF IInv, TypeOK, GoodStream, LineInv, Stream
<1>2. /\ auth.counter \in Nat /\ engine.user \in Users
      /\ \A u \in Users : store.queue[u] \in Seq(Batch) /\ Sorted(store.queue[u])
      /\ Queue \in Seq(Batch) /\ Sorted(Queue)
      /\ engine \in [user : Users, acking : Seq(Batch),
                     callbacks : SUBSET [user : Users, id : Nat, w : Writes]]
      /\ store.queue \in [Users -> Seq(Batch)] /\ store \in [queue : [Users -> Seq(Batch)], nextId : Nat]
  BY DEF IInv, TypeOK, StoreOK, Queue
<1>3. GoodStream(remote')
  BY StreamStep
<1>4. ASSUME UNCHANGED <<engine, store>>, IdleOK(remote'), remote'.pipeline = remote.pipeline
      PROVE  LineInv'
  BY <1>1, <1>4 DEF LineInv, LineOK, AckingOK, Queue
<1>5. ASSUME UNCHANGED <<engine, store>>, remote'.pipeline = remote.pipeline,
             remote'.idle = remote.idle, remote'.state = remote.state,
             remote'.hello = remote.hello
                \/ (remote'.hello # "done" /\ remote.hello # "done")
      PROVE  LineInv'
  BY <1>1, <1>4, <1>5, LineSame
<1>6. CASE \/ \E w \in Writes : WriteMutations(w)
           \/ \E u \in Users : ChangeUser(u)
           \/ Main
  BY <1>5, <1>6 DEF WriteMutations, ChangeUser, Main, HearChange, HearToken, RunHandler
<1>7. CASE Auth \/ \E f \in remote.fetches : AnswerToken(f, FALSE)
  <2>1. UNCHANGED <<engine, store>>
    BY <1>7 DEF Auth, ReadUser, AnswerToken
  <2>2. \E fetches : remote' = [remote EXCEPT !.fetches = fetches]
    BY <1>7 DEF Auth, ReadUser, AnswerToken
  <2> QED
    BY <1>1, <1>5, <2>1, <2>2 DEF Stream
<1>8. CASE ServerGreets
  BY <1>1, <1>5, <1>8 DEF ServerGreets, Stream
<1>9. CASE ServerCommits \/ ServerRefuses
  <2>1. UNCHANGED <<engine, store>>
    BY <1>9 DEF ServerCommits, ServerRefuses
  <2>2. /\ remote'.pipeline = remote.pipeline /\ remote'.idle = remote.idle
        /\ remote'.state = remote.state /\ remote'.hello = remote.hello
    BY <1>1, <1>9 DEF ServerCommits, ServerRefuses, Stream
  <2> QED
    BY <1>5, <2>1, <2>2
<1>10. CASE ResumeStart
  <2>1. UNCHANGED <<engine, store>>
    BY <1>10 DEF ResumeStart
  <2>2. CASE UNCHANGED remote
    BY <1>5, <2>1, <2>2
  <2>3. CASE remote' = StartWriteStream(Closed(remote, "Error"), auth.counter)
    BY <1>1, <1>2, <1>4, <2>1, <2>3, CloseStartLine
  <2>4. CASE /\ remote.state = "Starting" /\ ~HandshakeComplete(remote)
             /\ remote' = [remote EXCEPT !.state = "Open", !.hello = "sent",
                                         !.idle = FALSE, !.as = Head(tasks).as]
    <3>1. remote.pipeline # <<>>
      BY <1>1, <2>4 DEF IdleOK, IsStarted, HandshakeComplete
    <3>2. remote'.pipeline = remote.pipeline /\ ~remote'.idle
      BY <1>1, <2>4 DEF Stream
    <3> QED
      BY <1>4, <2>1, <3>1, <3>2 DEF IdleOK
  <2> QED
    BY <1>10, <2>2, <2>3, <2>4 DEF ResumeStart
<1>11. CASE BackoffElapsed
  <2>1. UNCHANGED <<engine, store>> /\ remote.state = "Backoff"
        /\ remote' = RequestCredentials(remote, auth.counter)
    BY <1>11 DEF BackoffElapsed
  <2>2. /\ remote'.pipeline = remote.pipeline /\ remote'.idle = remote.idle
    BY <1>1, <2>1 DEF RequestCredentials, Stream
  <2>3. remote.pipeline # <<>> /\ ~remote.idle
    BY <1>1, <2>1 DEF IdleOK, IsStarted, GoodStream, LinkOK
  <2> QED
    BY <1>4, <2>1, <2>2, <2>3 DEF IdleOK
<1>12. CASE IdleTimeout
  BY <1>1, <1>2, <1>4, <1>12, StopStartLine DEF IdleTimeout
<1>13. CASE CompleteHandshake
  <2>1. /\ remote'.pipeline = remote.pipeline /\ remote'.hello = "done"
        /\ remote'.idle = (remote.idle /\ remote.pipeline = <<>>)
        /\ remote.hello = "answered"
    BY <1>1, <1>13 DEF CompleteHandshake, Stream
  <2>2. ~remote'.idle
    BY <1>1, <2>1 DEF IdleOK
  <2> QED
    BY <1>4, <1>13, <2>1, <2>2 DEF CompleteHandshake, IdleOK
<1>14. CASE StreamBreaks
  BY <1>1, <1>2, <1>4, <1>14, CloseStartLine DEF StreamBreaks
<1>15. CASE WriteLocally
  <2> DEFINE b == [id |-> store.nextId, w |-> Head(tasks).w]
             Q == Append(Queue, b)
  <2>1. /\ store' = [queue |-> [store.queue EXCEPT ![engine.user] = Q],
                     nextId |-> store.nextId + 1]
        /\ remote' = FillWritePipeline(remote, store'.queue[engine.user], auth.counter)
        /\ engine.acking = <<>>
        /\ engine'.user = engine.user /\ engine'.acking = engine.acking
    BY <1>2, <1>15 DEF WriteLocally, Queue, Task, Free
  <2>2. store'.queue[engine.user] = Q /\ Queue' = Q
    BY <1>2, <2>1 DEF Queue
  <2>3. Q \in Seq(Batch) /\ Sorted(Q)
    BY <1>2, <2>1, <2>2, StreamStep DEF StoreOK
  <2>4. \A p : Holds(Queue, p) => Holds(Q, p)
    <3>1. b \in Batch
      <4>1. Head(tasks) \in Jobs /\ Head(tasks).kind = "write"
        BY <1>15, QueueSteps DEF WriteLocally, Task, IInv, TypeOK
      <4> QED
        BY <1>2, <4>1, JobKinds DEF Batch
    <3> HIDE DEF b
    <3>2. DOMAIN Queue = 1..Len(Queue) /\ DOMAIN Queue \subseteq DOMAIN Q
          /\ \A i \in 1..Len(Queue) : Q[i] = Queue[i]
      BY <1>2, <3>1, AppendProperties, LenProperties
    <3> QED
      BY <3>2 DEF Holds
  <2> HIDE DEF Q, b
  <2>5. LineOK(remote, Q)
    BY <1>1, <2>4, LineMore
  <2> QED
    BY <1>1, <1>2, <2>1, <2>2, <2>3, <2>5, FillLine DEF LineInv, AckingOK
<1>16. CASE HandleCredentialChange
  <2>1. Head(tasks) \in Jobs /\ Head(tasks).kind = "credential"
    BY <1>16, QueueSteps DEF HandleCredentialChange, Task, IInv, TypeOK
  <2> DEFINE u == Head(tasks).user
             r == [Stop(remote) EXCEPT !.pipeline = <<>>]
  <2>2. /\ u \in Users /\ engine' = [engine EXCEPT !.user = u]
        /\ store'.queue = store.queue /\ engine.acking = <<>>
        /\ remote' = FillWritePipeline(r, store.queue[u], auth.counter)
    BY <1>2, <1>16, <2>1, JobKinds DEF HandleCredentialChange, Task, Free
  <2>3. Stop(remote) \in Stream /\ GoodStream(Stop(remote)) /\ Stop(remote).hello = "none"
        /\ IdleOK(Stop(remote)) /\ ~IsStarted(Stop(remote))
    BY <1>1, StopGood, StopLine DEF GoodStream
  <2>4. GoodStream(r)
    <3>1. <<>> \in Seq(Batch)
      OBVIOUS
    <3> QED
      BY <2>3, <3>1, PipelineGood
  <2>5. r.pipeline = <<>> /\ r.idle = Stop(remote).idle /\ r.state = Stop(remote).state
    BY <2>3 DEF Stream
  <2> HIDE DEF r, u
  <2>6. IdleOK(r) /\ LineOK(r, store.queue[u])
    BY <2>3, <2>5 DEF IdleOK, IsStarted, LineOK, Sorted
  <2>7. engine'.user = u /\ engine'.acking = <<>> /\ Queue' = store.queue[u]
    BY <1>2, <2>2 DEF Queue
  <2> QED
    BY <1>2, <2>2, <2>4, <2>6, <2>7, FillLine DEF LineInv, AckingOK
<1>17. CASE MutationResult
  <2>1. CASE UNCHANGED <<engine, remote>>
    BY <1>5, <1>17, <2>1 DEF MutationResult
  <2>2. CASE /\ remote.pipeline # <<>> /\ HandshakeComplete(remote)
             /\ remote' = [remote EXCEPT !.inbox = @ - 1, !.pipeline = Tail(@)]
             /\ engine'.acking = <<Head(remote.pipeline)>> /\ engine'.user = engine.user
             /\ store' = store
    <3> DEFINE b == Head(remote.pipeline)
               t == Tail(remote.pipeline)
    <3>1. /\ b \in Batch /\ 1 \in DOMAIN remote.pipeline /\ b = remote.pipeline[1]
          /\ t \in Seq(Batch) /\ Sorted(t)
          /\ \A i \in DOMAIN t : /\ i + 1 \in DOMAIN remote.pipeline
                                 /\ t[i] = remote.pipeline[i + 1] /\ b.id < t[i].id
      BY <1>1, <2>2, LineRest DEF LineOK
    <3> HIDE DEF b, t
    <3>2. /\ remote'.pipeline = t /\ remote'.idle = remote.idle
          /\ remote'.hello = "done" /\ remote.hello = "done"
      BY <1>1, <2>2 DEF t, Stream, HandshakeComplete
    <3>3. IdleOK(remote')
      BY <1>1, <2>2, <3>2 DEF IdleOK
    <3>4. Queue' = Queue
      BY <2>2 DEF Queue
    <3>5. LineOK(remote', Queue')
      BY <1>1, <3>1, <3>2, <3>4 DEF LineOK
    <3>6. engine'.acking[1] = b
      BY <2>2 DEF b
    <3>7. AckingOK'
      BY <1>1, <3>1, <3>2, <3>4, <3>6 DEF LineOK, AckingOK
    <3> QED
      BY <3>3, <3>5, <3>7 DEF LineInv
  <2>3. CASE remote.pipeline # <<>>
    <3>1. /\ HandshakeComplete(remote) /\ store' = store
          /\ remote' = [remote EXCEPT !.inbox = @ - 1, !.pipeline = Tail(@)]
          /\ engine'.acking = <<Head(remote.pipeline)>> /\ engine'.user = engine.user
      BY <1>2, <1>17, <2>3 DEF MutationResult
    <3> QED
      BY <2>2, <2>3, <3>1
  <2> QED
    BY <1>17, <2>1, <2>3 DEF MutationResult
<1>18. CASE AcknowledgeBatch
  <2> DEFINE b == engine.acking[1]
             W == Without(Queue, b)
  <2>1. /\ engine.acking # <<>> /\ engine' = [engine EXCEPT !.acking = <<>>]
        /\ store' = [store EXCEPT !.queue[engine.user] = W]
        /\ remote' = FillWritePipeline(remote, store'.queue[engine.user], auth.counter)
    BY <1>18 DEF AcknowledgeBatch, Free, Queue
  <2>2. b \in Batch
    <3>1. engine.acking \in Seq(Batch) /\ 1 \in DOMAIN engine.acking
      BY <1>2, <2>1, LenProperties, EmptySeq
    <3> QED
      BY <3>1, BatchAt
  <2>3. \A i \in DOMAIN remote.pipeline : b.id < remote.pipeline[i].id
    BY <1>1, <2>1 DEF AckingOK
  <2> HIDE DEF b
  <2>4. LineOK(remote, W) /\ W \in Seq(Batch) /\ Sorted(W)
    BY <1>1, <1>2, <2>2, <2>3, LineWithout
  <2> HIDE DEF W
  <2>5. store'.queue[engine.user] = W /\ Queue' = W /\ engine'.acking = <<>>
    BY <1>2, <2>1 DEF Queue
  <2> QED
    BY <1>1, <1>2, <2>1, <2>4, <2>5, FillLine DEF LineInv, AckingOK
<1>19. CASE HandleWriteError
  <2> DEFINE b == Head(remote.pipeline)
             t == Tail(remote.pipeline)
             c == Closed(remote, "Initial")
             r == [c EXCEPT !.pipeline = t]
             W == Without(Queue, b)
  <2>1. /\ remote.pipeline # <<>> /\ engine.acking = <<>>
        /\ store' = [store EXCEPT !.queue[engine.user] = W]
        /\ engine'.acking = <<>> /\ engine'.user = engine.user
    BY <1>2, <1>19 DEF HandleWriteError, Free, Queue
  <2>2. c.pipeline = remote.pipeline /\ GoodStream(c) /\ c.hello = "none"
        /\ IdleOK(c) /\ ~IsStarted(c)
    BY <1>1, ClosedGood, ClosedLine
  <2>3. remote' = FillWritePipeline(r, store'.queue[engine.user], auth.counter)
    BY <1>19, <2>2 DEF HandleWriteError
  <2>4. /\ b \in Batch /\ 1 \in DOMAIN remote.pipeline /\ b = remote.pipeline[1]
        /\ t \in Seq(Batch) /\ Sorted(t)
        /\ \A i \in DOMAIN t : /\ i + 1 \in DOMAIN remote.pipeline
                               /\ t[i] = remote.pipeline[i + 1] /\ b.id < t[i].id
    BY <1>1, <2>1, LineRest DEF LineOK
  <2> HIDE DEF b, t, c
  <2>5. GoodStream(r) /\ r.pipeline = t /\ r.idle = c.idle /\ r.state = c.state
    BY <2>2, <2>4, PipelineGood DEF GoodStream, Stream
  <2> HIDE DEF r
  <2>6. LineOK(r, Queue)
    BY <1>1, <2>4, <2>5 DEF LineOK
  <2>7. LineOK(r, W) /\ W \in Seq(Batch) /\ Sorted(W)
    BY <1>2, <2>4, <2>5, <2>6, LineWithout
  <2> HIDE DEF W
  <2>8. IdleOK(r)
    BY <2>2, <2>5 DEF IdleOK, IsStarted
  <2>9. store'.queue[engine.user] = W /\ Queue' = W
    BY <1>2, <2>1 DEF Queue
  <2> QED
    BY <1>2, <2>1, <2>3, <2>5, <2>7, <2>8, <2>9, FillLine DEF LineInv, AckingOK
<1>20. CASE \E u \in Users : Restart(u)
  <2>1. PICK u \in Users : Restart(u)
    BY <1>20
  <2>2. /\ engine'.user = u /\ engine'.acking = <<>> /\ store'.queue = store.queue
        /\ remote' = FillWritePipeline(FreshRemote, store.queue[u], 0)
    BY <1>2, <2>1 DEF Restart
  <2>3. Queue' = store.queue[u]
    BY <2>2 DEF Queue
  <2> QED
    BY <1>2, <2>2, <2>3, FreshGood, FreshLine, FillLine DEF LineInv, AckingOK
<1> QED
  BY <1>6, <1>7, <1>8, <1>9, <1>10, <1>11, <1>12, <1>13, <1>14, <1>15, <1>16, <1>17, <1>18,
     <1>19, <1>20 DEF Next, Worker, Server

-----------------------------------------------------------------------------
(* Tokens on their way to the stream.                                      *)

Older(q, n) == \A i \in DOMAIN q : q[i].kind = "token" => q[i].closes <= n

\* The tokens that are not stale: requested since the stream was last closed.
Awaited(q, n) == {i \in DOMAIN q : q[i].kind = "token" /\ q[i].closes = n}
AwaitedFetches(r) == {f \in r.fetches : f.closes = r.closes}

NoneAwaited(r, M, T) ==
    AwaitedFetches(r) = {} /\ Awaited(M, r.closes) = {} /\ Awaited(T, r.closes) = {}

\* There is at most one on the whole way, and then the stream waits for it.
TokensOK(r, M, T) ==
    /\ \A f \in r.fetches : f.closes <= r.closes
    /\ Older(M, r.closes) /\ Older(T, r.closes)
    /\ \A f, g \in AwaitedFetches(r) : f = g
    /\ \A i, j \in Awaited(M, r.closes) : i = j
    /\ \A i, j \in Awaited(T, r.closes) : i = j
    /\ AwaitedFetches(r) # {} => Awaited(M, r.closes) = {} /\ Awaited(T, r.closes) = {}
    /\ Awaited(M, r.closes) # {} => Awaited(T, r.closes) = {}
    /\ ~NoneAwaited(r, M, T) => r.state = "Starting"

TokenInv == TokensOK(remote, mainQ, tasks)

\* What a queue is without its first message, and with one more.
LEMMA QueueRest ==
    ASSUME NEW S, NEW q \in Seq(S), q # <<>>
    PROVE  /\ 1 \in DOMAIN q /\ Head(q) = q[1]
           /\ \A i \in DOMAIN Tail(q) : /\ i \in Nat /\ i + 1 \in DOMAIN q /\ i + 1 # 1
                                        /\ Tail(q)[i] = q[i + 1]
<1>1. DOMAIN q = 1..Len(q) /\ Len(q) \in Nat /\ Len(q) # 0
  BY LenProperties, EmptySeq
<1>2. /\ Head(q) = q[1]
      /\ Tail(q) \in Seq(S) /\ Len(Tail(q)) = Len(q) - 1
      /\ \A i \in 1..(Len(q) - 1) : Tail(q)[i] = q[i + 1]
  BY <1>1, HeadTailProperties
<1>3. DOMAIN Tail(q) = 1..(Len(q) - 1)
  BY <1>2, LenProperties
<1> QED
  BY <1>1, <1>2, <1>3

LEMMA QueueMore ==
    ASSUME NEW S, NEW q \in Seq(S), NEW m \in S
    PROVE  LET c == Append(q, m)
           IN  /\ Len(q) + 1 \notin DOMAIN q /\ c[Len(q) + 1] = m
               /\ DOMAIN c = DOMAIN q \cup {Len(q) + 1}
               /\ \A i \in DOMAIN q : c[i] = q[i] /\ i \in Nat /\ i < Len(q) + 1
<1> DEFINE c == Append(q, m)
<1>1. DOMAIN q = 1..Len(q) /\ Len(q) \in Nat
  BY LenProperties
<1>2. /\ c \in Seq(S) /\ Len(c) = Len(q) + 1 /\ c[Len(q) + 1] = m
      /\ \A i \in 1..Len(q) : c[i] = q[i]
  BY AppendProperties
<1>3. DOMAIN c = 1..(Len(q) + 1)
  BY <1>2, LenProperties
<1> HIDE DEF c
<1> QED
  BY <1>1, <1>2, <1>3 DEF c

LEMMA RestAwaited ==
    ASSUME NEW S, NEW q \in Seq(S), q # <<>>, NEW n
    PROVE  /\ Older(q, n) => Older(Tail(q), n)
           /\ Awaited(q, n) = {} => Awaited(Tail(q), n) = {}
           /\ (\A i, j \in Awaited(q, n) : i = j) =>
                 /\ \A i, j \in Awaited(Tail(q), n) : i = j
                 /\ Head(q).kind = "token" /\ Head(q).closes = n => Awaited(Tail(q), n) = {}
<1>1. \A i \in DOMAIN Tail(q) : /\ i \in Nat /\ i + 1 \in DOMAIN q /\ i + 1 # 1
                                /\ Tail(q)[i] = q[i + 1]
  BY QueueRest
<1>2. 1 \in DOMAIN q /\ Head(q) = q[1]
  BY QueueRest
<1>3. Older(q, n) => Older(Tail(q), n)
  BY <1>1 DEF Older
<1>4. \A i \in Awaited(Tail(q), n) : i \in Nat /\ i + 1 # 1 /\ i + 1 \in Awaited(q, n)
  BY <1>1 DEF Awaited
<1>5. Head(q).kind = "token" /\ Head(q).closes = n => 1 \in Awaited(q, n)
  BY <1>2 DEF Awaited
<1>6. ASSUME \A i, j \in Awaited(q, n) : i = j,
             NEW i \in Awaited(Tail(q), n), NEW j \in Awaited(Tail(q), n)
      PROVE  i = j
  <2>1. i + 1 = j + 1 /\ i \in Nat /\ j \in Nat
    BY <1>4, <1>6
  <2> QED
    BY <2>1
<1> QED
  BY <1>3, <1>4, <1>5, <1>6

LEMMA MoreAwaited ==
    ASSUME NEW S, NEW q \in Seq(S), NEW m \in S, NEW n
    PROVE  LET c == Append(q, m)
           IN  /\ Older(q, n) /\ (m.kind = "token" => m.closes <= n) => Older(c, n)
               /\ ~(m.kind = "token" /\ m.closes = n) => Awaited(c, n) = Awaited(q, n)
               /\ Awaited(q, n) = {} => \A i, j \in Awaited(c, n) : i = j
<1> DEFINE c == Append(q, m)
<1>1. /\ Len(q) + 1 \notin DOMAIN q /\ c[Len(q) + 1] = m
      /\ DOMAIN c = DOMAIN q \cup {Len(q) + 1}
      /\ \A i \in DOMAIN q : c[i] = q[i]
  BY QueueMore
<1> HIDE DEF c
<1> QED
  BY <1>1 DEF Older, Awaited, c

\* The stream changes, and the queues do not.
LEMMA TokensSame ==
    ASSUME NEW r, NEW s, NEW M, NEW T, TokensOK(r, M, T), s.closes = r.closes,
           s.fetches = r.fetches, r.state = "Starting" => s.state = "Starting"
    PROVE  TokensOK(s, M, T)
  BY DEF TokensOK, NoneAwaited, AwaitedFetches

LEMMA TokensClosed ==
    ASSUME NEW r \in Stream, NEW s \in {"Initial", "Error"}, NEW M \in Seq(Messages),
           NEW T \in Seq(Jobs), TokensOK(r, M, T)
    PROVE  /\ TokensOK(Closed(r, s), M, T) /\ NoneAwaited(Closed(r, s), M, T)
           /\ Closed(r, s) \in Stream
<1> DEFINE c == Closed(r, s)
<1>1. c.closes = r.closes + 1 /\ c.fetches = r.fetches /\ r.closes \in Nat
      /\ \A f \in r.fetches : f.closes \in Nat
  BY DEF Closed, NoLink, Stream
<1>2. /\ \A i \in DOMAIN M : M[i].kind = "token" => M[i].closes \in Nat
      /\ \A i \in DOMAIN T : T[i].kind = "token" => T[i].closes \in Nat
  <2>1. \A i \in DOMAIN M : M[i] \in Messages
    BY ElementOfSeq, LenProperties
  <2>2. \A i \in DOMAIN T : T[i] \in Jobs
    BY ElementOfSeq, LenProperties
  <2> QED
    BY <2>1, <2>2, MessageKinds, JobKinds DEF Tokens
<1>3. c \in Stream
  BY ClosedGood DEF GoodStream
<1> HIDE DEF c
<1>4. /\ \A f \in c.fetches : f.closes <= c.closes /\ f.closes # c.closes
  BY <1>1 DEF TokensOK
<1>5. Older(M, c.closes) /\ Awaited(M, c.closes) = {}
  BY <1>1, <1>2 DEF TokensOK, Older, Awaited
<1>6. Older(T, c.closes) /\ Awaited(T, c.closes) = {}
  BY <1>1, <1>2 DEF TokensOK, Older, Awaited
<1> QED
  BY <1>3, <1>4, <1>5, <1>6 DEF TokensOK, NoneAwaited, AwaitedFetches, c

LEMMA TokensRequested ==
    ASSUME NEW r \in Stream, NEW n, NEW M, NEW T, TokensOK(r, M, T), r.state # "Starting"
    PROVE  TokensOK(RequestCredentials(r, n), M, T)
<1> DEFINE f == [counter |-> n, closes |-> r.closes, read |-> FALSE, as |-> Nobody]
           s == RequestCredentials(r, n)
<1>1. s.closes = r.closes /\ s.fetches = r.fetches \union {f} /\ s.state = "Starting"
      /\ f.closes = r.closes /\ r.closes \in Nat
  BY DEF RequestCredentials, Stream
<1> HIDE DEF f, s
<1>2. NoneAwaited(r, M, T)
  BY DEF TokensOK
<1>3. AwaitedFetches(s) = {f}
  BY <1>1, <1>2 DEF NoneAwaited, AwaitedFetches
<1> QED
  BY <1>1, <1>2, <1>3 DEF TokensOK, NoneAwaited, s

LEMMA TokensStarted ==
    ASSUME NEW r \in Stream, NEW n, NEW M, NEW T, TokensOK(r, M, T)
    PROVE  /\ TokensOK(StartWriteStream(r, n), M, T)
           /\ StartWriteStream(r, n).closes = r.closes
<1>1. CASE IsStarted(r) \/ r.pipeline = <<>>
  BY <1>1 DEF StartWriteStream
<1>2. CASE ~(IsStarted(r) \/ r.pipeline = <<>>)
  <2>1. r.state # "Starting"
    BY <1>2 DEF IsStarted
  <2>2. CASE r.state = "Error"
    <3>1. StartWriteStream(r, n) = [r EXCEPT !.state = "Backoff"]
      BY <1>2, <2>2 DEF StartWriteStream
    <3> QED
      BY <2>1, <3>1, TokensSame DEF Stream
  <2>3. CASE r.state # "Error"
    <3>1. StartWriteStream(r, n) = RequestCredentials(r, n)
      BY <1>2, <2>3 DEF StartWriteStream
    <3>2. RequestCredentials(r, n).closes = r.closes
      BY DEF RequestCredentials, Stream
    <3> QED
      BY <2>1, <3>1, <3>2, TokensRequested
  <2> QED
    BY <2>2, <2>3
<1> QED
  BY <1>1, <1>2

LEMMA TokensFilled ==
    ASSUME NEW r, GoodStream(r), NEW q \in Seq(Batch), Sorted(q), NEW n, NEW M, NEW T,
           TokensOK(r, M, T)
    PROVE  /\ TokensOK(FillWritePipeline(r, q, n), M, T)
           /\ FillWritePipeline(r, q, n).closes = r.closes
<1> DEFINE s == Filled(r, q)
<1>1. s.closes = r.closes /\ s.fetches = r.fetches /\ s.state = r.state
  BY DEF Filled, GoodStream, Stream
<1>2. s \in Stream
  BY FilledGood DEF GoodStream
<1> HIDE DEF s
<1>3. TokensOK(s, M, T)
  BY <1>1, TokensSame
<1>4. FillWritePipeline(r, q, n) = StartWriteStream(s, n)
  BY FillStarts DEF s
<1> QED
  BY <1>1, <1>2, <1>3, <1>4, TokensStarted

LEMMA TokensStopped ==
    ASSUME NEW r \in Stream, NEW M \in Seq(Messages), NEW T \in Seq(Jobs), TokensOK(r, M, T)
    PROVE  /\ TokensOK(Stop(r), M, T) /\ NoneAwaited(Stop(r), M, T)
           /\ Stop(r) \in Stream
<1>1. CASE IsStarted(r)
  BY <1>1, TokensClosed DEF Stop
<1>2. CASE ~IsStarted(r)
  <2>1. r.state # "Starting"
    BY <1>2 DEF IsStarted
  <2> QED
    BY <1>2, <2>1 DEF Stop, TokensOK
<1> QED
  BY <1>1, <1>2

\* A queue that has no more tokens than another.
NoMore(p, q, n) ==
    /\ Older(q, n) => Older(p, n)
    /\ Awaited(q, n) = {} => Awaited(p, n) = {}
    /\ (\A i, j \in Awaited(q, n) : i = j) => \A i, j \in Awaited(p, n) : i = j

LEMMA NoMoreTokens ==
    ASSUME NEW S, NEW q \in Seq(S), NEW n
    PROVE  /\ NoMore(q, q, n) /\ NoMore(<<>>, q, n)
           /\ q # <<>> => NoMore(Tail(q), q, n)
           /\ \A m \in S : m.kind # "token" => NoMore(Append(q, m), q, n)
<1>1. NoMore(q, q, n) /\ NoMore(<<>>, q, n)
  BY DEF NoMore, Older, Awaited
<1>2. ASSUME q # <<>> PROVE NoMore(Tail(q), q, n)
  BY <1>2, RestAwaited DEF NoMore
<1>3. ASSUME NEW m \in S, m.kind # "token" PROVE NoMore(Append(q, m), q, n)
  BY <1>3, MoreAwaited DEF NoMore
<1> QED
  BY <1>1, <1>2, <1>3

LEMMA TokensLess ==
    ASSUME NEW r, NEW M, NEW T, NEW M2, NEW T2, TokensOK(r, M, T),
           NoMore(M2, M, r.closes), NoMore(T2, T, r.closes)
    PROVE  TokensOK(r, M2, T2)
<1>1. Older(M2, r.closes) /\ Older(T2, r.closes)
  BY DEF TokensOK, NoMore
<1>2. /\ \A i, j \in Awaited(M2, r.closes) : i = j
      /\ \A i, j \in Awaited(T2, r.closes) : i = j
  BY DEF TokensOK, NoMore
<1>3. /\ Awaited(M, r.closes) = {} => Awaited(M2, r.closes) = {}
      /\ Awaited(T, r.closes) = {} => Awaited(T2, r.closes) = {}
  BY DEF NoMore
<1> QED
  BY <1>1, <1>2, <1>3 DEF TokensOK, NoneAwaited

\* A token that was awaited leaves the queue.
LEMMA TokenTaken ==
    ASSUME NEW r, NEW M, NEW T \in Seq(Jobs), TokensOK(r, M, T), T # <<>>,
           Head(T).kind = "token", Head(T).closes = r.closes
    PROVE  NoneAwaited(r, M, Tail(T)) /\ r.state = "Starting"
<1>1. Awaited(Tail(T), r.closes) = {}
  BY RestAwaited DEF TokensOK
<1>2. 1 \in Awaited(T, r.closes)
  BY QueueRest DEF Awaited
<1> QED
  BY <1>1, <1>2 DEF TokensOK, NoneAwaited

LEMMA TokensNone ==
    ASSUME NEW r, NEW s, NEW M, NEW T, TokensOK(r, M, T), NoneAwaited(r, M, T),
           s.closes = r.closes, s.fetches = r.fetches
    PROVE  TokensOK(s, M, T)
  BY DEF TokensOK, NoneAwaited, AwaitedFetches

\* A token goes from Auth to the main queue,
LEMMA TokenAnswered ==
    ASSUME NEW r \in Stream, NEW M \in Seq(Messages), NEW T \in Seq(Jobs), TokensOK(r, M, T),
           NEW f \in r.fetches, NEW t \in Tokens, t.closes = f.closes,
           NEW s, s = [r EXCEPT !.fetches = @ \ {f}]
    PROVE  TokensOK(s, Append(M, t), T)
<1>1. s.closes = r.closes /\ s.fetches = r.fetches \ {f} /\ s.state = r.state
  BY DEF Stream
<1>2. t \in Messages /\ t.kind = "token" /\ t.closes <= r.closes
  BY DEF Messages, Tokens, TokensOK
<1> DEFINE c == Append(M, t)
<1>3. /\ Older(c, r.closes)
      /\ t.closes # r.closes => Awaited(c, r.closes) = Awaited(M, r.closes)
      /\ Awaited(M, r.closes) = {} => \A i, j \in Awaited(c, r.closes) : i = j
  BY <1>2, MoreAwaited DEF TokensOK
<1> HIDE DEF c
<1>4. CASE f.closes = r.closes
  <2>1. AwaitedFetches(r) = {f} /\ r.state = "Starting"
        /\ Awaited(M, r.closes) = {} /\ Awaited(T, r.closes) = {}
    <3>1. f \in AwaitedFetches(r)
      BY <1>4 DEF AwaitedFetches
    <3> QED
      BY <3>1 DEF TokensOK, NoneAwaited
  <2>2. AwaitedFetches(s) = {}
    BY <1>1, <2>1 DEF AwaitedFetches
  <2> QED
    BY <1>1, <1>3, <2>1, <2>2 DEF TokensOK, NoneAwaited, c
<1>5. CASE f.closes # r.closes
  <2>1. Awaited(c, r.closes) = Awaited(M, r.closes)
    BY <1>3, <1>5
  <2>2. AwaitedFetches(s) = AwaitedFetches(r)
    BY <1>1, <1>5 DEF AwaitedFetches
  <2> QED
    BY <1>1, <1>3, <2>1, <2>2 DEF TokensOK, NoneAwaited, c
<1> QED
  BY <1>4, <1>5

\* and from there to the worker.
LEMMA TokenHeard ==
    ASSUME NEW r \in Stream, NEW M \in Seq(Messages), NEW T \in Seq(Jobs), TokensOK(r, M, T),
           M # <<>>, Head(M) \in Tokens, NEW t \in Tokens, t.closes = Head(M).closes
    PROVE  TokensOK(r, Tail(M), Append(T, t))
<1> DEFINE c == Append(T, t)
           d == Tail(M)
<1>1. t \in Jobs /\ t.kind = "token" /\ Head(M).kind = "token"
  BY DEF Jobs, Tokens
<1>2. 1 \in DOMAIN M /\ Head(M) = M[1]
  BY QueueRest
<1>3. t.closes <= r.closes
  BY <1>1, <1>2 DEF TokensOK, Older
<1>4. /\ Older(c, r.closes)
      /\ t.closes # r.closes => Awaited(c, r.closes) = Awaited(T, r.closes)
      /\ Awaited(T, r.closes) = {} => \A i, j \in Awaited(c, r.closes) : i = j
  BY <1>1, <1>3, MoreAwaited DEF TokensOK
<1>5. /\ Older(d, r.closes)
      /\ Awaited(M, r.closes) = {} => Awaited(d, r.closes) = {}
      /\ \A i, j \in Awaited(d, r.closes) : i = j
      /\ t.closes = r.closes => Awaited(d, r.closes) = {}
  BY <1>1, RestAwaited DEF TokensOK
<1>6. t.closes = r.closes => 1 \in Awaited(M, r.closes)
  BY <1>1, <1>2 DEF Awaited
<1> HIDE DEF c, d
<1>7. CASE t.closes = r.closes
  <2>1. AwaitedFetches(r) = {} /\ Awaited(T, r.closes) = {} /\ r.state = "Starting"
    BY <1>6, <1>7 DEF TokensOK, NoneAwaited
  <2> QED
    BY <1>4, <1>5, <1>7, <2>1 DEF TokensOK, c, d
<1>8. CASE t.closes # r.closes
  <2>1. Awaited(c, r.closes) = Awaited(T, r.closes)
    BY <1>4, <1>8
  <2> QED
    BY <1>4, <1>5, <2>1 DEF TokensOK, NoneAwaited, c, d
<1> QED
  BY <1>7, <1>8

LEMMA TokenRead ==
    ASSUME NEW r \in Stream, NEW M, NEW T, TokensOK(r, M, T), NEW f \in r.fetches,
           NEW g, g.closes = f.closes, NEW s, s = [r EXCEPT !.fetches = (@ \ {f}) \union {g}]
    PROVE  TokensOK(s, M, T)
<1>1. s.closes = r.closes /\ s.fetches = (r.fetches \ {f}) \union {g} /\ s.state = r.state
  BY DEF Stream
<1>2. \A h \in s.fetches : h.closes <= r.closes
  BY <1>1 DEF TokensOK
<1>3. CASE f.closes = r.closes
  <2>1. AwaitedFetches(r) = {f}
    BY <1>3 DEF AwaitedFetches, TokensOK
  <2>2. AwaitedFetches(s) = {g}
    BY <1>1, <1>3, <2>1 DEF AwaitedFetches
  <2> QED
    BY <1>1, <1>2, <2>1, <2>2 DEF TokensOK, NoneAwaited
<1>4. CASE f.closes # r.closes
  <2>1. AwaitedFetches(s) = AwaitedFetches(r)
    BY <1>1, <1>4 DEF AwaitedFetches
  <2> QED
    BY <1>1, <1>2, <2>1 DEF TokensOK, NoneAwaited
<1> QED
  BY <1>3, <1>4

LEMMA TokensFresh ==
    ASSUME NEW M, NEW T, \A i \in DOMAIN M : M[i].kind # "token",
           \A i \in DOMAIN T : T[i].kind # "token"
    PROVE  TokensOK(FreshRemote, M, T)
  BY DEF TokensOK, NoneAwaited, Awaited, AwaitedFetches, Older, FreshRemote

LEMMA TokenStep ==
    ASSUME IInv, TokenInv, Next
    PROVE  TokenInv'
<1>1. /\ GoodStream(remote) /\ remote \in Stream
      /\ mainQ \in Seq(Messages) /\ tasks \in Seq(Jobs) /\ engine.user \in Users
      /\ TokensOK(remote, mainQ, tasks)
  BY DEF IInv, TypeOK, GoodStream, TokenInv
<1>2. \A u \in Users : store.queue[u] \in Seq(Batch) /\ Sorted(store.queue[u])
  BY Zenon DEF IInv, TypeOK, StoreOK
<1>3. store'.queue[engine.user] \in Seq(Batch) /\ Sorted(store'.queue[engine.user])
  <2>1. store' \in [queue : [Users -> Seq(Batch)], nextId : Nat] /\ StoreOK'
    BY StreamStep
  <2> QED
    BY <1>1, <2>1 DEF StoreOK

\* The queues lose or gain no token but what the stream's handlers are about.
<1>4. ASSUME NEW M2, NEW T2, NoMore(M2, mainQ, remote.closes), NoMore(T2, tasks, remote.closes)
      PROVE  TokensOK(remote, M2, T2)
  BY <1>1, <1>4, TokensLess
<1>5. /\ NoMore(mainQ, mainQ, remote.closes) /\ NoMore(tasks, tasks, remote.closes)
      /\ mainQ # <<>> => NoMore(Tail(mainQ), mainQ, remote.closes)
      /\ tasks # <<>> => NoMore(Tail(tasks), tasks, remote.closes)
  BY <1>1, NoMoreTokens
<1>6. /\ \A m \in Messages : m.kind # "token" => NoMore(Append(mainQ, m), mainQ, remote.closes)
      /\ \A m \in Jobs : m.kind # "token" => NoMore(Append(tasks, m), tasks, remote.closes)
  BY <1>1, NoMoreTokens
<1>7. /\ \A u \in Users : /\ Notice(u) \in Messages /\ Notice(u).kind # "token"
                          /\ Credential(u) \in Jobs /\ Credential(u).kind # "token"
      /\ \A w \in Writes : /\ Write(w) \in Jobs /\ Write(w).kind # "token"
                           /\ \A ok \in BOOLEAN : Reply(w, ok) \in Messages
                                                  /\ Reply(w, ok).kind # "token"
  BY Posted DEF Notice, Credential, Write, Reply
<1>8. mainQ # <<>> => Head(mainQ) \in Messages
  BY <1>1, QueueSteps
<1>9. tasks # <<>> => Head(tasks) \in Jobs /\ Tail(tasks) \in Seq(Jobs)
  BY <1>1, QueueSteps
<1>10. CASE \E w \in Writes : WriteMutations(w)
  <2>1. PICK w \in Writes : WriteMutations(w)
    BY <1>10
  <2>2. /\ tasks' = Append(tasks, Write(w)) /\ UNCHANGED <<mainQ, remote>>
    BY <2>1 DEF WriteMutations
  <2> QED
    BY <1>4, <1>5, <1>6, <1>7, <2>2 DEF TokenInv
<1>11. CASE \E u \in Users : ChangeUser(u)
  <2>1. PICK u \in Users : ChangeUser(u)
    BY <1>11
  <2>2. /\ mainQ' = Append(mainQ, Notice(u)) /\ UNCHANGED <<tasks, remote>>
    BY <2>1 DEF ChangeUser
  <2> QED
    BY <1>4, <1>5, <1>6, <1>7, <2>2 DEF TokenInv
<1>12. ASSUME NEW f \in remote.fetches, NEW ok \in BOOLEAN, AnswerToken(f, ok)
       PROVE  TokenInv'
  <2>1. f \in [counter : Nat, closes : Nat, read : BOOLEAN, as : Users]
    BY <1>1 DEF Stream
  <2>2. Token(f, ok) \in Tokens /\ Token(f, ok).closes = f.closes
    BY <2>1 DEF Token, Tokens
  <2>3. /\ remote' = [remote EXCEPT !.fetches = @ \ {f}]
        /\ mainQ' = Append(mainQ, Token(f, ok)) /\ tasks' = tasks
    BY <1>12 DEF AnswerToken
  <2> QED
    BY <1>1, <2>2, <2>3, TokenAnswered DEF TokenInv
<1>13. ASSUME NEW f \in remote.fetches, ReadUser(f)
       PROVE  TokenInv'
  <2> DEFINE g == [f EXCEPT !.read = TRUE, !.as = auth.user]
  <2>1. g.closes = f.closes
    BY <1>1 DEF Stream
  <2>2. /\ remote' = [remote EXCEPT !.fetches = (@ \ {f}) \union {g}]
        /\ UNCHANGED <<mainQ, tasks>>
    BY <1>13 DEF ReadUser
  <2> HIDE DEF g
  <2> QED
    BY <1>1, <2>1, <2>2, TokenRead DEF TokenInv
<1>14. CASE Auth \/ \E f \in remote.fetches : AnswerToken(f, FALSE)
  BY <1>12, <1>13, <1>14 DEF Auth
<1>15. CASE HearChange
  <2>1. /\ mainQ # <<>> /\ mainQ' = Tail(mainQ) /\ UNCHANGED remote
        /\ tasks' = Append(tasks, Credential(Head(mainQ).user)) /\ Head(mainQ).kind = "notice"
    BY <1>15 DEF HearChange
  <2>2. Head(mainQ).user \in Users
    BY <1>8, <2>1, MessageKinds
  <2> QED
    BY <1>4, <1>5, <1>6, <1>7, <2>1, <2>2 DEF TokenInv
<1>16. CASE HearToken
  <2> DEFINE ok == Head(mainQ).ok /\ Head(mainQ).counter = auth.counter
             t == [Head(mainQ) EXCEPT !.ok = ok]
  <2>1. Head(mainQ) \in Tokens /\ mainQ # <<>>
    BY <1>8, <1>16, MessageKinds DEF HearToken
  <2>2. /\ mainQ' = Tail(mainQ) /\ tasks' = Append(tasks, t) /\ UNCHANGED remote
    <3>1. [Head(mainQ) EXCEPT !.ok = @ /\ Head(mainQ).counter = auth.counter] = t
      BY <2>1 DEF Tokens
    <3> HIDE DEF t
    <3> QED
      BY <1>16, <3>1 DEF HearToken
  <2>3. ok \in BOOLEAN
    OBVIOUS
  <2> HIDE DEF ok
  <2>4. t \in Tokens /\ t.closes = Head(mainQ).closes
    BY <2>1, <2>3 DEF Tokens
  <2> HIDE DEF t
  <2> QED
    BY <1>1, <2>1, <2>2, <2>4, TokenHeard DEF TokenInv
<1>17. CASE RunHandler
  BY <1>4, <1>5, <1>17 DEF RunHandler, TokenInv
<1>18. CASE WriteLocally
  <2>1. /\ tasks # <<>> /\ tasks' = Tail(tasks) /\ UNCHANGED mainQ
        /\ remote' = FillWritePipeline(remote, store'.queue[engine.user], auth.counter)
    BY <1>18 DEF WriteLocally, Task
  <2>2. TokensOK(remote, mainQ, Tail(tasks))
    BY <1>4, <1>5, <2>1
  <2> QED
    BY <1>1, <1>3, <2>1, <2>2, TokensFilled DEF TokenInv
<1>19. CASE HandleCredentialChange
  <2> DEFINE u == Head(tasks).user
             r == [Stop(remote) EXCEPT !.pipeline = <<>>]
  <2>1. /\ tasks # <<>> /\ tasks' = Tail(tasks) /\ UNCHANGED mainQ
        /\ Head(tasks).kind = "credential"
        /\ remote' = FillWritePipeline(r, store.queue[u], auth.counter)
    BY <1>19 DEF HandleCredentialChange, Task
  <2>2. u \in Users
    BY <1>9, <2>1, JobKinds
  <2> HIDE DEF u
  <2>3. TokensOK(remote, mainQ, Tail(tasks))
    BY <1>4, <1>5, <2>1
  <2>4. TokensOK(Stop(remote), mainQ, Tail(tasks)) /\ Stop(remote) \in Stream
    BY <1>1, <1>9, <2>1, <2>3, TokensStopped
  <2>5. GoodStream(r)
    <3>1. Stop(remote).hello = "none" /\ GoodStream(Stop(remote))
      BY <1>1, StopGood
    <3>2. <<>> \in Seq(Batch)
      OBVIOUS
    <3> QED
      BY <3>1, <3>2, PipelineGood
  <2>6. r.closes = Stop(remote).closes /\ r.fetches = Stop(remote).fetches
        /\ r.state = Stop(remote).state
    BY <2>4 DEF Stream
  <2> HIDE DEF r
  <2>7. TokensOK(r, mainQ, Tail(tasks))
    BY <2>4, <2>6, TokensSame
  <2> QED
    BY <1>2, <2>1, <2>2, <2>5, <2>7, TokensFilled DEF TokenInv
<1>20. CASE ResumeStart
  <2> DEFINE t == Head(tasks)
  <2>1. tasks # <<>> /\ tasks' = Tail(tasks) /\ UNCHANGED mainQ /\ t.kind = "token"
    BY <1>20 DEF ResumeStart, Task
  <2>2. TokensOK(remote, mainQ, Tail(tasks))
    BY <1>4, <1>5, <2>1
  <2>3. CASE UNCHANGED remote
    BY <2>1, <2>2, <2>3 DEF TokenInv
  <2>4. CASE t.closes = remote.closes /\
             remote' = [remote EXCEPT !.state = "Open", !.hello = "sent",
                                      !.idle = FALSE, !.as = t.as]
    <3>1. NoneAwaited(remote, mainQ, Tail(tasks))
      BY <1>1, <2>1, <2>4, TokenTaken
    <3>2. remote'.closes = remote.closes /\ remote'.fetches = remote.fetches
      BY <1>1, <2>4 DEF Stream
    <3> QED
      BY <2>1, <2>2, <3>1, <3>2, TokensNone DEF TokenInv
  <2>5. CASE remote' = StartWriteStream(Closed(remote, "Error"), auth.counter)
    BY <1>1, <1>9, <2>1, <2>2, <2>5, TokensClosed, TokensStarted DEF TokenInv
  <2> HIDE DEF t
  <2> QED
    BY <1>20, <2>3, <2>4, <2>5 DEF ResumeStart, t
<1>21. CASE BackoffElapsed
  BY <1>1, <1>21, TokensRequested DEF BackoffElapsed, TokenInv
<1>22. CASE IdleTimeout
  <2>1. remote' = StartWriteStream(Stop(remote), auth.counter) /\ UNCHANGED <<mainQ, tasks>>
    BY <1>22 DEF IdleTimeout
  <2> QED
    BY <1>1, <2>1, TokensStopped, TokensStarted DEF TokenInv
<1>23. CASE StreamBreaks
  <2>1. /\ remote' = StartWriteStream(Closed(remote, "Error"), auth.counter)
        /\ UNCHANGED <<mainQ, tasks>>
    BY <1>23 DEF StreamBreaks
  <2> QED
    BY <1>1, <2>1, TokensClosed, TokensStarted DEF TokenInv
<1>24. CASE CompleteHandshake
  <2>1. /\ remote'.closes = remote.closes /\ remote'.fetches = remote.fetches
        /\ remote'.state = remote.state /\ UNCHANGED <<mainQ, tasks>>
    BY <1>1, <1>24 DEF CompleteHandshake, Stream
  <2> QED
    BY <1>1, <2>1, TokensSame DEF TokenInv
<1>25. CASE Server
  <2>1. /\ remote'.closes = remote.closes /\ remote'.fetches = remote.fetches
        /\ remote'.state = remote.state
    BY <1>1, <1>25 DEF Server, ServerGreets, ServerCommits, ServerRefuses, Stream
  <2>2. UNCHANGED <<mainQ, tasks>>
    BY <1>25 DEF Server, ServerGreets, ServerCommits, ServerRefuses
  <2> QED
    BY <1>1, <2>1, <2>2, TokensSame DEF TokenInv

\* The callbacks of a batch post answers to the main queue.
<1>26. ASSUME NEW ok \in BOOLEAN, NEW calls, calls \subseteq engine.callbacks,
              \/ calls = {} /\ UNCHANGED mainQ
              \/ \E c \in calls : mainQ' = Append(mainQ, Reply(c.w, ok))
       PROVE  NoMore(mainQ', mainQ, remote.closes) /\ mainQ' \in Seq(Messages)
  <2>1. \A c \in calls : c.w \in Writes
    BY <1>26 DEF IInv, TypeOK
  <2>2. \A m \in Messages : Append(mainQ, m) \in Seq(Messages)
    BY <1>1, QueueSteps
  <2> QED
    BY <1>1, <1>5, <1>6, <1>7, <1>26, <2>1, <2>2
<1>27. CASE MutationResult
  <2>1. UNCHANGED tasks
    BY <1>27 DEF MutationResult
  <2>2. CASE UNCHANGED <<mainQ, remote>>
    BY <1>1, <2>1, <2>2 DEF TokenInv
  <2>3. CASE remote.pipeline # <<>>
    <3> DEFINE calls == {c \in engine.callbacks : c.user = engine.user
                                                    /\ c.id = Head(remote.pipeline).id}
    <3>1. /\ remote' = [remote EXCEPT !.inbox = @ - 1, !.pipeline = Tail(@)]
          /\ \/ calls = {} /\ UNCHANGED mainQ
             \/ \E c \in calls : mainQ' = Append(mainQ, Reply(c.w, TRUE))
      BY <1>27, <2>3 DEF MutationResult
    <3>2. calls \subseteq engine.callbacks
      OBVIOUS
    <3> HIDE DEF calls
    <3>3. NoMore(mainQ', mainQ, remote.closes)
      BY <1>26, <3>1, <3>2
    <3>4. /\ remote'.closes = remote.closes /\ remote'.fetches = remote.fetches
          /\ remote'.state = remote.state
      BY <1>1, <3>1 DEF Stream
    <3>5. TokensOK(remote, mainQ', tasks)
      BY <1>4, <1>5, <3>3
    <3> QED
      BY <2>1, <3>4, <3>5, TokensSame DEF TokenInv
  <2> QED
    BY <1>27, <2>2, <2>3 DEF MutationResult
<1>28. CASE AcknowledgeBatch
  <2>1. /\ UNCHANGED <<mainQ, tasks>>
        /\ remote' = FillWritePipeline(remote, store'.queue[engine.user], auth.counter)
    BY <1>28 DEF AcknowledgeBatch
  <2> QED
    BY <1>1, <1>3, <2>1, TokensFilled DEF TokenInv
<1>29. CASE HandleWriteError
  <2> DEFINE calls == {c \in engine.callbacks : c.user = engine.user
                                                  /\ c.id = Head(remote.pipeline).id}
             c == Closed(remote, "Initial")
             r == [c EXCEPT !.pipeline = Tail(@)]
  <2>1. /\ UNCHANGED tasks /\ remote.pipeline # <<>>
        /\ remote' = FillWritePipeline(r, store'.queue[engine.user], auth.counter)
        /\ \/ calls = {} /\ UNCHANGED mainQ
           \/ \E b \in calls : mainQ' = Append(mainQ, Reply(b.w, FALSE))
    BY <1>29 DEF HandleWriteError
  <2>2. calls \subseteq engine.callbacks
    OBVIOUS
  <2> HIDE DEF calls
  <2>3. NoMore(mainQ', mainQ, remote.closes) /\ mainQ' \in Seq(Messages)
    BY <1>26, <2>1, <2>2
  <2>4. TokensOK(remote, mainQ', tasks)
    BY <1>4, <1>5, <2>3
  <2>5. TokensOK(c, mainQ', tasks) /\ c \in Stream
    BY <1>1, <2>3, <2>4, TokensClosed
  <2>6. GoodStream(c) /\ c.hello = "none" /\ c.pipeline = remote.pipeline
    BY <1>1, ClosedGood, ClosedLine
  <2>7. Tail(c.pipeline) \in Seq(Batch)
    BY <1>1, <2>1, <2>6, HeadTailProperties DEF Stream
  <2> HIDE DEF c
  <2>8. GoodStream(r) /\ r.closes = c.closes /\ r.fetches = c.fetches /\ r.state = c.state
    BY <2>5, <2>6, <2>7, PipelineGood DEF Stream
  <2> HIDE DEF r
  <2>9. TokensOK(r, mainQ', tasks)
    BY <2>5, <2>8, TokensSame
  <2> QED
    BY <1>3, <2>1, <2>8, <2>9, TokensFilled DEF TokenInv
<1>30. CASE \E u \in Users : Restart(u)
  <2>1. PICK u \in Users : Restart(u)
    BY <1>30
  <2>2. /\ mainQ' = IF auth.user = Nobody THEN <<>> ELSE <<Notice(auth.user)>>
        /\ tasks' = <<>>
        /\ remote' = FillWritePipeline(FreshRemote, store.queue[u], 0)
    BY <2>1 DEF Restart
  <2>3. \A i \in DOMAIN mainQ' : mainQ'[i].kind # "token"
    BY <2>2 DEF Notice
  <2>4. TokensOK(FreshRemote, mainQ', tasks')
    BY <2>2, <2>3, TokensFresh
  <2> QED
    BY <1>2, <2>2, <2>4, FreshGood, TokensFilled DEF TokenInv
<1> QED
  BY <1>10, <1>11, <1>14, <1>15, <1>16, <1>17, <1>18, <1>19, <1>20, <1>21, <1>22, <1>23,
     <1>24, <1>25, <1>27, <1>28, <1>29, <1>30 DEF Next, Worker, Main

-----------------------------------------------------------------------------
(* Users on their way to the stream.                                       *)

None(q, kind) == \A i \in DOMAIN q : q[i].kind # kind
NoneBefore(q, n, kind) == \A i \in DOMAIN q : i < n => q[i].kind # kind

\* v is the user of the last message of a kind, or u if there is none.
Ends(q, kind, u, v) ==
    \/ None(q, kind) /\ v = u
    \/ \E i \in DOMAIN q : /\ q[i].kind = kind /\ q[i].user = v
                           /\ \A j \in DOMAIN q : i < j => q[j].kind # kind

\* h is the user the credentials provider heard of last: the worker is going to be
\* at h, and the main queue has the notices of what Auth did since. A token that was
\* read since the provider last heard of a change is of h unless a change is still
\* before it; and the token the stream waits for, unless a change is
\* before it, is of the worker's user, as the stream in use is.
UserOK(r, M, T, a, e, h) ==
    /\ Ends(T, "credential", e, h) /\ Ends(M, "notice", h, a.user)
    /\ \A f \in r.fetches :
          /\ f.counter <= a.counter
          /\ f.read /\ f.counter = a.counter /\ None(M, "notice") => f.as = h
    /\ \A i \in DOMAIN M : M[i].kind = "token" =>
          /\ M[i].counter <= a.counter
          /\ M[i].counter = a.counter /\ NoneBefore(M, i, "notice") => M[i].as = h
    /\ \A i \in Awaited(T, r.closes) :
          T[i].ok /\ NoneBefore(T, i, "credential") => T[i].as = e
    /\ r.state = "Open" => r.as = e

UserInv == \E h \in Users : UserOK(remote, mainQ, tasks, auth, engine.user, h)

LEMMA EndsMore ==
    ASSUME NEW S, NEW q \in Seq(S), NEW m \in S, NEW kind, NEW u, NEW v
    PROVE  /\ Ends(q, kind, u, v) /\ m.kind # kind => Ends(Append(q, m), kind, u, v)
           /\ m.kind = kind => Ends(Append(q, m), kind, u, m.user)
           /\ None(Append(q, m), kind) <=> None(q, kind) /\ m.kind # kind
           /\ \A i \in DOMAIN q : NoneBefore(Append(q, m), i, kind) => NoneBefore(q, i, kind)
           /\ NoneBefore(Append(q, m), Len(q) + 1, kind) <=> None(q, kind)
<1> DEFINE c == Append(q, m)
<1>1. /\ Len(q) + 1 \notin DOMAIN q /\ c[Len(q) + 1] = m
      /\ DOMAIN c = DOMAIN q \cup {Len(q) + 1}
      /\ \A i \in DOMAIN q : c[i] = q[i] /\ i \in Nat /\ i < Len(q) + 1
  BY QueueMore
<1>2. Len(q) \in Nat
  BY LenProperties
<1> HIDE DEF c
<1>3. \A i \in DOMAIN q : ~(Len(q) + 1 < i)
  BY <1>1, <1>2
<1>4. None(c, kind) <=> None(q, kind) /\ m.kind # kind
  BY <1>1 DEF None
<1>5. \A i \in DOMAIN q : NoneBefore(c, i, kind) => NoneBefore(q, i, kind)
  BY <1>1 DEF NoneBefore
<1>6. NoneBefore(c, Len(q) + 1, kind) <=> None(q, kind)
  BY <1>1, <1>2 DEF NoneBefore, None
<1>7. m.kind = kind => Ends(c, kind, u, m.user)
  <2>1. \A j \in DOMAIN c : ~(Len(q) + 1 < j)
    BY <1>1, <1>2, <1>3
  <2> QED
    BY <1>1, <2>1 DEF Ends
<1>8. ASSUME Ends(q, kind, u, v), m.kind # kind PROVE Ends(c, kind, u, v)
  <2>1. CASE None(q, kind) /\ v = u
    BY <1>4, <1>8, <2>1 DEF Ends
  <2>2. CASE \E i \in DOMAIN q : /\ q[i].kind = kind /\ q[i].user = v
                                 /\ \A j \in DOMAIN q : i < j => q[j].kind # kind
    <3>1. PICK i \in DOMAIN q : /\ q[i].kind = kind /\ q[i].user = v
                                /\ \A j \in DOMAIN q : i < j => q[j].kind # kind
      BY <2>2
    <3>2. \A j \in DOMAIN c : i < j => c[j].kind # kind
      BY <1>1, <1>8, <3>1
    <3> QED
      BY <1>1, <3>1, <3>2 DEF Ends
  <2> QED
    BY <1>8, <2>1, <2>2 DEF Ends
<1> QED
  BY <1>4, <1>5, <1>6, <1>7, <1>8 DEF c

LEMMA EndsRest ==
    ASSUME NEW S, NEW q \in Seq(S), q # <<>>, NEW kind, NEW u, NEW v
    PROVE  /\ Ends(q, kind, u, v) /\ Head(q).kind # kind => Ends(Tail(q), kind, u, v)
           /\ Ends(q, kind, u, v) /\ Head(q).kind = kind =>
                 Ends(Tail(q), kind, Head(q).user, v)
           /\ Head(q).kind # kind /\ None(Tail(q), kind) => None(q, kind)
           /\ \A i \in DOMAIN Tail(q) :
                 Head(q).kind # kind /\ NoneBefore(Tail(q), i, kind)
                     => NoneBefore(q, i + 1, kind)
<1> DEFINE t == Tail(q)
<1>1. 1 \in DOMAIN q /\ Head(q) = q[1]
  BY QueueRest
<1>2. \A i \in DOMAIN t : i \in Nat /\ i + 1 \in DOMAIN q /\ i + 1 # 1 /\ t[i] = q[i + 1]
  BY QueueRest
<1>3. \A i \in DOMAIN q : i = 1 \/ (i - 1 \in DOMAIN t /\ i \in Nat /\ t[i - 1] = q[i] /\ 1 < i)
  <2>1. DOMAIN q = 1..Len(q) /\ Len(q) \in Nat
    BY LenProperties
  <2>2. t \in Seq(S) /\ Len(t) = Len(q) - 1
    BY HeadTailProperties
  <2>3. DOMAIN t = 1..(Len(q) - 1)
    BY <2>2, LenProperties
  <2> HIDE DEF t
  <2>4. \A i \in DOMAIN q : i = 1 \/ (i - 1 \in DOMAIN t /\ i \in Nat /\ 1 < i)
    BY <2>1, <2>3
  <2> SUFFICES ASSUME NEW i \in DOMAIN q, i # 1 PROVE t[i - 1] = q[i]
    BY <2>4
  <2>5. i - 1 + 1 = i
    BY <2>4
  <2> QED
    BY <1>2, <2>4, <2>5
<1> HIDE DEF t
<1>4. ASSUME Head(q).kind # kind, None(t, kind) PROVE None(q, kind)
  BY <1>1, <1>3, <1>4 DEF None
<1>5. ASSUME NEW n \in DOMAIN t, Head(q).kind # kind, NoneBefore(t, n, kind)
      PROVE  NoneBefore(q, n + 1, kind)
  <2> SUFFICES ASSUME NEW i \in DOMAIN q, i < n + 1 PROVE q[i].kind # kind
    BY DEF NoneBefore
  <2>1. CASE i = 1
    BY <1>1, <1>5, <2>1
  <2>2. CASE i # 1
    <3>1. i - 1 \in DOMAIN t /\ t[i - 1] = q[i] /\ i - 1 < n
      BY <1>2, <1>3, <2>2
    <3> QED
      BY <1>5, <3>1 DEF NoneBefore
  <2> QED
    BY <2>1, <2>2
<1>6. ASSUME NEW i \in DOMAIN q, i # 1, q[i].kind = kind, q[i].user = v,
             \A j \in DOMAIN q : i < j => q[j].kind # kind, NEW w
      PROVE  Ends(t, kind, w, v)
  <2>1. i - 1 \in DOMAIN t /\ t[i - 1] = q[i] /\ i \in Nat
    BY <1>3, <1>6
  <2>2. ASSUME NEW j \in DOMAIN t, i - 1 < j PROVE t[j].kind # kind
    <3>1. i < j + 1 /\ j + 1 \in DOMAIN q /\ t[j] = q[j + 1]
      BY <1>2, <2>1, <2>2
    <3> QED
      BY <1>6, <3>1
  <2> QED
    BY <1>6, <2>1, <2>2 DEF Ends
<1>7. None(q, kind) => None(t, kind) /\ Head(q).kind # kind
  BY <1>1, <1>2 DEF None
<1>8. ASSUME Ends(q, kind, u, v), Head(q).kind # kind PROVE Ends(t, kind, u, v)
  <2>1. CASE None(q, kind) /\ v = u
    BY <1>7, <2>1 DEF Ends
  <2>2. CASE ~None(q, kind) \/ v # u
    <3>1. PICK i \in DOMAIN q : /\ q[i].kind = kind /\ q[i].user = v
                                /\ \A j \in DOMAIN q : i < j => q[j].kind # kind
      BY <1>8, <2>2 DEF Ends
    <3> QED
      BY <1>1, <1>6, <1>8, <3>1
  <2> QED
    BY <2>1, <2>2
<1>9. ASSUME Ends(q, kind, u, v), Head(q).kind = kind
      PROVE  Ends(t, kind, Head(q).user, v)
  <2>1. PICK i \in DOMAIN q : /\ q[i].kind = kind /\ q[i].user = v
                              /\ \A j \in DOMAIN q : i < j => q[j].kind # kind
    BY <1>7, <1>9 DEF Ends
  <2>2. CASE i # 1
    BY <1>6, <2>1, <2>2
  <2>3. CASE i = 1
    <3>1. \A j \in DOMAIN t : i < j + 1
      BY <1>2, <2>3
    <3>2. None(t, kind)
      BY <1>2, <2>1, <3>1 DEF None
    <3> QED
      BY <1>1, <2>1, <2>3, <3>2 DEF Ends
  <2> QED
    BY <2>2, <2>3
<1> QED
  BY <1>4, <1>5, <1>8, <1>9 DEF t

\* The stream changes, and the queues do not.
LEMMA UserSame ==
    ASSUME NEW r, NEW s, NEW M, NEW T, NEW a, NEW e, NEW h, UserOK(r, M, T, a, e, h),
           s.closes = r.closes, s.fetches \subseteq r.fetches,
           s.state = "Open" => r.state = "Open" /\ s.as = r.as
    PROVE  UserOK(s, M, T, a, e, h)
  BY DEF UserOK

LEMMA UserClosed ==
    ASSUME NEW r \in Stream, NEW s \in {"Initial", "Error"}, NEW M \in Seq(Messages),
           NEW T \in Seq(Jobs), TokensOK(r, M, T), NEW a, NEW e, NEW h,
           UserOK(r, M, T, a, e, h)
    PROVE  UserOK(Closed(r, s), M, T, a, e, h)
<1> DEFINE c == Closed(r, s)
<1>1. c.fetches = r.fetches /\ c.state # "Open"
  BY DEF Closed, NoLink, Stream
<1>2. Awaited(T, c.closes) = {}
  BY TokensClosed DEF NoneAwaited
<1> HIDE DEF c
<1> QED
  BY <1>1, <1>2 DEF UserOK, c

LEMMA UserStopped ==
    ASSUME NEW r \in Stream, NEW M \in Seq(Messages), NEW T \in Seq(Jobs),
           TokensOK(r, M, T), NEW a, NEW e, NEW h, UserOK(r, M, T, a, e, h)
    PROVE  UserOK(Stop(r), M, T, a, e, h) /\ Stop(r).state # "Open"
<1>1. CASE IsStarted(r)
  <2>1. Closed(r, "Initial").state # "Open"
    BY DEF Closed, NoLink, Stream
  <2> QED
    BY <1>1, <2>1, UserClosed DEF Stop
<1>2. CASE ~IsStarted(r)
  BY <1>2 DEF Stop, IsStarted
<1> QED
  BY <1>1, <1>2

LEMMA UserRequested ==
    ASSUME NEW r \in Stream, NEW M, NEW T, NEW a, a.counter \in Nat, NEW e, NEW h,
           UserOK(r, M, T, a, e, h)
    PROVE  UserOK(RequestCredentials(r, a.counter), M, T, a, e, h)
<1> DEFINE f == [counter |-> a.counter, closes |-> r.closes, read |-> FALSE, as |-> Nobody]
           s == RequestCredentials(r, a.counter)
<1>1. s.closes = r.closes /\ s.fetches = r.fetches \union {f} /\ s.state = "Starting"
      /\ f.counter <= a.counter /\ ~f.read
  BY DEF RequestCredentials, Stream
<1> HIDE DEF f, s
<1> QED
  BY <1>1 DEF UserOK, s

LEMMA UserStarted ==
    ASSUME NEW r \in Stream, NEW M, NEW T, NEW a, a.counter \in Nat, NEW e, NEW h,
           UserOK(r, M, T, a, e, h)
    PROVE  UserOK(StartWriteStream(r, a.counter), M, T, a, e, h)
<1>1. CASE IsStarted(r) \/ r.pipeline = <<>>
  BY <1>1 DEF StartWriteStream
<1>2. CASE ~(IsStarted(r) \/ r.pipeline = <<>>)
  <2>1. CASE r.state = "Error"
    <3>1. StartWriteStream(r, a.counter) = [r EXCEPT !.state = "Backoff"]
      BY <1>2, <2>1 DEF StartWriteStream
    <3>2. [r EXCEPT !.state = "Backoff"].state = "Backoff"
          /\ [r EXCEPT !.state = "Backoff"].closes = r.closes
          /\ [r EXCEPT !.state = "Backoff"].fetches = r.fetches
      BY DEF Stream
    <3> QED
      BY <3>1, <3>2, UserSame
  <2>2. CASE r.state # "Error"
    <3>1. StartWriteStream(r, a.counter) = RequestCredentials(r, a.counter)
      BY <1>2, <2>2 DEF StartWriteStream
    <3> QED
      BY <3>1, UserRequested
  <2> QED
    BY <2>1, <2>2
<1> QED
  BY <1>1, <1>2

LEMMA UserFilled ==
    ASSUME NEW r, GoodStream(r), NEW q \in Seq(Batch), Sorted(q), NEW M, NEW T,
           NEW a, a.counter \in Nat, NEW e, NEW h, UserOK(r, M, T, a, e, h)
    PROVE  UserOK(FillWritePipeline(r, q, a.counter), M, T, a, e, h)
<1> DEFINE s == Filled(r, q)
<1>1. s.closes = r.closes /\ s.fetches = r.fetches /\ s.state = r.state /\ s.as = r.as
  BY DEF Filled, GoodStream, Stream
<1>2. s \in Stream
  BY FilledGood DEF GoodStream
<1> HIDE DEF s
<1>3. UserOK(s, M, T, a, e, h)
  BY <1>1, UserSame
<1>4. FillWritePipeline(r, q, a.counter) = StartWriteStream(s, a.counter)
  BY FillStarts DEF s
<1> QED
  BY <1>2, <1>3, <1>4, UserStarted

\* A message that is neither a token nor a notice comes to the main queue or leaves it.
LEMMA UserPosted ==
    ASSUME NEW r, NEW M \in Seq(Messages), NEW T, NEW a, NEW e, NEW h,
           UserOK(r, M, T, a, e, h), NEW m \in Messages, m.kind \notin {"token", "notice"}
    PROVE  UserOK(r, Append(M, m), T, a, e, h)
<1> DEFINE c == Append(M, m)
<1>1. /\ Ends(c, "notice", h, a.user)
      /\ None(c, "notice") => None(M, "notice")
      /\ \A i \in DOMAIN M : NoneBefore(c, i, "notice") => NoneBefore(M, i, "notice")
  BY EndsMore DEF UserOK
<1>2. \A i \in DOMAIN c : c[i].kind = "token" => i \in DOMAIN M /\ c[i] = M[i]
  BY QueueMore
<1> HIDE DEF c
<1> QED
  BY <1>1, <1>2 DEF UserOK, c

LEMMA UserMainRest ==
    ASSUME NEW r, NEW M \in Seq(Messages), M # <<>>, NEW T, NEW a, NEW e, NEW h,
           UserOK(r, M, T, a, e, h), Head(M).kind # "notice"
    PROVE  UserOK(r, Tail(M), T, a, e, h)
<1> DEFINE c == Tail(M)
<1>1. /\ Ends(c, "notice", h, a.user)
      /\ None(c, "notice") => None(M, "notice")
      /\ \A i \in DOMAIN c : NoneBefore(c, i, "notice") => NoneBefore(M, i + 1, "notice")
  BY EndsRest DEF UserOK
<1>2. \A i \in DOMAIN c : i + 1 \in DOMAIN M /\ c[i] = M[i + 1]
  BY QueueRest
<1> HIDE DEF c
<1> QED
  BY <1>1, <1>2 DEF UserOK, c

\* A job that is no token comes to the worker queue; any but a change of user leaves it.
LEMMA UserTask ==
    ASSUME NEW r, NEW M, NEW T \in Seq(Jobs), NEW a, NEW e, NEW h,
           UserOK(r, M, T, a, e, h), NEW m \in Jobs, m.kind \notin {"token", "credential"}
    PROVE  UserOK(r, M, Append(T, m), a, e, h)
<1> DEFINE c == Append(T, m)
<1>1. /\ Ends(c, "credential", e, h)
      /\ \A i \in DOMAIN T : NoneBefore(c, i, "credential") => NoneBefore(T, i, "credential")
  BY EndsMore DEF UserOK
<1>2. \A i \in Awaited(c, r.closes) : i \in Awaited(T, r.closes) /\ i \in DOMAIN T /\ c[i] = T[i]
  BY QueueMore DEF Awaited
<1> HIDE DEF c
<1> QED
  BY <1>1, <1>2 DEF UserOK, c

LEMMA UserRest ==
    ASSUME NEW r, NEW M, NEW T \in Seq(Jobs), T # <<>>, NEW a, NEW e, NEW h,
           UserOK(r, M, T, a, e, h), Head(T).kind # "credential"
    PROVE  UserOK(r, M, Tail(T), a, e, h)
<1> DEFINE c == Tail(T)
<1>1. /\ Ends(c, "credential", e, h)
      /\ \A i \in DOMAIN c : NoneBefore(c, i, "credential") => NoneBefore(T, i + 1, "credential")
  BY EndsRest DEF UserOK
<1>2. \A i \in Awaited(c, r.closes) :
          i \in DOMAIN c /\ i + 1 \in Awaited(T, r.closes) /\ c[i] = T[i + 1]
  BY QueueRest DEF Awaited
<1> HIDE DEF c
<1> QED
  BY <1>1, <1>2 DEF UserOK, c

\* Auth changes its user, and tells.
LEMMA UserChanged ==
    ASSUME NEW r, NEW M \in Seq(Messages), NEW T, NEW a, NEW e, NEW h,
           UserOK(r, M, T, a, e, h), NEW m \in Messages, m.kind = "notice",
           NEW b, b.user = m.user, b.counter = a.counter
    PROVE  UserOK(r, Append(M, m), T, b, e, h)
<1> DEFINE c == Append(M, m)
<1>1. /\ Ends(c, "notice", h, m.user) /\ ~None(c, "notice")
      /\ \A i \in DOMAIN M : NoneBefore(c, i, "notice") => NoneBefore(M, i, "notice")
  BY EndsMore
<1>2. \A i \in DOMAIN c : c[i].kind = "token" => i \in DOMAIN M /\ c[i] = M[i]
  BY QueueMore
<1> HIDE DEF c
<1> QED
  BY <1>1, <1>2 DEF UserOK, c

\* A request is read, when Auth's user is the one the provider hears of in the end,
LEMMA UserRead ==
    ASSUME NEW r \in Stream, NEW M, NEW T, NEW a, NEW e, NEW h,
           UserOK(r, M, T, a, e, h), NEW f \in r.fetches,
           NEW g, g.counter = f.counter, g.as = a.user,
           NEW s, s = [r EXCEPT !.fetches = (@ \ {f}) \union {g}]
    PROVE  UserOK(s, M, T, a, e, h)
<1>1. s.closes = r.closes /\ s.fetches = (r.fetches \ {f}) \union {g} /\ s.state = r.state
      /\ s.as = r.as
  BY DEF Stream
<1>2. ASSUME None(M, "notice") PROVE a.user = h
  BY <1>2 DEF UserOK, Ends, None
<1> QED
  BY <1>1, <1>2 DEF UserOK

\* and the token that was read is posted to the main queue,
LEMMA UserAnswered ==
    ASSUME NEW r \in Stream, NEW M \in Seq(Messages), NEW T, NEW a, NEW e, NEW h,
           UserOK(r, M, T, a, e, h), NEW f \in r.fetches, f.read, NEW t \in Tokens,
           t.as = f.as, t.counter = f.counter,
           NEW s, s = [r EXCEPT !.fetches = @ \ {f}]
    PROVE  UserOK(s, Append(M, t), T, a, e, h)
<1> DEFINE c == Append(M, t)
<1>1. s.closes = r.closes /\ s.fetches = r.fetches \ {f} /\ s.state = r.state /\ s.as = r.as
  BY DEF Stream
<1>2. t \in Messages /\ t.kind = "token"
  BY DEF Messages, Tokens
<1>3. /\ Ends(c, "notice", h, a.user)
      /\ None(c, "notice") => None(M, "notice")
      /\ \A i \in DOMAIN M : NoneBefore(c, i, "notice") => NoneBefore(M, i, "notice")
      /\ NoneBefore(c, Len(M) + 1, "notice") => None(M, "notice")
  BY <1>2, EndsMore DEF UserOK
<1>4. \A i \in DOMAIN c : \/ i \in DOMAIN M /\ c[i] = M[i]
                          \/ i = Len(M) + 1 /\ c[i] = t
  BY <1>2, QueueMore
<1> HIDE DEF c
<1>5. \A i \in DOMAIN c : c[i].kind = "token" =>
          /\ c[i].counter <= a.counter
          /\ c[i].counter = a.counter /\ NoneBefore(c, i, "notice") => c[i].as = h
  <2> SUFFICES ASSUME NEW i \in DOMAIN c, c[i].kind = "token"
               PROVE  /\ c[i].counter <= a.counter
                      /\ c[i].counter = a.counter /\ NoneBefore(c, i, "notice") => c[i].as = h
    OBVIOUS
  <2>1. CASE i \in DOMAIN M /\ c[i] = M[i]
    BY <1>3, <2>1 DEF UserOK
  <2>2. CASE i = Len(M) + 1 /\ c[i] = t
    BY <1>3, <2>2 DEF UserOK
  <2> QED
    BY <1>4, <2>1, <2>2
<1> QED
  BY <1>1, <1>3, <1>5 DEF UserOK, c

\* which passes it to the worker, as good if the provider heard of no change since.
LEMMA UserHeard ==
    ASSUME NEW r, NEW M \in Seq(Messages), NEW T \in Seq(Jobs), NEW a, NEW e, NEW h,
           UserOK(r, M, T, a, e, h), M # <<>>, Head(M) \in Tokens, NEW t \in Tokens,
           t.as = Head(M).as, t.ok => Head(M).counter = a.counter
    PROVE  UserOK(r, Tail(M), Append(T, t), a, e, h)
<1> DEFINE c == Append(T, t)
<1>0. Head(M).kind = "token" /\ t \in Jobs /\ t.kind = "token"
  BY DEF Tokens, Jobs
<1>1. UserOK(r, Tail(M), T, a, e, h)
  BY <1>0, UserMainRest
<1>2. t.ok => t.as = h
  <2>1. 1 \in DOMAIN M /\ Head(M) = M[1]
    BY QueueRest
  <2>2. NoneBefore(M, 1, "notice")
    <3>1. DOMAIN M = 1..Len(M) /\ Len(M) \in Nat
      BY LenProperties
    <3>2. \A i \in DOMAIN M : ~(i < 1)
      BY <3>1
    <3> QED
      BY <3>2 DEF NoneBefore
  <2> QED
    BY <1>0, <2>1, <2>2 DEF UserOK
<1>3. /\ Ends(c, "credential", e, h)
      /\ \A i \in DOMAIN T : NoneBefore(c, i, "credential") => NoneBefore(T, i, "credential")
      /\ NoneBefore(c, Len(T) + 1, "credential") => None(T, "credential")
  BY <1>0, EndsMore DEF UserOK
<1>4. \A i \in DOMAIN c : \/ i \in DOMAIN T /\ c[i] = T[i]
                          \/ i = Len(T) + 1 /\ c[i] = t
  BY <1>0, QueueMore
<1>5. None(T, "credential") => h = e
  BY DEF UserOK, Ends, None
<1> HIDE DEF c
<1>6. \A i \in Awaited(c, r.closes) :
          c[i].ok /\ NoneBefore(c, i, "credential") => c[i].as = e
  <2> SUFFICES ASSUME NEW i \in Awaited(c, r.closes), c[i].ok, NoneBefore(c, i, "credential")
               PROVE  c[i].as = e
    OBVIOUS
  <2>0. i \in DOMAIN c
    BY DEF Awaited
  <2>1. CASE i \in DOMAIN T /\ c[i] = T[i]
    <3>1. i \in Awaited(T, r.closes)
      BY <2>1 DEF Awaited
    <3> QED
      BY <1>3, <2>1, <3>1 DEF UserOK
  <2>2. CASE i = Len(T) + 1 /\ c[i] = t
    BY <1>2, <1>3, <1>5, <2>2
  <2> QED
    BY <1>4, <2>0, <2>1, <2>2
<1> QED
  BY <1>1, <1>3, <1>6 DEF UserOK, c

\* The provider hears of a change: whatever was read before no longer counts.
LEMMA UserNoticed ==
    ASSUME NEW r, NEW M \in Seq(Messages), M # <<>>, NEW T \in Seq(Jobs), NEW a,
           a.counter \in Nat,
           \A f \in r.fetches : f.counter \in Nat, NEW e, NEW h,
           UserOK(r, M, T, a, e, h), Head(M).kind = "notice",
           NEW m \in Jobs, m.kind = "credential", m.user = Head(M).user,
           NEW b, b.user = a.user, b.counter = a.counter + 1
    PROVE  UserOK(r, Tail(M), Append(T, m), b, e, m.user)
<1> DEFINE c == Append(T, m)
           d == Tail(M)
<1>1. Ends(d, "notice", m.user, b.user)
  BY EndsRest DEF UserOK
<1>2. /\ Ends(c, "credential", e, m.user)
      /\ \A i \in DOMAIN T : NoneBefore(c, i, "credential") => NoneBefore(T, i, "credential")
  BY EndsMore
<1>3. \A i \in Awaited(c, r.closes) : i \in Awaited(T, r.closes) /\ i \in DOMAIN T /\ c[i] = T[i]
  BY QueueMore DEF Awaited
<1>4. \A i \in DOMAIN d : i + 1 \in DOMAIN M /\ d[i] = M[i + 1]
  BY QueueRest
<1>5. \A i \in DOMAIN M : M[i].kind = "token" => M[i].counter \in Nat
  <2>1. \A i \in DOMAIN M : M[i] \in Messages
    BY ElementOfSeq, LenProperties
  <2> QED
    BY <2>1, MessageKinds DEF Tokens
<1> HIDE DEF c, d
<1>6. \A f \in r.fetches : f.counter <= b.counter /\ f.counter # b.counter
  <2>1. \A f \in r.fetches : f.counter <= a.counter
    BY DEF UserOK
  <2> QED
    BY <2>1
<1>7. \A i \in DOMAIN d : d[i].kind = "token" =>
          d[i].counter <= b.counter /\ d[i].counter # b.counter
  <2>1. \A i \in DOMAIN M : M[i].kind = "token" => M[i].counter <= a.counter
    BY DEF UserOK
  <2> QED
    BY <1>4, <1>5, <2>1
<1> QED
  BY <1>1, <1>2, <1>3, <1>6, <1>7 DEF UserOK, c, d

\* The worker comes to the next user, with no token to wait for and no stream in use.
LEMMA UserTaken ==
    ASSUME NEW r, NEW M, NEW T \in Seq(Jobs), T # <<>>, NEW a, NEW e, NEW h,
           UserOK(r, M, T, a, e, h), Head(T).kind = "credential",
           NEW s, s.fetches = r.fetches, s.state # "Open", Awaited(Tail(T), s.closes) = {}
    PROVE  UserOK(s, M, Tail(T), a, Head(T).user, h)
<1>1. Ends(Tail(T), "credential", Head(T).user, h)
  BY EndsRest DEF UserOK
<1> QED
  BY <1>1 DEF UserOK

LEMMA UserStep ==
    ASSUME IInv, TokenInv, UserInv, Next
    PROVE  UserInv'
<1>1. /\ GoodStream(remote) /\ remote \in Stream
      /\ mainQ \in Seq(Messages) /\ tasks \in Seq(Jobs) /\ engine.user \in Users
      /\ auth \in [user : Users, counter : Nat] /\ auth.counter \in Nat
      /\ engine \in [user : Users, acking : Seq(Batch),
                     callbacks : SUBSET [user : Users, id : Nat, w : Writes]]
      /\ TokensOK(remote, mainQ, tasks)
  BY DEF IInv, TypeOK, GoodStream, TokenInv
<1>2. \A u \in Users : store.queue[u] \in Seq(Batch) /\ Sorted(store.queue[u])
  BY Zenon DEF IInv, TypeOK, StoreOK
<1>3. store'.queue[engine.user] \in Seq(Batch) /\ Sorted(store'.queue[engine.user])
  <2>1. store' \in [queue : [Users -> Seq(Batch)], nextId : Nat] /\ StoreOK'
    BY StreamStep
  <2> QED
    BY <1>1, <2>1 DEF StoreOK
<1>4. PICK h \in Users : UserOK(remote, mainQ, tasks, auth, engine.user, h)
  BY DEF UserInv
<1>5. ASSUME UserOK(remote', mainQ', tasks', auth', engine'.user, h) PROVE UserInv'
  BY <1>4, <1>5 DEF UserInv
<1>6. /\ \A u \in Users : /\ Notice(u) \in Messages /\ Notice(u).kind = "notice"
                          /\ Notice(u).user = u
                          /\ Credential(u) \in Jobs /\ Credential(u).kind = "credential"
                          /\ Credential(u).user = u
      /\ \A w \in Writes : /\ Write(w) \in Jobs /\ Write(w).kind \notin {"token", "credential"}
                           /\ \A ok \in BOOLEAN :
                                 /\ Reply(w, ok) \in Messages
                                 /\ Reply(w, ok).kind \notin {"token", "notice"}
  BY Posted DEF Notice, Credential, Write, Reply
<1>8. mainQ # <<>> => Head(mainQ) \in Messages
  BY <1>1, QueueSteps
<1>9. tasks # <<>> => Head(tasks) \in Jobs /\ Tail(tasks) \in Seq(Jobs)
  BY <1>1, QueueSteps
<1>10. CASE \E w \in Writes : WriteMutations(w)
  <2>1. PICK w \in Writes : WriteMutations(w)
    BY <1>10
  <2>2. tasks' = Append(tasks, Write(w)) /\ UNCHANGED <<auth, mainQ, engine, remote>>
    BY <2>1 DEF WriteMutations
  <2> QED
    BY <1>1, <1>4, <1>5, <1>6, <2>2, UserTask
<1>11. CASE \E u \in Users : ChangeUser(u)
  <2>1. PICK u \in Users : ChangeUser(u)
    BY <1>11
  <2>2. /\ mainQ' = Append(mainQ, Notice(u)) /\ UNCHANGED <<tasks, engine, remote>>
        /\ auth'.user = u /\ auth'.counter = auth.counter
    BY <1>1, <2>1 DEF ChangeUser
  <2>3. Notice(u) \in Messages /\ Notice(u).kind = "notice" /\ Notice(u).user = u
    BY <1>6
  <2>4. UserOK(remote, Append(mainQ, Notice(u)), tasks, auth', engine.user, h)
    BY <1>1, <1>4, <2>2, <2>3, UserChanged
  <2> QED
    BY <1>5, <2>2, <2>4
<1>12. ASSUME NEW f \in remote.fetches, NEW ok \in BOOLEAN, AnswerToken(f, ok)
       PROVE  UserInv'
  <2>1. f \in [counter : Nat, closes : Nat, read : BOOLEAN, as : Users]
    BY <1>1 DEF Stream
  <2>2. /\ Token(f, ok) \in Tokens /\ Token(f, ok).as = f.as
        /\ Token(f, ok).counter = f.counter
    BY <2>1 DEF Token, Tokens
  <2>3. /\ remote' = [remote EXCEPT !.fetches = @ \ {f}] /\ f.read
        /\ mainQ' = Append(mainQ, Token(f, ok)) /\ UNCHANGED <<auth, tasks, engine>>
    BY <1>12 DEF AnswerToken
  <2>4. UserOK(remote', mainQ', tasks, auth, engine.user, h)
    BY <1>1, <1>4, <2>2, <2>3, UserAnswered
  <2> QED
    BY <1>5, <2>3, <2>4
<1>13. ASSUME NEW f \in remote.fetches, ReadUser(f)
       PROVE  UserInv'
  <2> DEFINE g == [f EXCEPT !.read = TRUE, !.as = auth.user]
  <2>1. g.counter = f.counter /\ g.as = auth.user
    BY <1>1 DEF Stream
  <2>2. /\ remote' = [remote EXCEPT !.fetches = (@ \ {f}) \union {g}]
        /\ UNCHANGED <<auth, mainQ, tasks, engine>>
    BY <1>13 DEF ReadUser
  <2> HIDE DEF g
  <2>3. UserOK(remote', mainQ, tasks, auth, engine.user, h)
    BY <1>1, <1>4, <2>1, <2>2, UserRead
  <2> QED
    BY <1>5, <2>2, <2>3
<1>14. CASE Auth \/ \E f \in remote.fetches : AnswerToken(f, FALSE)
  BY <1>12, <1>13, <1>14 DEF Auth
<1>15. CASE HearChange
  <2> DEFINE v == Head(mainQ).user
  <2>1. /\ mainQ # <<>> /\ mainQ' = Tail(mainQ) /\ UNCHANGED <<engine, remote>>
        /\ tasks' = Append(tasks, Credential(v)) /\ Head(mainQ).kind = "notice"
        /\ auth'.user = auth.user /\ auth'.counter = auth.counter + 1
    BY <1>1, <1>15 DEF HearChange
  <2>2. v \in Users
    BY <1>8, <2>1, MessageKinds
  <2> HIDE DEF v
  <2>3. Credential(v) \in Jobs /\ Credential(v).kind = "credential" /\ Credential(v).user = v
    BY <1>6, <2>2
  <2>4. \A f \in remote.fetches : f.counter \in Nat
    BY <1>1 DEF Stream
  <2>5. UserOK(remote, Tail(mainQ), Append(tasks, Credential(v)), auth', engine.user,
               Credential(v).user)
    BY <1>1, <1>4, <2>1, <2>3, <2>4, UserNoticed DEF v
  <2> QED
    BY <2>1, <2>2, <2>3, <2>5 DEF UserInv
<1>16. CASE HearToken
  <2> DEFINE ok == Head(mainQ).ok /\ Head(mainQ).counter = auth.counter
             t == [Head(mainQ) EXCEPT !.ok = ok]
  <2>1. Head(mainQ) \in Tokens /\ mainQ # <<>>
    BY <1>8, <1>16, MessageKinds DEF HearToken
  <2>2. /\ mainQ' = Tail(mainQ) /\ tasks' = Append(tasks, t)
        /\ UNCHANGED <<auth, engine, remote>>
    <3>1. [Head(mainQ) EXCEPT !.ok = @ /\ Head(mainQ).counter = auth.counter] = t
      BY <2>1 DEF Tokens
    <3> HIDE DEF t
    <3> QED
      BY <1>16, <3>1 DEF HearToken
  <2>3. ok \in BOOLEAN /\ (ok => Head(mainQ).counter = auth.counter)
    OBVIOUS
  <2> HIDE DEF ok
  <2>4. t \in Tokens /\ t.as = Head(mainQ).as /\ (t.ok => Head(mainQ).counter = auth.counter)
    BY <2>1, <2>3 DEF Tokens
  <2> HIDE DEF t
  <2>5. UserOK(remote, Tail(mainQ), Append(tasks, t), auth, engine.user, h)
    BY <1>1, <1>4, <2>1, <2>4, UserHeard
  <2> QED
    BY <1>5, <2>2, <2>5
<1>17. CASE RunHandler
  <2>1. /\ mainQ # <<>> /\ Head(mainQ).kind # "notice" /\ mainQ' = Tail(mainQ)
        /\ UNCHANGED <<auth, tasks, engine, remote>>
    BY <1>17 DEF RunHandler
  <2> QED
    BY <1>1, <1>4, <1>5, <2>1, UserMainRest
<1>18. CASE WriteLocally
  <2>1. /\ tasks # <<>> /\ tasks' = Tail(tasks) /\ UNCHANGED <<auth, mainQ>>
        /\ Head(tasks).kind # "credential"
        /\ remote' = FillWritePipeline(remote, store'.queue[engine.user], auth.counter)
    BY <1>18 DEF WriteLocally, Task
  <2>2. engine'.user = engine.user
    BY <1>1, <1>18 DEF WriteLocally
  <2>3. UserOK(remote, mainQ, Tail(tasks), auth, engine.user, h)
    BY <1>1, <1>4, <2>1, UserRest
  <2>4. UserOK(remote', mainQ, Tail(tasks), auth, engine.user, h)
    BY <1>1, <1>3, <2>1, <2>3, UserFilled
  <2> QED
    BY <1>5, <2>1, <2>2, <2>4
<1>19. CASE HandleCredentialChange
  <2> DEFINE u == Head(tasks).user
             r == [Stop(remote) EXCEPT !.pipeline = <<>>]
  <2>1. /\ tasks # <<>> /\ tasks' = Tail(tasks) /\ UNCHANGED <<auth, mainQ>>
        /\ Head(tasks).kind = "credential" /\ engine' = [engine EXCEPT !.user = u]
        /\ remote' = FillWritePipeline(r, store.queue[u], auth.counter)
    BY <1>19 DEF HandleCredentialChange, Task
  <2>2. u \in Users
    BY <1>9, <2>1, JobKinds
  <2>3. Awaited(Tail(tasks), Stop(remote).closes) = {} /\ Stop(remote) \in Stream
    <3>1. TokensOK(remote, mainQ, Tail(tasks))
      <4>1. NoMore(mainQ, mainQ, remote.closes) /\ NoMore(Tail(tasks), tasks, remote.closes)
        BY <1>1, <2>1, NoMoreTokens
      <4> QED
        BY <1>1, <4>1, TokensLess
    <3> QED
      BY <1>1, <1>9, <2>1, <3>1, TokensStopped DEF NoneAwaited
  <2>4. UserOK(Stop(remote), mainQ, tasks, auth, engine.user, h) /\ Stop(remote).state # "Open"
    BY <1>1, <1>4, UserStopped
  <2>5. GoodStream(r)
    <3>1. Stop(remote).hello = "none" /\ GoodStream(Stop(remote))
      BY <1>1, StopGood
    <3>2. <<>> \in Seq(Batch)
      OBVIOUS
    <3> QED
      BY <3>1, <3>2, PipelineGood
  <2>6. r.closes = Stop(remote).closes /\ r.fetches = Stop(remote).fetches
        /\ r.state = Stop(remote).state
    BY <2>3 DEF Stream
  <2> HIDE DEF r
  <2>7. UserOK(r, mainQ, Tail(tasks), auth, u, h)
    BY <1>1, <2>1, <2>3, <2>4, <2>6, UserTaken
  <2> HIDE DEF u
  <2>8. UserOK(remote', mainQ, Tail(tasks), auth, u, h)
    BY <1>1, <1>2, <2>1, <2>2, <2>5, <2>7, UserFilled
  <2>9. engine'.user = u
    BY <1>1, <2>1
  <2> QED
    BY <1>5, <2>1, <2>8, <2>9
<1>20. CASE ResumeStart
  <2> DEFINE t == Head(tasks)
  <2>1. /\ tasks # <<>> /\ tasks' = Tail(tasks) /\ UNCHANGED <<auth, mainQ, engine>>
        /\ t.kind = "token"
    BY <1>20 DEF ResumeStart, Task
  <2>2. UserOK(remote, mainQ, Tail(tasks), auth, engine.user, h)
    BY <1>1, <1>4, <2>1, UserRest
  <2>3. CASE UNCHANGED remote
    BY <1>5, <2>1, <2>2, <2>3
  <2>4. CASE /\ t.closes = remote.closes /\ t.ok
             /\ remote' = [remote EXCEPT !.state = "Open", !.hello = "sent",
                                         !.idle = FALSE, !.as = t.as]
    <3>1. 1 \in Awaited(tasks, remote.closes) /\ t = tasks[1]
      BY <1>1, <2>1, <2>4, QueueRest DEF Awaited
    <3>2. NoneBefore(tasks, 1, "credential")
      <4>1. DOMAIN tasks = 1..Len(tasks) /\ Len(tasks) \in Nat
        BY <1>1, LenProperties
      <4>2. \A i \in DOMAIN tasks : ~(i < 1)
        BY <4>1
      <4> QED
        BY <4>2 DEF NoneBefore
    <3> HIDE DEF t
    <3>3. t.as = engine.user
      BY <1>4, <2>4, <3>1, <3>2 DEF UserOK
    <3>4. remote'.closes = remote.closes /\ remote'.fetches = remote.fetches
          /\ remote'.as = t.as
      BY <1>1, <2>4 DEF Stream
    <3>5. UserOK(remote', mainQ, Tail(tasks), auth, engine.user, h)
      BY <2>2, <3>3, <3>4 DEF UserOK
    <3> QED
      BY <1>5, <2>1, <3>5
  <2>5. CASE remote' = StartWriteStream(Closed(remote, "Error"), auth.counter)
    <3> DEFINE c == Closed(remote, "Error")
    <3>1. TokensOK(remote, mainQ, Tail(tasks))
      <4>1. NoMore(mainQ, mainQ, remote.closes) /\ NoMore(Tail(tasks), tasks, remote.closes)
        BY <1>1, <2>1, NoMoreTokens
      <4> QED
        BY <1>1, <4>1, TokensLess
    <3>2. UserOK(c, mainQ, Tail(tasks), auth, engine.user, h)
      BY <1>1, <1>9, <2>1, <2>2, <3>1, UserClosed
    <3>3. c \in Stream
      BY <1>1, ClosedGood DEF GoodStream
    <3> HIDE DEF c
    <3>4. UserOK(StartWriteStream(c, auth.counter), mainQ, Tail(tasks), auth, engine.user, h)
      BY <1>1, <3>2, <3>3, UserStarted
    <3> QED
      BY <1>5, <2>1, <2>5, <3>4 DEF c
  <2> HIDE DEF t
  <2> QED
    BY <1>20, <2>3, <2>4, <2>5 DEF ResumeStart, t
<1>21. CASE BackoffElapsed
  <2>1. /\ remote' = RequestCredentials(remote, auth.counter)
        /\ UNCHANGED <<auth, mainQ, tasks, engine>>
    BY <1>21 DEF BackoffElapsed
  <2> QED
    BY <1>1, <1>4, <1>5, <2>1, UserRequested
<1>22. CASE IdleTimeout
  <2>1. /\ remote' = StartWriteStream(Stop(remote), auth.counter)
        /\ UNCHANGED <<auth, mainQ, tasks, engine>>
    BY <1>22 DEF IdleTimeout
  <2>2. UserOK(Stop(remote), mainQ, tasks, auth, engine.user, h) /\ Stop(remote) \in Stream
    BY <1>1, <1>4, UserStopped, StopGood DEF GoodStream
  <2> QED
    BY <1>1, <1>5, <2>1, <2>2, UserStarted
<1>23. CASE StreamBreaks
  <2>1. /\ remote' = StartWriteStream(Closed(remote, "Error"), auth.counter)
        /\ UNCHANGED <<auth, mainQ, tasks, engine>>
    BY <1>23 DEF StreamBreaks
  <2>2. /\ UserOK(Closed(remote, "Error"), mainQ, tasks, auth, engine.user, h)
        /\ Closed(remote, "Error") \in Stream
    BY <1>1, <1>4, UserClosed, ClosedGood DEF GoodStream
  <2> QED
    BY <1>1, <1>5, <2>1, <2>2, UserStarted
<1>24. CASE CompleteHandshake
  <2>1. /\ remote'.closes = remote.closes /\ remote'.fetches = remote.fetches
        /\ remote'.state = remote.state /\ remote'.as = remote.as
    BY <1>1, <1>24 DEF CompleteHandshake, Stream
  <2>2. UNCHANGED <<auth, mainQ, tasks, engine>>
    BY <1>24 DEF CompleteHandshake
  <2> QED
    BY <1>4, <1>5, <2>1, <2>2, UserSame
<1>25. CASE Server
  <2>1. /\ remote'.closes = remote.closes /\ remote'.fetches = remote.fetches
        /\ remote'.state = remote.state /\ remote'.as = remote.as
    BY <1>1, <1>25 DEF Server, ServerGreets, ServerCommits, ServerRefuses, Stream
  <2>2. UNCHANGED <<auth, mainQ, tasks, engine>>
    BY <1>25 DEF Server, ServerGreets, ServerCommits, ServerRefuses
  <2> QED
    BY <1>4, <1>5, <2>1, <2>2, UserSame

\* The callbacks of a batch post answers to the main queue.
<1>26. ASSUME NEW ok \in BOOLEAN, NEW calls, calls \subseteq engine.callbacks,
              \/ calls = {} /\ UNCHANGED mainQ
              \/ \E c \in calls : mainQ' = Append(mainQ, Reply(c.w, ok))
       PROVE  /\ UserOK(remote, mainQ', tasks, auth, engine.user, h)
              /\ TokensOK(remote, mainQ', tasks) /\ mainQ' \in Seq(Messages)
  <2>1. CASE UNCHANGED mainQ
    BY <1>1, <1>4, <2>1
  <2>2. CASE \E c \in calls : mainQ' = Append(mainQ, Reply(c.w, ok))
    <3>1. PICK c \in calls : mainQ' = Append(mainQ, Reply(c.w, ok))
      BY <2>2
    <3>2. c.w \in Writes
      BY <1>1, <1>26
    <3>3. Reply(c.w, ok) \in Messages /\ Reply(c.w, ok).kind \notin {"token", "notice"}
      BY <1>6, <3>2
    <3>4. UserOK(remote, mainQ', tasks, auth, engine.user, h)
      BY <1>1, <1>4, <3>1, <3>3, UserPosted
    <3>5. NoMore(mainQ', mainQ, remote.closes) /\ NoMore(tasks, tasks, remote.closes)
      BY <1>1, <3>1, <3>3, NoMoreTokens
    <3>6. mainQ' \in Seq(Messages)
      BY <1>1, <3>1, <3>3, QueueSteps
    <3> QED
      BY <1>1, <3>4, <3>5, <3>6, TokensLess
  <2> QED
    BY <1>26, <2>1, <2>2
<1>27. CASE MutationResult
  <2>1. UNCHANGED <<auth, tasks>>
    BY <1>27 DEF MutationResult
  <2>2. CASE UNCHANGED <<mainQ, engine, remote>>
    BY <1>4, <1>5, <2>1, <2>2
  <2>3. CASE remote.pipeline # <<>>
    <3> DEFINE calls == {c \in engine.callbacks : c.user = engine.user
                                                    /\ c.id = Head(remote.pipeline).id}
    <3>1. /\ remote' = [remote EXCEPT !.inbox = @ - 1, !.pipeline = Tail(@)]
          /\ \/ calls = {} /\ UNCHANGED mainQ
             \/ \E c \in calls : mainQ' = Append(mainQ, Reply(c.w, TRUE))
      BY <1>27, <2>3 DEF MutationResult
    <3>2. calls \subseteq engine.callbacks
      OBVIOUS
    <3> HIDE DEF calls
    <3>3. UserOK(remote, mainQ', tasks, auth, engine.user, h)
      BY <1>26, <3>1, <3>2
    <3>4. /\ remote'.closes = remote.closes /\ remote'.fetches = remote.fetches
          /\ remote'.state = remote.state /\ remote'.as = remote.as
      BY <1>1, <3>1 DEF Stream
    <3>5. engine'.user = engine.user
      BY <1>1, <1>27, <2>3 DEF MutationResult
    <3> QED
      BY <1>5, <2>1, <3>3, <3>4, <3>5, UserSame
  <2> QED
    BY <1>27, <2>2, <2>3 DEF MutationResult
<1>28. CASE AcknowledgeBatch
  <2>1. /\ UNCHANGED <<auth, mainQ, tasks>> /\ engine'.user = engine.user
        /\ remote' = FillWritePipeline(remote, store'.queue[engine.user], auth.counter)
    BY <1>1, <1>28 DEF AcknowledgeBatch
  <2> QED
    BY <1>1, <1>3, <1>4, <1>5, <2>1, UserFilled
<1>29. CASE HandleWriteError
  <2> DEFINE calls == {c \in engine.callbacks : c.user = engine.user
                                                  /\ c.id = Head(remote.pipeline).id}
             c == Closed(remote, "Initial")
             r == [c EXCEPT !.pipeline = Tail(@)]
  <2>1. /\ UNCHANGED <<auth, tasks>> /\ remote.pipeline # <<>>
        /\ remote' = FillWritePipeline(r, store'.queue[engine.user], auth.counter)
        /\ \/ calls = {} /\ UNCHANGED mainQ
           \/ \E b \in calls : mainQ' = Append(mainQ, Reply(b.w, FALSE))
    BY <1>29 DEF HandleWriteError
  <2>2. calls \subseteq engine.callbacks
    OBVIOUS
  <2>3. engine'.user = engine.user
    BY <1>1, <1>29 DEF HandleWriteError
  <2> HIDE DEF calls
  <2>4. /\ UserOK(remote, mainQ', tasks, auth, engine.user, h)
        /\ TokensOK(remote, mainQ', tasks) /\ mainQ' \in Seq(Messages)
    BY <1>26, <2>1, <2>2
  <2>5. UserOK(c, mainQ', tasks, auth, engine.user, h)
    BY <1>1, <2>4, UserClosed
  <2>6. GoodStream(c) /\ c.hello = "none" /\ c.pipeline = remote.pipeline /\ c \in Stream
    BY <1>1, ClosedGood, ClosedLine DEF GoodStream
  <2>7. Tail(c.pipeline) \in Seq(Batch)
    BY <1>1, <2>1, <2>6, HeadTailProperties DEF Stream
  <2> HIDE DEF c
  <2>8. GoodStream(r) /\ r.closes = c.closes /\ r.fetches = c.fetches /\ r.state = c.state
        /\ r.as = c.as
    BY <2>6, <2>7, PipelineGood DEF Stream
  <2> HIDE DEF r
  <2>9. UserOK(r, mainQ', tasks, auth, engine.user, h)
    BY <2>5, <2>8, UserSame
  <2>10. UserOK(remote', mainQ', tasks, auth, engine.user, h)
    BY <1>1, <1>3, <2>1, <2>8, <2>9, UserFilled
  <2> QED
    BY <1>5, <2>1, <2>3, <2>10
<1>30. CASE \E u \in Users : Restart(u)
  <2>1. PICK u \in Users : Restart(u)
    BY <1>30
  <2>2. /\ mainQ' = IF auth.user = Nobody THEN <<>> ELSE <<Notice(auth.user)>>
        /\ tasks' = <<>> /\ engine'.user = u /\ u \in {Nobody, auth.user}
        /\ remote' = FillWritePipeline(FreshRemote, store.queue[u], 0)
        /\ auth'.counter = 0 /\ auth'.user = auth.user
    BY <1>1, <2>1 DEF Restart
  <2>3. UserOK(FreshRemote, mainQ', tasks', auth', u, u)
    <3>1. Ends(mainQ', "notice", u, auth.user)
      BY <2>2 DEF Notice, Ends, None
    <3>2. \A i \in DOMAIN mainQ' : mainQ'[i].kind # "token"
      BY <2>2 DEF Notice
    <3> QED
      BY <2>2, <3>1, <3>2 DEF UserOK, FreshRemote, Ends, None, Awaited
  <2>4. 0 \in Nat
    OBVIOUS
  <2>5. UserOK(FillWritePipeline(FreshRemote, store.queue[u], auth'.counter), mainQ', tasks',
               auth', u, u)
    BY <1>2, <2>2, <2>3, <2>4, FreshGood, UserFilled
  <2> QED
    BY <2>1, <2>2, <2>5 DEF UserInv
<1> QED
  BY <1>10, <1>11, <1>14, <1>15, <1>16, <1>17, <1>18, <1>19, <1>20, <1>21, <1>22, <1>23,
     <1>24, <1>25, <1>27, <1>28, <1>29, <1>30 DEF Next, Worker, Main

-----------------------------------------------------------------------------
(* The client's assertions, and the user a stream is of.                   *)

LEMMA FailStep ==
    ASSUME IInv, LineInv, TokenInv, ~failed, Next
    PROVE  ~failed'
<1>1. /\ remote \in Stream /\ LinkOK(remote) /\ remote.pipeline \in Seq(Batch)
      /\ remote.inbox \in Nat /\ remote.outbox \in Seq(Batch)
      /\ tasks \in Seq(Jobs) /\ TokensOK(remote, mainQ, tasks)
      /\ IdleOK(remote) /\ LineOK(remote, Queue) /\ AckingOK
  BY DEF IInv, TypeOK, Stream, LineInv, TokenInv
<1>2. \A b : Holds(Queue, b) => Stored(Queue, b)
  BY DEF Holds, Stored
<1>3. CASE ResumeStart
  <2>1. /\ tasks # <<>> /\ Head(tasks).kind = "token"
        /\ \/ UNCHANGED failed
           \/ /\ Head(tasks).closes = remote.closes
              /\ remote.state # "Starting" \/ HandshakeComplete(remote)
    BY <1>3 DEF ResumeStart, Task
  <2>2. Head(tasks).closes = remote.closes => remote.state = "Starting"
    BY <1>1, <2>1, TokenTaken
  <2>3. HandshakeComplete(remote) => remote.state = "Open"
    BY <1>1 DEF HandshakeComplete, LinkOK
  <2>4. UNCHANGED failed
    BY <2>1, <2>2, <2>3
  <2> QED
    BY <2>4
<1>4. CASE IdleTimeout
  <2>1. remote.pipeline = <<>>
    BY <1>1, <1>4 DEF IdleTimeout, IdleOK
  <2> QED
    BY <1>4, <2>1 DEF IdleTimeout
<1>5. CASE MutationResult
  <2>1. remote.hello = "done" /\ remote.inbox > 0
    BY <1>5 DEF MutationResult, HandshakeComplete
  <2>2. Len(remote.pipeline) = remote.inbox + Len(remote.outbox)
    BY <1>1, <2>1 DEF LinkOK, Alike
  <2>3. Len(remote.pipeline) # 0
    BY <1>1, <2>1, <2>2, LenProperties
  <2>4. remote.pipeline # <<>>
    BY <2>3
  <2> QED
    BY <1>5, <2>4 DEF MutationResult
<1>6. CASE AcknowledgeBatch
  <2>1. Stored(Queue, engine.acking[1])
    BY <1>1, <1>2, <1>6 DEF AcknowledgeBatch, Free, AckingOK
  <2> QED
    BY <1>6, <2>1 DEF AcknowledgeBatch
<1>7. CASE HandleWriteError
  <2>1. remote.pipeline # <<>>
    BY <1>7 DEF HandleWriteError
  <2>2. 1 \in DOMAIN remote.pipeline /\ Head(remote.pipeline) = remote.pipeline[1]
    BY <1>1, <2>1, QueueRest
  <2>3. Stored(Queue, Head(remote.pipeline))
    BY <1>1, <1>2, <2>2 DEF LineOK
  <2> QED
    BY <1>7, <2>3 DEF HandleWriteError
<1>8. CASE ~(ResumeStart \/ IdleTimeout \/ MutationResult \/ AcknowledgeBatch \/ HandleWriteError)
           /\ ~\E u \in Users : Restart(u)
  <2>1. UNCHANGED failed
    BY <1>8 DEF Next, Auth, Main, Worker, Server, WriteMutations, ChangeUser, AnswerToken,
       ReadUser, HearChange, HearToken, RunHandler, WriteLocally, HandleCredentialChange,
       BackoffElapsed, CompleteHandshake, ServerGreets, ServerCommits, ServerRefuses,
       StreamBreaks
  <2> QED
    BY <2>1
<1>9. CASE \E u \in Users : Restart(u)
  BY <1>9 DEF Restart
<1> QED
  BY <1>3, <1>4, <1>5, <1>6, <1>7, <1>8, <1>9

AInv == IInv /\ LineInv /\ TokenInv /\ UserInv /\ ~failed

LEMMA AInvInit == Init => AInv
<1> SUFFICES ASSUME Init PROVE AInv
  OBVIOUS
<1>1. IInv
  BY InvInit
<1>2. /\ remote = FreshRemote /\ mainQ = <<>> /\ tasks = <<>> /\ engine.acking = <<>>
      /\ engine.user = Nobody /\ auth.user = Nobody /\ ~failed
  BY DEF Init
<1>3. LineInv
  BY <1>2, FreshLine DEF LineInv, AckingOK
<1>4. TokenInv
  BY <1>2, TokensFresh DEF TokenInv
<1>5. UserOK(FreshRemote, <<>>, <<>>, auth, Nobody, Nobody)
  BY <1>2 DEF UserOK, FreshRemote, Ends, None, Awaited
<1>6. UserInv
  BY <1>2, <1>5, UsersAssumption DEF UserInv
<1> QED
  BY <1>1, <1>2, <1>3, <1>4, <1>6 DEF AInv

LEMMA AInvNext == AInv /\ [Next]_vars => AInv'
<1> SUFFICES ASSUME AInv, [Next]_vars PROVE AInv'
  OBVIOUS
<1>1. IInv'
  BY InvNext DEF AInv
<1>2. CASE Next
  BY <1>1, <1>2, LineStep, TokenStep, UserStep, FailStep DEF AInv
<1>3. CASE UNCHANGED vars
  <2>1. UNCHANGED <<auth, mainQ, tasks, engine, store, remote, failed>>
    BY <1>3 DEF vars
  <2>2. LineInv' /\ TokenInv'
    BY <2>1 DEF AInv, LineInv, AckingOK, Queue, TokenInv
  <2>3. UserInv'
    BY <2>1 DEF AInv, UserInv
  <2> QED
    BY <1>1, <2>1, <2>2, <2>3 DEF AInv
<1> QED
  BY <1>2, <1>3

LEMMA AInvariance == Spec => []AInv
<1> QED
  BY AInvInit, AInvNext, PTL DEF Spec

\* No assertion of the client fails, however accounts, connections and restarts
\* interleave: a token that is not stale finds the stream waiting for it, the idle
\* timer a pipeline that is empty, an answer a write in the pipeline, and a batch that
\* is to be removed is stored.
THEOREM AssertionsHold == Spec => []NoAssertionFails
<1>1. AInv => NoAssertionFails
  BY DEF AInv, NoAssertionFails
<1> QED
  BY <1>1, AInvariance, PTL

\* What a stream sends is in the mutation queue of the user whose token opened it.
THEOREM SentByItsUser == Spec => []SentAsItsUser
<1>1. AInv => SentAsItsUser
  <2> SUFFICES ASSUME AInv, NEW i \in DOMAIN remote.outbox
               PROVE  Holds(store.queue[remote.as], remote.outbox[i])
    BY DEF SentAsItsUser, Holds
  <2>1. /\ LinkOK(remote) /\ remote.outbox \in Seq(Batch) /\ remote.pipeline \in Seq(Batch)
        /\ remote.inbox \in Nat /\ LineOK(remote, Queue)
    BY DEF AInv, IInv, TypeOK, Stream, LineInv
  <2>2. /\ DOMAIN remote.outbox = 1..Len(remote.outbox) /\ Len(remote.outbox) \in Nat
        /\ DOMAIN remote.pipeline = 1..Len(remote.pipeline)
    BY <2>1, LenProperties
  <2>3. remote.hello = "done" /\ remote.state = "Open"
    BY <2>1, <2>2 DEF LinkOK
  <2>4. /\ Len(remote.pipeline) = remote.inbox + Len(remote.outbox)
        /\ remote.outbox[i] = remote.pipeline[remote.inbox + i]
    BY <2>1, <2>2, <2>3 DEF LinkOK, Alike
  <2>5. remote.inbox + i \in DOMAIN remote.pipeline
    BY <2>1, <2>2, <2>4
  <2>6. Holds(Queue, remote.outbox[i])
    BY <2>1, <2>4, <2>5 DEF LineOK
  <2>7. remote.as = engine.user
    BY <2>3 DEF AInv, UserInv, UserOK
  <2> QED
    BY <2>6, <2>7 DEF Queue
<1> QED
  BY <1>1, AInvariance, PTL

-----------------------------------------------------------------------------
(* The messages of one kind.                                               *)

\* f holds the selections from the beginnings of q, up to its n-th message.
Picks(f, q, kind, n, M) ==
    /\ f \in [0..n -> Seq(M)]
    /\ \A i \in 0..n :
          f[i] = IF i = 0 THEN <<>>
                 ELSE IF q[i].kind = kind THEN Append(f[i - 1], q[i]) ELSE f[i - 1]

LEMMA PicksMore ==
    ASSUME NEW M, NEW q \in Seq(M), NEW kind, NEW n \in Nat, n + 1 <= Len(q), NEW f,
           Picks(f, q, kind, n, M)
    PROVE  \E g : Picks(g, q, kind, n + 1, M)
<1> DEFINE next == IF q[n + 1].kind = kind THEN Append(f[n], q[n + 1]) ELSE f[n]
           g == [i \in 0..(n + 1) |-> IF i = n + 1 THEN next ELSE f[i]]
<1>1. next \in Seq(M)
  <2>1. n + 1 \in 1..Len(q)
    BY LenProperties
  <2>2. q[n + 1] \in M
    BY <2>1, ElementOfSeq
  <2>3. f[n] \in Seq(M)
    BY DEF Picks
  <2> QED
    BY <2>2, <2>3, AppendProperties
<1> HIDE DEF next
<1>2. g \in [0..(n + 1) -> Seq(M)]
  BY <1>1 DEF Picks
<1>3. \A i \in 0..n : g[i] = f[i]
  OBVIOUS
<1>4. g[n + 1] = next
  OBVIOUS
<1> HIDE DEF g
<1>5. ASSUME NEW i \in 0..(n + 1)
      PROVE  g[i] = IF i = 0 THEN <<>>
                    ELSE IF q[i].kind = kind THEN Append(g[i - 1], q[i]) ELSE g[i - 1]
  <2>1. CASE i = n + 1
    <3>1. g[i - 1] = f[n] /\ i # 0
      BY <1>3, <2>1
    <3> QED
      BY <1>4, <2>1, <3>1 DEF next
  <2>2. CASE i # n + 1
    <3>1. i \in 0..n /\ (i = 0 \/ i - 1 \in 0..n)
      BY <2>2
    <3>2. f[i] = IF i = 0 THEN <<>>
                 ELSE IF q[i].kind = kind THEN Append(f[i - 1], q[i]) ELSE f[i - 1]
      BY <3>1 DEF Picks
    <3>3. g[i] = f[i] /\ (i = 0 \/ g[i - 1] = f[i - 1])
      BY <1>3, <3>1
    <3> QED
      BY <3>2, <3>3
  <2> QED
    BY <2>1, <2>2
<1>6. Picks(g, q, kind, n + 1, M)
  BY <1>2, <1>5 DEF Picks
<1> QED
  BY <1>6

LEMMA PicksExist ==
    ASSUME NEW M, NEW q \in Seq(M), NEW kind, NEW n \in Nat, n <= Len(q)
    PROVE  \E f : Picks(f, q, kind, n, M)
<1> DEFINE T == {i \in 0..n : ~ \E f : Picks(f, q, kind, i, M)}
<1>0. n \in 0..n
  OBVIOUS
<1> SUFFICES ASSUME T # {} PROVE FALSE
  BY <1>0, Zenon
<1>1. T \subseteq Nat
  OBVIOUS
<1>2. PICK x \in T : \A y \in T : x <= y
  BY <1>1, LeastNatural
<1>3. x \in 0..n /\ ~ \E f : Picks(f, q, kind, x, M)
  OBVIOUS
<1>4. x # 0
  <2>1. <<>> \in Seq(M)
    BY EmptySeq
  <2>2. Picks([i \in 0..0 |-> <<>>], q, kind, 0, M)
    BY <2>1 DEF Picks
  <2> QED
    BY <1>3, <2>2
<1>5. x - 1 \in 0..n /\ ~(x <= x - 1) /\ x - 1 \in Nat
  BY <1>3, <1>4
<1>6. PICK f : Picks(f, q, kind, x - 1, M)
  BY <1>2, <1>5
<1>7. (x - 1) + 1 <= Len(q) /\ (x - 1) + 1 = x
  BY <1>3, LenProperties
<1>8. \E g : Picks(g, q, kind, (x - 1) + 1, M)
  BY <1>5, <1>6, <1>7, PicksMore
<1> QED
  BY <1>3, <1>7, <1>8

\* The recursion of Selected defines the last of the selections.
LEMMA SelectedIsPick ==
    ASSUME NEW M, NEW q \in Seq(M), NEW kind, NEW f, Picks(f, q, kind, Len(q), M)
    PROVE  Selected(q, kind) = f[Len(q)] /\ Selected(q, kind) \in Seq(M)
<1> DEFINE n == Len(q)
           G(g) == [i \in 0..n |-> IF i = 0 THEN <<>>
                                   ELSE IF q[i].kind = kind THEN Append(g[i - 1], q[i])
                                   ELSE g[i - 1]]
           u == CHOOSE g : g = G(g)
<1>1. n \in Nat
  BY LenProperties
<1>2. f = G(f)
  BY <1>1 DEF Picks
<1>3. u = G(u)
  BY <1>2
<1>4. Selected(q, kind) = u[n]
  BY DEF Selected
<1> HIDE DEF u
<1>5. \A i \in 0..n : u[i] = IF i = 0 THEN <<>>
                             ELSE IF q[i].kind = kind THEN Append(u[i - 1], q[i])
                             ELSE u[i - 1]
  BY <1>3
<1> DEFINE T == {i \in 0..n : f[i] # u[i]}
<1>6. T = {}
  <2> SUFFICES ASSUME T # {} PROVE FALSE
    OBVIOUS
  <2>1. T \subseteq Nat
    OBVIOUS
  <2>2. PICK x \in T : \A y \in T : x <= y
    BY <2>1, LeastNatural
  <2>3. x \in 0..n /\ f[x] # u[x]
    OBVIOUS
  <2>4. x # 0
    BY <1>5, <2>3 DEF Picks
  <2>5. x - 1 \in 0..n /\ ~(x <= x - 1)
    BY <2>3, <2>4
  <2>6. f[x - 1] = u[x - 1]
    BY <2>2, <2>5
  <2>7. f[x] = IF q[x].kind = kind THEN Append(f[x - 1], q[x]) ELSE f[x - 1]
    BY <2>3, <2>4 DEF Picks
  <2>8. u[x] = IF q[x].kind = kind THEN Append(u[x - 1], q[x]) ELSE u[x - 1]
    BY <1>5, <2>3, <2>4
  <2> QED
    BY <2>3, <2>6, <2>7, <2>8
<1>7. n \in 0..n
  BY <1>1
<1> QED
  BY <1>4, <1>6, <1>7 DEF Picks

\* One message more is selected last, or not at all.
LEMMA SelectedMore ==
    ASSUME NEW M, NEW q \in Seq(M), NEW m \in M, NEW kind
    PROVE  /\ Selected(q, kind) \in Seq(M)
           /\ Selected(Append(q, m), kind) =
                 IF m.kind = kind THEN Append(Selected(q, kind), m) ELSE Selected(q, kind)
<1> DEFINE n == Len(q)
           more == Append(q, m)
<1>1. more \in Seq(M) /\ Len(more) = n + 1 /\ n \in Nat
  BY AppendProperties, LenProperties
<1>2. \A i \in 1..n : more[i] = q[i]
  BY AppendProperties
<1>3. more[n + 1] = m
  BY AppendProperties
<1> HIDE DEF more
<1>4. n + 1 \in Nat /\ n + 1 <= Len(more) /\ n \in 0..n /\ n + 1 # 0 /\ n \in 0..(n + 1)
      /\ (n + 1) - 1 = n /\ n + 1 \in 0..(n + 1)
  BY <1>1
<1>5. PICK g : Picks(g, more, kind, n + 1, M)
  BY <1>1, <1>4, PicksExist
<1> DEFINE f == [i \in 0..n |-> g[i]]
<1>6. Picks(f, q, kind, n, M)
  <2>1. ASSUME NEW i \in 0..n
        PROVE  f[i] = IF i = 0 THEN <<>>
                      ELSE IF q[i].kind = kind THEN Append(f[i - 1], q[i]) ELSE f[i - 1]
    <3>1. i \in 0..(n + 1) /\ f[i] = g[i] /\ (i = 0 \/ (i \in 1..n /\ i - 1 \in 0..n))
      BY <1>1
    <3>2. g[i] = IF i = 0 THEN <<>>
                 ELSE IF more[i].kind = kind THEN Append(g[i - 1], more[i]) ELSE g[i - 1]
      BY <1>5, <3>1 DEF Picks
    <3>3. i # 0 => more[i] = q[i] /\ f[i - 1] = g[i - 1]
      BY <1>2, <3>1
    <3> HIDE DEF f
    <3> QED
      BY <3>1, <3>2, <3>3
  <2>2. f \in [0..n -> Seq(M)]
    BY <1>1, <1>5 DEF Picks
  <2> HIDE DEF f
  <2> QED
    BY <2>1, <2>2 DEF Picks
<1>7. f[n] = g[n]
  BY <1>4
<1> HIDE DEF f
<1>8. Selected(q, kind) = g[n] /\ Selected(q, kind) \in Seq(M)
  BY <1>6, <1>7, SelectedIsPick
<1>9. Selected(more, kind) = g[n + 1]
  BY <1>1, <1>5, SelectedIsPick
<1>10. g[n + 1] = IF more[n + 1].kind = kind THEN Append(g[n], more[n + 1]) ELSE g[n]
  BY <1>4, <1>5 DEF Picks
<1> QED
  BY <1>3, <1>8, <1>9, <1>10 DEF more

LEMMA SelectedNone == \A kind : Selected(<<>>, kind) = <<>>
<1> SUFFICES ASSUME NEW kind PROVE Selected(<<>>, kind) = <<>>
  OBVIOUS
<1> DEFINE f == [i \in 0..0 |-> <<>>]
<1>1. <<>> \in Seq({}) /\ Len(<<>>) = 0
  BY EmptySeq
<1>2. Picks(f, <<>>, kind, 0, {}) /\ f[0] = <<>>
  BY <1>1 DEF Picks
<1> HIDE DEF f
<1> QED
  BY <1>1, <1>2, SelectedIsPick

\* What is appended to a part is appended to the whole.
LEMMA AppendsInside ==
    ASSUME NEW M, NEW pre \in Seq(M), NEW a \in Seq(M), NEW e \in M
    PROVE  pre \o Append(a, e) = Append(pre \o a, e)
<1>1. <<e>> \in Seq(M) /\ pre \o a \in Seq(M)
  BY ConcatProperties
<1>2. Append(a, e) = a \o <<e>> /\ Append(pre \o a, e) = (pre \o a) \o <<e>>
  BY <1>1, AppendIsConcat
<1>3. (pre \o a) \o <<e>> = pre \o (a \o <<e>>)
  BY <1>1, ConcatAssociative
<1> QED
  BY <1>2, <1>3

\* The first message is selected first, or not at all.
LEMMA SelectedRest ==
    ASSUME NEW M, NEW q \in Seq(M), q # <<>>, NEW kind
    PROVE  /\ Selected(q, kind) \in Seq(M)
           /\ Selected(q, kind) =
                 IF Head(q).kind = kind THEN <<Head(q)>> \o Selected(Tail(q), kind)
                 ELSE Selected(Tail(q), kind)
<1> DEFINE t == Tail(q)
           n == Len(t)
           pre == IF q[1].kind = kind THEN <<q[1]>> ELSE <<>>
<1>1. /\ t \in Seq(M) /\ Len(t) = Len(q) - 1 /\ Head(q) = q[1] /\ Head(q) \in M
      /\ \A i \in 1..(Len(q) - 1) : t[i] = q[i + 1]
  BY HeadTailProperties
<1> HIDE DEF t
<1>a. Len(q) \in Nat /\ Len(q) # 0
  BY LenProperties, EmptySeq
<1>2. Len(q) \in Nat /\ n \in Nat /\ Len(q) = n + 1
  BY <1>a, <1>1
<1>3. pre \in Seq(M)
  <2>1. <<>> \in Seq(M) /\ q[1] \in M
    BY <1>1, EmptySeq
  <2> QED
    BY <2>1
<1> HIDE DEF n, pre
<1>b. n + 1 \in Nat /\ n + 1 <= Len(q) /\ n <= Len(t)
  BY <1>2 DEF n
<1>4. PICK f : Picks(f, q, kind, n + 1, M)
  BY <1>b, PicksExist
<1>5. PICK g : Picks(g, t, kind, n, M)
  BY <1>1, <1>2, <1>b, PicksExist
<1>c. \A a \in Seq(M), e \in M : pre \o Append(a, e) = Append(pre \o a, e)
  BY <1>3, AppendsInside
<1> DEFINE T == {i \in 0..n : f[i + 1] # pre \o g[i]}
<1>6. T = {}
  <2> SUFFICES ASSUME T # {} PROVE FALSE
    OBVIOUS
  <2>1. T \subseteq Nat
    <3>1. 0..n \subseteq Nat
      BY <1>2
    <3> QED
      BY <3>1, Zenon
  <2>2. PICK x \in T : \A y \in T : x <= y
    BY <2>1, LeastNatural
  <2>3. x \in 0..n /\ f[x + 1] # pre \o g[x]
    OBVIOUS
  <2>4. x # 0
    <3>1. g[0] = <<>>
      BY <1>2, <1>5 DEF Picks
    <3>2. f[0] = <<>> /\ f[1] = IF q[1].kind = kind THEN Append(f[0], q[1]) ELSE f[0]
      <4>1. 0 \in 0..(n + 1) /\ 1 \in 0..(n + 1) /\ 1 # 0 /\ 1 - 1 = 0
        BY <1>2
      <4> QED
        BY <1>4, <4>1 DEF Picks
    <3>3. f[1] = pre
      BY <3>2 DEF pre
    <3>4. pre \o <<>> = pre
      BY <1>3, ConcatEmptySeq
    <3>5. f[0 + 1] = pre \o g[0]
      BY <3>1, <3>3, <3>4
    <3>6. f[x + 1] # pre \o g[x]
      BY <2>3
    <3> QED
      BY <3>5, <3>6, Zenon
  <2>5. /\ x - 1 \in 0..n /\ ~(x <= x - 1) /\ (x - 1) + 1 = x /\ x \in 1..(Len(q) - 1)
        /\ x + 1 \in 0..(n + 1) /\ x + 1 # 0 /\ (x + 1) - 1 = x /\ x \in 0..n
    BY <1>2, <2>3, <2>4
  <2>6. f[x] = pre \o g[x - 1]
    BY <2>2, <2>5
  <2>7. f[x + 1] = IF q[x + 1].kind = kind THEN Append(f[x], q[x + 1]) ELSE f[x]
    BY <1>4, <2>5 DEF Picks
  <2>8. g[x] = IF t[x].kind = kind THEN Append(g[x - 1], t[x]) ELSE g[x - 1]
    BY <1>5, <2>4, <2>5 DEF Picks
  <2>9. t[x] = q[x + 1]
    BY <1>1, <2>5
  <2>10. g[x - 1] \in Seq(M) /\ t[x] \in M
    <3>1. x \in 1..Len(t)
      BY <1>1, <2>5
    <3> QED
      BY <1>1, <1>5, <2>5, <3>1, ElementOfSeq DEF Picks
  <2>11. pre \o Append(g[x - 1], t[x]) = Append(pre \o g[x - 1], t[x])
    BY <1>c, <2>10
  <2> QED
    BY <2>3, <2>6, <2>7, <2>8, <2>9, <2>11
<1>7. n \in 0..n
  BY <1>2
<1>8. Selected(q, kind) = f[n + 1] /\ Selected(q, kind) \in Seq(M)
  <2>1. Picks(f, q, kind, Len(q), M)
    BY <1>2, <1>4
  <2> QED
    BY <1>2, <2>1, SelectedIsPick
<1>9. Selected(t, kind) = g[n] /\ Selected(t, kind) \in Seq(M)
  BY <1>1, <1>5, SelectedIsPick DEF n
<1>10. Selected(q, kind) = pre \o Selected(t, kind)
  BY <1>6, <1>7, <1>8, <1>9
<1>11. <<>> \o Selected(t, kind) = Selected(t, kind)
  BY <1>9, ConcatEmptySeq
<1> QED
  BY <1>1, <1>8, <1>10, <1>11 DEF t, pre

-----------------------------------------------------------------------------
(* The pipeline is the front of the queue.                                 *)

Positive(q) == \A i \in DOMAIN q : q[i].id > 0

\* Removing the oldest batch leaves the rest.
LEMMA WithoutFirst ==
    ASSUME NEW q \in Seq(Batch), Sorted(q), q # <<>>
    PROVE  Without(q, q[1]) = Tail(q)
<1>1. DOMAIN q = 1..Len(q) /\ Len(q) \in Nat /\ Len(q) # 0
  BY LenProperties, EmptySeq
<1>2. 1 \in DOMAIN q
  BY <1>1
<1> DEFINE i == CHOOSE i \in DOMAIN q : q[i].id = q[1].id
<1>3. i \in DOMAIN q /\ q[i].id = q[1].id
  BY <1>2
<1>4. Without(q, q[1]) = SubSeq(q, 1, i - 1) \o SubSeq(q, i + 1, Len(q))
  BY <1>2 DEF Without, Stored
<1> HIDE DEF i
<1>5. i = 1
  <2>1. q[1].id \in Nat
    BY <1>2, BatchAt
  <2>2. i \in Nat /\ (i = 1 \/ 1 < i)
    BY <1>1, <1>3
  <2>3. 1 < i => q[1].id < q[i].id
    BY <1>2, <1>3 DEF Sorted
  <2> QED
    BY <1>3, <2>1, <2>2, <2>3
<1>6. SubSeq(q, 1, i - 1) = <<>>
  BY <1>5, SubSeqEmpty
<1>7. SubSeq(q, i + 1, Len(q)) = Tail(q)
  <2>1. i + 1 = 2
    BY <1>5
  <2> QED
    BY <2>1, TailIsSubSeq
<1>8. Tail(q) \in Seq(Batch)
  BY HeadTailProperties
<1> QED
  BY <1>4, <1>6, <1>7, <1>8, ConcatEmptySeq

\* p is what follows the first a batches of q.
Front(p, q, a) == \A i \in DOMAIN p : i + a \in DOMAIN q /\ q[i + a] = p[i]

\* What is copied next follows what was copied.
LEMMA NextFollow ==
    ASSUME NEW p \in Seq(Batch), NEW q \in Seq(Batch), Sorted(q), Positive(q),
           Front(p, q, 0), NEW room \in Int,
           NEW last, last = IF p = <<>> THEN 0 ELSE p[Len(p)].id
    PROVE  Front(p \o NextBatches(q, last, room), q, 0)
<1> DEFINE k == Len(p)
           from == CHOOSE i \in 1..(Len(q) + 1) :
                      \A j \in DOMAIN q : j < i <=> q[j].id <= last
           to == IF from + room - 1 < Len(q) THEN from + room - 1 ELSE Len(q)
           more == NextBatches(q, last, room)
<1>1. /\ DOMAIN q = 1..Len(q) /\ Len(q) \in Nat
      /\ DOMAIN p = 1..k /\ k \in Nat
  BY LenProperties
<1> HIDE DEF k
<1>2. p = <<>> <=> k = 0
  BY EmptySeq, LenProperties DEF k
<1>3. ASSUME k # 0 PROVE k \in DOMAIN q /\ q[k].id = last /\ last \in Nat
  <2>1. k \in DOMAIN p /\ k + 0 = k
    BY <1>1, <1>3
  <2>2. k \in DOMAIN q /\ q[k] = p[k]
    BY <2>1 DEF Front
  <2>3. last = p[k].id
    BY <1>2, <1>3 DEF k
  <2> QED
    BY <2>2, <2>3, BatchAt
<1>4. k = 0 => last = 0
  BY <1>2
<1>5. last \in Nat
  BY <1>1, <1>3, <1>4
<1>6. from \in 1..(Len(q) + 1) /\ \A j \in DOMAIN q : j < from <=> q[j].id <= last
  BY <1>5, BatchesBegin
<1>7. more = SubSeq(q, from, to)
  BY DEF NextBatches
<1> HIDE DEF from
<1>8. to \in Int /\ to <= Len(q)
  BY <1>1, <1>6
<1> HIDE DEF to
<1>9. from = k + 1
  <2>1. from > k
    <3>1. CASE k = 0
      BY <1>1, <1>6, <3>1
    <3>2. CASE k # 0
      <4>1. k < from
        BY <1>3, <1>6, <3>2
      <4> QED
        BY <1>1, <1>6, <4>1
    <3> QED
      BY <3>1, <3>2
  <2>2. ~(from > k + 1)
    <3> SUFFICES ASSUME from > k + 1 PROVE FALSE
      OBVIOUS
    <3>1. k + 1 \in DOMAIN q /\ k + 1 < from
      BY <1>1, <1>6
    <3>2. q[k + 1].id <= last
      BY <1>6, <3>1
    <3>3. q[k + 1].id \in Nat
      BY <3>1, BatchAt
    <3>4. CASE k = 0
      <4>1. q[k + 1].id > 0
        BY <3>1 DEF Positive
      <4> QED
        BY <1>4, <3>2, <3>3, <3>4, <4>1
    <3>5. CASE k # 0
      <4>1. k \in DOMAIN q /\ k < k + 1
        BY <1>1, <1>3, <3>5
      <4>2. q[k].id < q[k + 1].id
        BY <3>1, <4>1 DEF Sorted
      <4> QED
        BY <1>3, <3>2, <3>3, <3>5, <4>2
    <3> QED
      BY <3>4, <3>5
  <2> QED
    BY <1>1, <1>6, <2>1, <2>2
<1>10. \A i \in from..to : q[i] \in Batch
  BY <1>1, <1>6, <1>8
<1>11. /\ more \in Seq(Batch)
       /\ Len(more) = IF from <= to THEN to - from + 1 ELSE 0
       /\ \A i \in 1..(to - from + 1) : more[i] = q[from + i - 1]
  <2>1. from \in Int
    BY <1>6
  <2>2. SubSeq(q, from, to) \in Seq(Batch)
    BY <1>8, <1>10, <2>1, SubSeqProperties
  <2>3. Len(SubSeq(q, from, to)) = IF from <= to THEN to - from + 1 ELSE 0
    BY <1>8, <1>10, <2>1, SubSeqProperties
  <2>4. \A i \in 1..(to - from + 1) : SubSeq(q, from, to)[i] = q[from + i - 1]
    BY <1>8, <1>10, <2>1, SubSeqProperties
  <2> HIDE DEF more
  <2> QED
    BY <1>7, <2>2, <2>3, <2>4, Zenon
<1> HIDE DEF more
<1>12. Len(more) = IF k < to THEN to - k ELSE 0
  <2>1. from <= to <=> k < to
    BY <1>1, <1>8, <1>9
  <2>2. to - from + 1 = to - k
    BY <1>1, <1>8, <1>9
  <2> QED
    BY <1>11, <2>1, <2>2
<1> DEFINE c == p \o more
<1>13. /\ c \in Seq(Batch) /\ Len(c) = k + Len(more)
       /\ \A i \in 1..(k + Len(more)) : c[i] = IF i <= k THEN p[i] ELSE more[i - k]
  BY <1>11, ConcatProperties DEF k
<1> HIDE DEF c
<1>14. ASSUME NEW i \in DOMAIN c
       PROVE  i + 0 \in DOMAIN q /\ q[i + 0] = c[i]
  <2>1. i \in 1..(k + Len(more)) /\ i + 0 = i /\ i \in Nat
    BY <1>1, <1>12, <1>13, LenProperties
  <2>2. CASE i <= k
    <3>1. i \in DOMAIN p /\ c[i] = p[i]
      BY <1>1, <1>13, <2>1, <2>2
    <3> QED
      BY <3>1 DEF Front
  <2>3. CASE ~(i <= k)
    <3>1. k < to /\ Len(more) = to - k
      BY <1>1, <1>8, <1>12, <2>1, <2>3
    <3>2. i - k \in 1..(to - from + 1) /\ from + (i - k) - 1 = i /\ i \in 1..Len(q)
      BY <1>1, <1>8, <1>9, <2>1, <2>3, <3>1
    <3>3. c[i] = more[i - k]
      BY <1>13, <2>1, <2>3
    <3>4. more[i - k] = q[i]
      BY <1>11, <3>2
    <3> QED
      BY <1>1, <2>1, <3>2, <3>3, <3>4
  <2> QED
    BY <2>1, <2>2, <2>3
<1> QED
  BY <1>14 DEF Front, c, more

\* Filling adds to the pipeline and leaves what was sent and answered alone.
LEMMA StartKeeps ==
    ASSUME NEW r \in Stream, NEW n
    PROVE  LET s == StartWriteStream(r, n)
           IN  /\ s.pipeline = r.pipeline /\ s.inbox = r.inbox /\ s.ended = r.ended
               /\ s.hello = r.hello
  BY DEF StartWriteStream, RequestCredentials, Stream

LEMMA FillFront ==
    ASSUME NEW r, GoodStream(r), NEW q \in Seq(Batch), Sorted(q), Positive(q),
           Front(r.pipeline, q, 0), NEW n \in Nat
    PROVE  LET s == FillWritePipeline(r, q, n)
           IN  /\ Front(s.pipeline, q, 0) /\ s.inbox = r.inbox /\ s.ended = r.ended
               /\ s.hello = r.hello
<1> DEFINE last == IF r.pipeline = <<>> THEN 0 ELSE r.pipeline[Len(r.pipeline)].id
           more == NextBatches(q, last, MaxPending - Len(r.pipeline))
           live == r.state = "Open" /\ HandshakeComplete(r)
           idle == CASE more # <<>> /\ live -> FALSE
                     [] more = <<>> /\ r.pipeline = <<>> /\ r.state = "Open" -> TRUE
                     [] OTHER -> r.idle
           s == [r EXCEPT !.pipeline = @ \o more,
                          !.outbox = IF live THEN @ \o more ELSE @,
                          !.idle = idle]
<1>1. r \in Stream /\ r.pipeline \in Seq(Batch)
  BY DEF GoodStream, Stream
<1>2. MaxPending - Len(r.pipeline) \in Int
  BY <1>1, BoundsAssumption
<1>3. Front(r.pipeline \o more, q, 0)
  BY <1>1, <1>2, NextFollow
<1>4. Filled(r, q) = s
  BY DEF Filled
<1> HIDE DEF idle, live, more, last
<1>5. /\ s.pipeline = r.pipeline \o more /\ s.inbox = r.inbox /\ s.ended = r.ended
      /\ s.hello = r.hello
  BY <1>1 DEF Stream
<1>6. s \in Stream
  BY <1>4, FilledGood DEF GoodStream
<1> HIDE DEF s
<1> QED
  BY <1>3, <1>4, <1>5, <1>6, FillStarts, StartKeeps

\* The first n batches of the queue are carried out, and the next is refused if
\* the stream was ended by the server.
Ahead(n, ended, q, s) ==
    /\ \A i \in 1..n : i \in DOMAIN q /\ q[i].w \in s.done
    /\ ended => n + 1 \in DOMAIN q /\ q[n + 1].w \in s.refused

PositiveIds == store.nextId > 0 /\ \A u \in Users : Positive(store.queue[u])

\* The pipeline follows the batch A that is about to be removed, which is the
\* oldest; what was answered is carried out.
FrontOK(r, q, A, s) ==
    /\ Front(r.pipeline, q, Len(A))
    /\ Ahead(r.inbox + Len(A), r.ended, q, s)
    /\ A # <<>> => q # <<>> /\ A = <<q[1]>>
    /\ r.ended => r.hello = "done"

FrontInv == FrontOK(remote, Queue, engine.acking, server) /\ PositiveIds

LEMMA PositiveStep ==
    ASSUME IInv, PositiveIds, Next
    PROVE  PositiveIds'
<1>1. /\ store.queue \in [Users -> Seq(Batch)] /\ store.nextId \in Nat
      /\ store \in [queue : [Users -> Seq(Batch)], nextId : Nat]
      /\ \A u \in Users : store.queue[u] \in Seq(Batch) /\ Sorted(store.queue[u])
      /\ Fresh(store.queue, store.nextId)
      /\ engine.user \in Users
  BY DEF IInv, TypeOK, StoreOK
<1>2. /\ store.nextId > 0 /\ \A u \in Users : Positive(store.queue[u])
  BY DEF PositiveIds
<1>3. LoadNextBatchId(store.queue) > 0
  BY <1>1, NextIdIsFresh
<1>4. CASE UNCHANGED store
  BY <1>4 DEF PositiveIds
<1>5. CASE store'.queue = store.queue /\ store'.nextId = LoadNextBatchId(store.queue)
  BY <1>2, <1>3, <1>5 DEF PositiveIds
<1>6. ASSUME NEW b, store' = [store EXCEPT !.queue[engine.user] = Without(@, b)]
      PROVE  PositiveIds'
  <2>1. \A u \in Users : store'.queue[u] = IF u = engine.user
                                            THEN Without(store.queue[u], b) ELSE store.queue[u]
    BY <1>1, <1>6
  <2>2. store'.nextId = store.nextId
    BY <1>1, <1>6
  <2>3. ASSUME NEW u \in Users PROVE Positive(Without(store.queue[u], b))
    <3>1. \A j \in DOMAIN Without(store.queue[u], b) :
             \E i \in DOMAIN store.queue[u] : Without(store.queue[u], b)[j] = store.queue[u][i]
      BY <1>1, WithoutKeeps
    <3> QED
      BY <1>2, <3>1 DEF Positive
  <2> QED
    BY <1>2, <2>1, <2>2, <2>3 DEF PositiveIds
<1>7. CASE WriteLocally
  <2> DEFINE b == [id |-> store.nextId, w |-> Head(tasks).w]
             Q == Append(Queue, b)
  <2>1. store' = [queue |-> [store.queue EXCEPT ![engine.user] = Q],
                  nextId |-> store.nextId + 1]
    BY <1>1, <1>7 DEF WriteLocally, Queue
  <2>2. \A u \in Users : store'.queue[u] = IF u = engine.user THEN Q ELSE store.queue[u]
    BY <1>1, <2>1
  <2>3. store'.nextId > 0
    BY <1>1, <1>2, <2>1
  <2>4. b \in Batch
    <3>1. Head(tasks) \in Jobs /\ Head(tasks).kind = "write"
      BY <1>7, QueueSteps DEF WriteLocally, Task, IInv, TypeOK
    <3> QED
      BY <1>1, <3>1, JobKinds DEF Batch
  <2>5. Queue \in Seq(Batch) /\ Positive(Queue) /\ b.id > 0
    BY <1>1, <1>2 DEF Queue
  <2> HIDE DEF b
  <2>6. Positive(Q)
    <3>1. /\ DOMAIN Q = DOMAIN Queue \cup {Len(Queue) + 1} /\ Q[Len(Queue) + 1] = b
          /\ \A i \in DOMAIN Queue : Q[i] = Queue[i]
      BY <2>4, <2>5, QueueMore
    <3> QED
      BY <2>5, <3>1 DEF Positive
  <2> HIDE DEF Q
  <2> QED
    BY <1>2, <2>2, <2>3, <2>6 DEF PositiveIds
<1>8. CASE HandleCredentialChange
  <2>1. \/ UNCHANGED store
        \/ store'.queue = store.queue /\ store'.nextId = LoadNextBatchId(store.queue)
    BY <1>1, <1>8 DEF HandleCredentialChange
  <2> QED
    BY <1>4, <1>5, <2>1
<1>9. CASE \E u \in Users : Restart(u)
  <2>1. store'.queue = store.queue /\ store'.nextId = LoadNextBatchId(store.queue)
    BY <1>1, <1>9 DEF Restart
  <2> QED
    BY <1>5, <2>1
<1>10. CASE AcknowledgeBatch
  <2>1. store' = [store EXCEPT !.queue[engine.user] = Without(@, engine.acking[1])]
    BY <1>10 DEF AcknowledgeBatch
  <2> QED
    BY <1>6, <2>1
<1>11. CASE HandleWriteError
  <2>1. store' = [store EXCEPT !.queue[engine.user] = Without(@, Head(remote.pipeline))]
    BY <1>11 DEF HandleWriteError
  <2> QED
    BY <1>6, <2>1
<1> QED
  BY <1>4, <1>7, <1>8, <1>9, <1>10, <1>11
     DEF Next, Worker, Server, Main, Auth, WriteMutations, ChangeUser, ReadUser, AnswerToken,
         HearChange, HearToken, RunHandler, ResumeStart, BackoffElapsed, IdleTimeout,
         CompleteHandshake, MutationResult, StreamBreaks, ServerGreets, ServerCommits,
         ServerRefuses

\* The oldest write that was sent and not answered is the first in the queue
\* that is not known to be carried out.
LEMMA SentNext ==
    ASSUME IInv, FrontInv, remote.outbox # <<>>
    PROVE  LET n == remote.inbox + Len(engine.acking)
           IN  /\ n \in Nat /\ remote.hello = "done"
               /\ n + 1 \in DOMAIN Queue /\ Queue[n + 1] = Head(remote.outbox)
<1> DEFINE a == Len(engine.acking)
           n == remote.inbox
<1>1. /\ remote.pipeline \in Seq(Batch) /\ remote.outbox \in Seq(Batch) /\ n \in Nat
      /\ engine.acking \in Seq(Batch)
  BY DEF IInv, TypeOK, Stream
<1>2. a \in Nat /\ Len(remote.outbox) \in Nat /\ Len(remote.outbox) # 0
      /\ Head(remote.outbox) = remote.outbox[1]
  BY <1>1, LenProperties, EmptySeq, QueueRest
<1>3. remote.hello = "done" /\ Alike(remote.pipeline, remote.outbox, n)
  BY DEF IInv, LinkOK
<1>4. Front(remote.pipeline, Queue, a)
  BY DEF FrontInv, FrontOK
<1> HIDE DEF a, n
<1>5. n + 1 \in DOMAIN remote.pipeline /\ remote.outbox[1] = remote.pipeline[n + 1]
  <2>1. 1 \in 1..Len(remote.outbox) /\ Len(remote.pipeline) = n + Len(remote.outbox)
    BY <1>2, <1>3 DEF Alike
  <2>2. DOMAIN remote.pipeline = 1..Len(remote.pipeline)
    BY <1>1, LenProperties
  <2> QED
    BY <1>1, <1>2, <1>3, <2>1, <2>2 DEF Alike
<1>6. (n + 1) + a = (n + a) + 1 /\ n + a \in Nat
  BY <1>1, <1>2
<1>7. (n + 1) + a \in DOMAIN Queue /\ Queue[(n + 1) + a] = remote.pipeline[n + 1]
  BY <1>4, <1>5 DEF Front
<1> QED
  BY <1>2, <1>3, <1>5, <1>6, <1>7 DEF a, n

-----------------------------------------------------------------------------
(* How the steps keep the front.                                           *)

\* What FrontOK says of a stream is kept by one with the same pipeline and answers.
LEMMA FrontSame ==
    ASSUME NEW r, NEW q, NEW A, NEW v, FrontOK(r, q, A, v), NEW s,
           s.pipeline = r.pipeline, s.inbox = r.inbox, s.ended = r.ended,
           s.hello = r.hello \/ ~r.ended
    PROVE  FrontOK(s, q, A, v)
  BY DEF FrontOK

\* A stream that was closed has no answers; the pipeline stays.
LEMMA FrontQuiet ==
    ASSUME NEW r, NEW q, NEW v, FrontOK(r, q, <<>>, v), NEW s,
           s.pipeline = r.pipeline, s.inbox = 0, s.ended = FALSE
    PROVE  FrontOK(s, q, <<>>, v)
<1>1. Len(<<>>) = 0 /\ s.inbox + Len(<<>>) = 0
  OBVIOUS
<1>2. 1..0 = {}
  OBVIOUS
<1>3. Ahead(0, FALSE, q, v)
  BY <1>2 DEF Ahead
<1> QED
  BY <1>1, <1>3 DEF FrontOK

LEMMA FrontFill ==
    ASSUME NEW r, GoodStream(r), NEW q \in Seq(Batch), Sorted(q), Positive(q), NEW v,
           FrontOK(r, q, <<>>, v), NEW n \in Nat
    PROVE  FrontOK(FillWritePipeline(r, q, n), q, <<>>, v)
<1> DEFINE s == FillWritePipeline(r, q, n)
<1>1. Len(<<>>) = 0
  OBVIOUS
<1>2. Front(r.pipeline, q, 0)
  BY <1>1 DEF FrontOK
<1>3. /\ Front(s.pipeline, q, 0) /\ s.inbox = r.inbox /\ s.ended = r.ended
      /\ s.hello = r.hello
  BY <1>2, FillFront
<1> HIDE DEF s
<1>4. FrontOK(s, q, <<>>, v)
  BY <1>1, <1>3 DEF FrontOK
<1> QED
  BY <1>4 DEF s

\* A stream that is closed and started again, and one that is stopped.
LEMMA ClosedQuiet ==
    ASSUME NEW r \in Stream, NEW s \in {"Initial", "Error"}, NEW n
    PROVE  /\ Closed(r, s).pipeline = r.pipeline /\ Closed(r, s).inbox = 0
           /\ Closed(r, s).ended = FALSE
           /\ StartWriteStream(Closed(r, s), n).pipeline = r.pipeline
           /\ StartWriteStream(Closed(r, s), n).inbox = 0
           /\ StartWriteStream(Closed(r, s), n).ended = FALSE
<1>1. Closed(r, s) \in Stream
  BY ClosedGood DEF GoodStream
<1>2. /\ Closed(r, s).pipeline = r.pipeline /\ Closed(r, s).inbox = 0
      /\ Closed(r, s).ended = FALSE
  BY DEF Closed, NoLink, Stream
<1> QED
  BY <1>1, <1>2, StartKeeps

LEMMA StoppedQuiet ==
    ASSUME NEW r, GoodStream(r), r.ended => r.hello = "done", NEW n
    PROVE  /\ Stop(r).pipeline = r.pipeline /\ Stop(r).inbox = 0 /\ Stop(r).ended = FALSE
           /\ StartWriteStream(Stop(r), n).pipeline = r.pipeline
           /\ StartWriteStream(Stop(r), n).inbox = 0
           /\ StartWriteStream(Stop(r), n).ended = FALSE
<1>1. Stop(r) \in Stream /\ r \in Stream
  BY StopGood DEF GoodStream
<1>2. Stop(r).pipeline = r.pipeline /\ Stop(r).inbox = 0 /\ Stop(r).ended = FALSE
  <2>1. CASE IsStarted(r)
    BY <1>1, <2>1, ClosedQuiet DEF Stop
  <2>2. CASE ~IsStarted(r)
    <3>1. r.hello = "none"
      BY <2>2 DEF GoodStream, LinkOK, IsStarted
    <3>2. r.inbox = 0 /\ r.ended = FALSE
      BY <1>1, <3>1 DEF GoodStream, LinkOK, Stream
    <3> QED
      BY <2>2, <3>2 DEF Stop
  <2> QED
    BY <2>1, <2>2
<1> QED
  BY <1>1, <1>2, StartKeeps

\* What is after the first batch of a queue is in its rest.
LEMMA InTheRest ==
    ASSUME NEW q \in Seq(Batch), q # <<>>, NEW i \in Nat, i # 0, i + 1 \in DOMAIN q
    PROVE  i \in DOMAIN Tail(q) /\ Tail(q)[i] = q[i + 1]
<1>1. DOMAIN q = 1..Len(q) /\ Len(q) \in Nat
  BY LenProperties
<1>2. /\ Tail(q) \in Seq(Batch) /\ Len(Tail(q)) = Len(q) - 1
      /\ \A j \in 1..(Len(q) - 1) : Tail(q)[j] = q[j + 1]
  BY HeadTailProperties
<1>3. DOMAIN Tail(q) = 1..(Len(q) - 1)
  BY <1>2, LenProperties
<1>4. i \in 1..(Len(q) - 1)
  BY <1>1
<1> QED
  BY <1>2, <1>3, <1>4

\* The oldest batch is answered: it leaves the pipeline and is still stored.
LEMMA FrontAnswered ==
    ASSUME NEW r, r.pipeline \in Seq(Batch), r.pipeline # <<>>, r.inbox \in Nat, r.inbox # 0,
           NEW q \in Seq(Batch), NEW v, FrontOK(r, q, <<>>, v), NEW s,
           s.pipeline = Tail(r.pipeline), s.inbox = r.inbox - 1, s.ended = r.ended,
           s.hello = r.hello
    PROVE  FrontOK(s, q, <<Head(r.pipeline)>>, v)
<1> DEFINE p == r.pipeline
           A == <<Head(p)>>
<1>1. Len(<<>>) = 0 /\ Len(A) = 1 /\ A # <<>>
  OBVIOUS
<1>2. /\ 1 \in DOMAIN p /\ Head(p) = p[1]
      /\ \A i \in DOMAIN Tail(p) : i \in Nat /\ i + 1 \in DOMAIN p /\ Tail(p)[i] = p[i + 1]
  BY QueueRest
<1>3. ASSUME NEW i \in DOMAIN p PROVE i \in DOMAIN q /\ q[i] = p[i]
  <2>1. i + 0 \in DOMAIN q /\ q[i + 0] = p[i]
    BY <1>1 DEF FrontOK, Front
  <2>2. i \in Nat
    <3>1. DOMAIN p = 1..Len(p)
      BY LenProperties
    <3> QED
      BY <3>1
  <2> QED
    BY <2>1, <2>2
<1>4. q # <<>> /\ Head(p) = q[1]
  <2>1. 1 \in DOMAIN q /\ q[1] = p[1]
    BY <1>2, <1>3
  <2>2. DOMAIN q = 1..Len(q) /\ Len(q) \in Nat
    BY LenProperties
  <2>3. Len(q) # 0
    BY <2>1, <2>2
  <2> QED
    BY <1>2, <2>1, <2>3, EmptySeq
<1>5. Front(Tail(p), q, 1)
  BY <1>2, <1>3 DEF Front
<1>6. s.inbox + 1 = r.inbox /\ r.inbox + 0 = r.inbox
  OBVIOUS
<1>7. Ahead(s.inbox + 1, s.ended, q, v)
  <2>1. Ahead(r.inbox + 0, r.ended, q, v)
    BY <1>1 DEF FrontOK
  <2> QED
    BY <1>6, <2>1
<1>8. s.ended => s.hello = "done"
  BY DEF FrontOK
<1>9. s.pipeline = Tail(p)
  OBVIOUS
<1> HIDE DEF p
<1>10. FrontOK(s, q, A, v)
  BY <1>1, <1>4, <1>5, <1>7, <1>8, <1>9 DEF FrontOK
<1> QED
  BY <1>10 DEF p

\* The oldest batch is removed.
LEMMA FrontRemoved ==
    ASSUME NEW r, r.pipeline \in Seq(Batch), r.inbox \in Nat, NEW q \in Seq(Batch), NEW v,
           q # <<>>, NEW A, A = <<q[1]>>, FrontOK(r, q, A, v)
    PROVE  FrontOK(r, Tail(q), <<>>, v)
<1> DEFINE t == Tail(q)
           n == r.inbox
<1>1. Len(<<>>) = 0 /\ Len(A) = 1
  OBVIOUS
<1>2. n + 0 = n /\ n \in Nat
  OBVIOUS
<1>3. Front(r.pipeline, t, 0)
  <2> SUFFICES ASSUME NEW i \in DOMAIN r.pipeline
               PROVE  i + 0 \in DOMAIN t /\ t[i + 0] = r.pipeline[i]
    BY DEF Front
  <2>1. i \in Nat /\ i # 0 /\ i + 0 = i
    <3>1. DOMAIN r.pipeline = 1..Len(r.pipeline)
      BY LenProperties
    <3> QED
      BY <3>1
  <2>2. i + 1 \in DOMAIN q /\ q[i + 1] = r.pipeline[i]
    BY <1>1 DEF FrontOK, Front
  <2> QED
    BY <2>1, <2>2, InTheRest
<1>4. Ahead(n + 1, r.ended, q, v) /\ (r.ended => r.hello = "done")
  BY <1>1 DEF FrontOK
<1> HIDE DEF n
<1>5. ASSUME NEW i \in 1..n PROVE i \in DOMAIN t /\ t[i].w \in v.done
  <2>1. i + 1 \in 1..(n + 1) /\ i \in Nat /\ i # 0
    BY <1>2
  <2>2. i + 1 \in DOMAIN q /\ q[i + 1].w \in v.done
    BY <1>4, <2>1 DEF Ahead
  <2> QED
    BY <2>1, <2>2, InTheRest
<1>6. r.ended => n + 1 \in DOMAIN t /\ t[n + 1].w \in v.refused
  <2> SUFFICES ASSUME r.ended PROVE n + 1 \in DOMAIN t /\ t[n + 1].w \in v.refused
    OBVIOUS
  <2>1. n + 1 \in Nat /\ n + 1 # 0
    BY <1>2
  <2>2. (n + 1) + 1 \in DOMAIN q /\ q[(n + 1) + 1].w \in v.refused
    BY <1>4 DEF Ahead
  <2> QED
    BY <2>1, <2>2, InTheRest
<1> HIDE DEF t
<1>7. Ahead(n, r.ended, t, v)
  BY <1>5, <1>6 DEF Ahead
<1>8. FrontOK(r, t, <<>>, v)
  BY <1>1, <1>2, <1>3, <1>4, <1>7 DEF FrontOK, n
<1> QED
  BY <1>8 DEF t

\* A batch is added to the queue.
LEMMA FrontMore ==
    ASSUME NEW r, NEW q \in Seq(Batch), NEW b \in Batch, NEW v, FrontOK(r, q, <<>>, v)
    PROVE  FrontOK(r, Append(q, b), <<>>, v)
<1> DEFINE c == Append(q, b)
<1>1. \A i \in DOMAIN q : i \in DOMAIN c /\ c[i] = q[i]
  BY QueueMore
<1> HIDE DEF c
<1>2. FrontOK(r, c, <<>>, v)
  <2>1. Front(r.pipeline, c, Len(<<>>))
    BY <1>1 DEF FrontOK, Front
  <2>2. Ahead(r.inbox + Len(<<>>), r.ended, c, v)
    BY <1>1 DEF FrontOK, Ahead
  <2> QED
    BY <2>1, <2>2 DEF FrontOK
<1> QED
  BY <1>2 DEF c

LEMMA FrontInit == Init => FrontInv
<1> SUFFICES ASSUME Init PROVE FrontInv
  OBVIOUS
<1>1. /\ remote = FreshRemote /\ engine.acking = <<>> /\ store.nextId = 1
      /\ \A u \in Users : store.queue[u] = <<>>
  BY DEF Init
<1>2. Front(<<>>, Queue, Len(<<>>)) /\ FreshRemote.pipeline = <<>>
  BY DEF Front, FreshRemote
<1>3. FreshRemote.inbox + Len(<<>>) = 0 /\ 1..0 = {} /\ ~FreshRemote.ended
  BY DEF FreshRemote
<1>4. Ahead(0, FreshRemote.ended, Queue, server)
  BY <1>3 DEF Ahead
<1>5. FrontOK(FreshRemote, Queue, <<>>, server)
  BY <1>2, <1>3, <1>4 DEF FrontOK
<1>6. PositiveIds
  BY <1>1 DEF PositiveIds, Positive
<1> QED
  BY <1>1, <1>5, <1>6 DEF FrontInv

LEMMA FrontStep ==
    ASSUME IInv, FrontInv, Next, ~failed'
    PROVE  FrontInv'
<1>1. /\ GoodStream(remote) /\ remote \in Stream /\ remote.pipeline \in Seq(Batch)
      /\ remote.inbox \in Nat
      /\ FrontOK(remote, Queue, engine.acking, server)
      /\ (remote.ended => remote.hello = "done")
  BY DEF IInv, TypeOK, GoodStream, FrontInv, FrontOK, Stream
<1>2. /\ auth.counter \in Nat /\ engine.user \in Users
      /\ \A u \in Users : store.queue[u] \in Seq(Batch) /\ Sorted(store.queue[u])
                          /\ Positive(store.queue[u])
      /\ Queue \in Seq(Batch) /\ Sorted(Queue)
      /\ engine \in [user : Users, acking : Seq(Batch),
                     callbacks : SUBSET [user : Users, id : Nat, w : Writes]]
      /\ store.queue \in [Users -> Seq(Batch)] /\ store \in [queue : [Users -> Seq(Batch)], nextId : Nat]
      /\ server \in [done : SUBSET Writes, refused : SUBSET Writes]
  BY DEF IInv, TypeOK, StoreOK, Queue, FrontInv, PositiveIds
<1>3. PositiveIds'
  BY PositiveStep DEF FrontInv
<1>4. \A u \in Users : /\ store'.queue[u] \in Seq(Batch) /\ Sorted(store'.queue[u])
                      /\ Positive(store'.queue[u])
  <2>1. StoreOK' /\ TypeOK'
    BY StreamStep, TypeStep
  <2>2. store'.queue \in [Users -> Seq(Batch)]
    BY <2>1 DEF TypeOK
  <2> QED
    BY <1>3, <2>1, <2>2 DEF StoreOK, PositiveIds
<1>5. ASSUME UNCHANGED <<engine, store, server>>,
             FrontOK(remote', Queue, engine.acking, server)
      PROVE  FrontInv'
  BY <1>3, <1>5 DEF FrontInv, Queue
<1>6. ASSUME UNCHANGED <<engine, store, server>>, remote'.pipeline = remote.pipeline,
             remote'.inbox = remote.inbox, remote'.ended = remote.ended,
             remote'.hello = remote.hello \/ ~remote.ended
      PROVE  FrontInv'
  BY <1>1, <1>5, <1>6, FrontSame
<1>7. ASSUME UNCHANGED <<engine, store, server>>, engine.acking = <<>>,
             remote'.pipeline = remote.pipeline, remote'.inbox = 0, remote'.ended = FALSE
      PROVE  FrontInv'
  BY <1>1, <1>5, <1>7, FrontQuiet
<1>8. CASE \/ \E w \in Writes : WriteMutations(w)
           \/ \E u \in Users : ChangeUser(u)
           \/ Main
  BY <1>6, <1>8 DEF WriteMutations, ChangeUser, Main, HearChange, HearToken, RunHandler
<1>9. CASE Auth \/ \E f \in remote.fetches : AnswerToken(f, FALSE)
  <2>1. UNCHANGED <<engine, store, server>>
    BY <1>9 DEF Auth, ReadUser, AnswerToken
  <2>2. \E fetches : remote' = [remote EXCEPT !.fetches = fetches]
    BY <1>9 DEF Auth, ReadUser, AnswerToken
  <2> QED
    BY <1>1, <1>6, <2>1, <2>2 DEF Stream
<1>10. CASE ServerGreets
  BY <1>1, <1>6, <1>10 DEF ServerGreets, Stream
<1>11. CASE ServerCommits
  <2> DEFINE n == remote.inbox + Len(engine.acking)
             w == Head(remote.outbox).w
  <2>1. /\ UNCHANGED <<engine, store>> /\ remote.outbox # <<>> /\ ~remote.ended
        /\ server' = [server EXCEPT !.done = @ \union {w}]
        /\ remote' = [remote EXCEPT !.outbox = Tail(@), !.inbox = @ + 1]
    BY <1>11 DEF ServerCommits
  <2>2. n \in Nat /\ n + 1 \in DOMAIN Queue /\ Queue[n + 1].w = w
    BY <2>1, SentNext
  <2>3. /\ remote'.pipeline = remote.pipeline /\ remote'.inbox = remote.inbox + 1
        /\ ~remote'.ended
    BY <1>1, <2>1 DEF Stream
  <2>4. remote'.inbox + Len(engine.acking) = n + 1
    <3>1. Len(engine.acking) \in Nat
      BY <1>2, LenProperties
    <3> QED
      BY <1>1, <2>3, <3>1
  <2>5. w \in server'.done /\ server.done \subseteq server'.done
    BY <1>2, <2>1
  <2>6. Ahead(n, remote.ended, Queue, server)
    BY <1>1 DEF FrontOK
  <2> HIDE DEF n, w
  <2>7. Ahead(n + 1, remote'.ended, Queue, server')
    <3> SUFFICES ASSUME NEW i \in 1..(n + 1)
                 PROVE  i \in DOMAIN Queue /\ Queue[i].w \in server'.done
      BY <2>3 DEF Ahead
    <3>1. i \in 1..n \/ i = n + 1
      BY <2>2
    <3> QED
      BY <2>2, <2>5, <2>6, <3>1 DEF Ahead
  <2>8. FrontOK(remote', Queue, engine.acking, server')
    BY <1>1, <2>3, <2>4, <2>7 DEF FrontOK
  <2> QED
    BY <1>3, <2>1, <2>8 DEF FrontInv, Queue
<1>12. CASE ServerRefuses
  <2> DEFINE n == remote.inbox + Len(engine.acking)
             w == Head(remote.outbox).w
  <2>1. /\ UNCHANGED <<engine, store>> /\ remote.outbox # <<>>
        /\ server' = [server EXCEPT !.refused = @ \union {w}]
        /\ remote' = [remote EXCEPT !.ended = TRUE]
    BY <1>12 DEF ServerRefuses
  <2>2. n + 1 \in DOMAIN Queue /\ Queue[n + 1].w = w /\ remote.hello = "done"
    BY <2>1, SentNext
  <2>3. /\ remote'.pipeline = remote.pipeline /\ remote'.inbox = remote.inbox
        /\ remote'.hello = remote.hello
    BY <1>1, <2>1 DEF Stream
  <2>4. w \in server'.refused /\ server'.done = server.done
    BY <1>2, <2>1
  <2>5. Ahead(n, remote.ended, Queue, server)
    BY <1>1 DEF FrontOK
  <2> HIDE DEF w
  <2>6. Ahead(n, remote'.ended, Queue, server')
    BY <2>2, <2>4, <2>5 DEF Ahead
  <2>7. FrontOK(remote', Queue, engine.acking, server')
    BY <1>1, <2>2, <2>3, <2>6 DEF FrontOK
  <2> QED
    BY <1>3, <2>1, <2>7 DEF FrontInv, Queue
<1>13. CASE ResumeStart
  <2>1. UNCHANGED <<engine, store, server>> /\ engine.acking = <<>>
    BY <1>13 DEF ResumeStart, Task, Free
  <2>2. CASE UNCHANGED remote
    BY <1>6, <2>1, <2>2
  <2>3. CASE remote' = StartWriteStream(Closed(remote, "Error"), auth.counter)
    BY <1>1, <1>7, <2>1, <2>3, ClosedQuiet
  <2>4. CASE /\ remote.state = "Starting"
             /\ remote' = [remote EXCEPT !.state = "Open", !.hello = "sent",
                                         !.idle = FALSE, !.as = Head(tasks).as]
    <3>1. ~remote.ended
      BY <1>1, <2>4 DEF GoodStream, LinkOK
    <3>2. /\ remote'.pipeline = remote.pipeline /\ remote'.inbox = remote.inbox
          /\ remote'.ended = remote.ended
      BY <1>1, <2>4 DEF Stream
    <3> QED
      BY <1>6, <2>1, <3>1, <3>2
  <2> QED
    BY <1>13, <2>2, <2>3, <2>4 DEF ResumeStart
<1>14. CASE BackoffElapsed
  <2>1. /\ UNCHANGED <<engine, store, server>>
        /\ remote' = RequestCredentials(remote, auth.counter)
    BY <1>14 DEF BackoffElapsed
  <2>2. /\ remote'.pipeline = remote.pipeline /\ remote'.inbox = remote.inbox
        /\ remote'.ended = remote.ended /\ remote'.hello = remote.hello
    BY <1>1, <2>1 DEF RequestCredentials, Stream
  <2> QED
    BY <1>6, <2>1, <2>2
<1>15. CASE IdleTimeout
  BY <1>1, <1>7, <1>15, StoppedQuiet DEF IdleTimeout, Free
<1>16. CASE CompleteHandshake
  <2>1. /\ UNCHANGED <<engine, store, server>>
        /\ remote'.pipeline = remote.pipeline /\ remote'.inbox = remote.inbox
        /\ remote'.ended = remote.ended
    BY <1>1, <1>16 DEF CompleteHandshake, Stream
  <2>2. ~remote.ended
    BY <1>1, <1>16 DEF CompleteHandshake
  <2> QED
    BY <1>6, <2>1, <2>2
<1>17. CASE StreamBreaks
  BY <1>1, <1>7, <1>17, ClosedQuiet DEF StreamBreaks, Free
<1>18. CASE WriteLocally
  <2> DEFINE b == [id |-> store.nextId, w |-> Head(tasks).w]
             Q == Append(Queue, b)
  <2>1. /\ store' = [queue |-> [store.queue EXCEPT ![engine.user] = Q],
                     nextId |-> store.nextId + 1]
        /\ remote' = FillWritePipeline(remote, store'.queue[engine.user], auth.counter)
        /\ engine.acking = <<>> /\ server' = server
        /\ engine'.user = engine.user /\ engine'.acking = engine.acking
    BY <1>2, <1>18 DEF WriteLocally, Queue, Task, Free
  <2>2. store'.queue[engine.user] = Q /\ Queue' = Q
    BY <1>2, <2>1 DEF Queue
  <2>3. b \in Batch
    <3>1. Head(tasks) \in Jobs /\ Head(tasks).kind = "write"
      BY <1>18, QueueSteps DEF WriteLocally, Task, IInv, TypeOK
    <3> QED
      BY <1>2, <3>1, JobKinds DEF Batch
  <2> HIDE DEF b
  <2>4. FrontOK(remote, Q, <<>>, server)
    BY <1>1, <1>2, <2>1, <2>3, FrontMore
  <2>5. Q \in Seq(Batch) /\ Sorted(Q) /\ Positive(Q)
    BY <1>2, <1>4, <2>2
  <2> HIDE DEF Q
  <2>6. FrontOK(remote', Q, <<>>, server)
    BY <1>1, <1>2, <2>1, <2>2, <2>4, <2>5, FrontFill
  <2> QED
    BY <1>3, <2>1, <2>2, <2>6 DEF FrontInv
<1>19. CASE HandleCredentialChange
  <2>1. Head(tasks) \in Jobs /\ Head(tasks).kind = "credential"
    BY <1>19, QueueSteps DEF HandleCredentialChange, Task, IInv, TypeOK
  <2> DEFINE u == Head(tasks).user
             r == [Stop(remote) EXCEPT !.pipeline = <<>>]
  <2>2. /\ u \in Users /\ engine' = [engine EXCEPT !.user = u] /\ server' = server
        /\ store'.queue = store.queue /\ engine.acking = <<>>
        /\ remote' = FillWritePipeline(r, store.queue[u], auth.counter)
    BY <1>2, <1>19, <2>1, JobKinds DEF HandleCredentialChange, Task, Free
  <2>3. Stop(remote) \in Stream /\ GoodStream(Stop(remote)) /\ Stop(remote).hello = "none"
        /\ Stop(remote).inbox = 0 /\ Stop(remote).ended = FALSE
    BY <1>1, StopGood, StoppedQuiet DEF GoodStream
  <2>4. GoodStream(r)
    <3>1. <<>> \in Seq(Batch)
      OBVIOUS
    <3> QED
      BY <2>3, <3>1, PipelineGood
  <2>5. r.pipeline = <<>> /\ r.inbox = 0 /\ r.ended = FALSE
    BY <2>3 DEF Stream
  <2> HIDE DEF r, u
  <2>6. FrontOK(r, store.queue[u], <<>>, server)
    <3>1. Front(<<>>, store.queue[u], Len(<<>>))
      BY DEF Front
    <3>2. 0 + Len(<<>>) = 0 /\ 1..0 = {}
      OBVIOUS
    <3>3. Ahead(0, FALSE, store.queue[u], server)
      BY <3>2 DEF Ahead
    <3> QED
      BY <2>5, <3>1, <3>2, <3>3 DEF FrontOK
  <2>7. engine'.user = u /\ engine'.acking = <<>> /\ Queue' = store.queue[u]
    BY <1>2, <2>2 DEF Queue
  <2>8. FrontOK(remote', store.queue[u], <<>>, server)
    BY <1>2, <2>2, <2>4, <2>6, FrontFill
  <2> QED
    BY <1>3, <2>2, <2>7, <2>8 DEF FrontInv
<1>20. CASE MutationResult
  <2>1. remote.pipeline # <<>> /\ engine.acking = <<>> /\ remote.inbox # 0
    <3>1. remote.pipeline = <<>> => failed'
      BY <1>20 DEF MutationResult
    <3>2. remote.inbox > 0 /\ engine.acking = <<>>
      BY <1>20 DEF MutationResult, Free
    <3> QED
      BY <1>1, <3>1, <3>2
  <2>2. /\ store' = store /\ server' = server
        /\ remote' = [remote EXCEPT !.inbox = @ - 1, !.pipeline = Tail(@)]
        /\ engine'.acking = <<Head(remote.pipeline)>> /\ engine'.user = engine.user
    BY <1>2, <1>20, <2>1 DEF MutationResult
  <2>3. /\ remote'.pipeline = Tail(remote.pipeline) /\ remote'.inbox = remote.inbox - 1
        /\ remote'.ended = remote.ended /\ remote'.hello = remote.hello
    BY <1>1, <2>2 DEF Stream
  <2>4. FrontOK(remote', Queue, <<Head(remote.pipeline)>>, server)
    BY <1>1, <1>2, <2>1, <2>3, FrontAnswered
  <2>5. Queue' = Queue
    BY <2>2 DEF Queue
  <2> QED
    BY <1>3, <2>2, <2>4, <2>5 DEF FrontInv
<1>21. CASE AcknowledgeBatch
  <2>1. /\ engine.acking # <<>> /\ engine' = [engine EXCEPT !.acking = <<>>]
        /\ store' = [store EXCEPT !.queue[engine.user] = Without(Queue, engine.acking[1])]
        /\ remote' = FillWritePipeline(remote, store'.queue[engine.user], auth.counter)
        /\ server' = server
    BY <1>21 DEF AcknowledgeBatch, Free, Queue
  <2>2. Queue # <<>> /\ engine.acking = <<Queue[1]>>
    BY <1>1, <2>1 DEF FrontOK
  <2>3. engine.acking[1] = Queue[1]
    BY <2>2
  <2>4. Without(Queue, engine.acking[1]) = Tail(Queue)
    BY <1>2, <2>2, <2>3, WithoutFirst
  <2>5. /\ store'.queue[engine.user] = Tail(Queue) /\ Queue' = Tail(Queue)
        /\ engine'.acking = <<>>
    BY <1>2, <2>1, <2>4 DEF Queue
  <2>6. FrontOK(remote, Tail(Queue), <<>>, server)
    BY <1>1, <1>2, <2>2, FrontRemoved
  <2>7. Tail(Queue) \in Seq(Batch) /\ Sorted(Tail(Queue)) /\ Positive(Tail(Queue))
    BY <1>2, <1>4, <2>5
  <2>8. FrontOK(remote', Tail(Queue), <<>>, server)
    BY <1>1, <1>2, <2>1, <2>5, <2>6, <2>7, FrontFill
  <2> QED
    BY <1>3, <2>1, <2>5, <2>8 DEF FrontInv
<1>22. CASE HandleWriteError
  <2> DEFINE b == Head(remote.pipeline)
             t == Tail(remote.pipeline)
             c == Closed(remote, "Initial")
             r == [c EXCEPT !.pipeline = t]
  <2>1. /\ remote.pipeline # <<>> /\ engine.acking = <<>> /\ server' = server
        /\ store' = [store EXCEPT !.queue[engine.user] = Without(Queue, b)]
        /\ engine'.acking = <<>> /\ engine'.user = engine.user
        /\ remote' = FillWritePipeline(r, store'.queue[engine.user], auth.counter)
    <3>1. c.pipeline = remote.pipeline
      BY <1>1, ClosedQuiet
    <3> HIDE DEF c
    <3> QED
      BY <1>2, <1>22, <3>1 DEF HandleWriteError, Free, Queue, c
  <2>2. c.inbox = 0 /\ c.ended = FALSE /\ GoodStream(c) /\ c.hello = "none"
    BY <1>1, ClosedGood, ClosedQuiet
  <2>3. t \in Seq(Batch)
    BY <1>1, <2>1, HeadTailProperties
  <2>4. \A i \in DOMAIN t : i \in Nat /\ i + 1 \in DOMAIN remote.pipeline
                            /\ t[i] = remote.pipeline[i + 1]
    BY <1>1, <2>1, QueueRest
  <2>5. 1 \in DOMAIN remote.pipeline /\ b = remote.pipeline[1]
    BY <1>1, <2>1, QueueRest
  <2> HIDE DEF b, t, c
  <2>6. GoodStream(r) /\ r.pipeline = t /\ r.inbox = 0 /\ r.ended = FALSE
    BY <2>2, <2>3, PipelineGood DEF GoodStream, Stream
  <2> HIDE DEF r
  <2>7. \A i \in DOMAIN remote.pipeline : i + 0 \in DOMAIN Queue
                                          /\ Queue[i + 0] = remote.pipeline[i]
    <3>1. Len(<<>>) = 0
      OBVIOUS
    <3> QED
      BY <1>1, <2>1, <3>1 DEF FrontOK, Front
  <2>8. Queue # <<>> /\ Queue[1] = b
    <3>1. 1 + 0 = 1
      OBVIOUS
    <3>2. 1 \in DOMAIN Queue /\ Queue[1] = b
      BY <2>5, <2>7, <3>1
    <3>3. DOMAIN Queue = 1..Len(Queue) /\ Len(Queue) \in Nat
      BY <1>2, LenProperties
    <3>4. Len(Queue) # 0
      BY <3>2, <3>3
    <3> QED
      BY <1>2, <3>2, <3>4, EmptySeq
  <2>9. Without(Queue, b) = Tail(Queue)
    BY <1>2, <2>8, WithoutFirst
  <2>10. store'.queue[engine.user] = Tail(Queue) /\ Queue' = Tail(Queue)
    BY <1>2, <2>1, <2>9 DEF Queue
  <2>11. Front(t, Tail(Queue), 0)
    <3> SUFFICES ASSUME NEW i \in DOMAIN t
                 PROVE  i + 0 \in DOMAIN Tail(Queue) /\ Tail(Queue)[i + 0] = t[i]
      BY DEF Front
    <3>1. i \in Nat /\ i # 0 /\ i + 0 = i /\ (i + 1) + 0 = i + 1
      <4>1. DOMAIN t = 1..Len(t)
        BY <2>3, LenProperties
      <4> QED
        BY <4>1
    <3>2. (i + 1) + 0 \in DOMAIN Queue /\ Queue[(i + 1) + 0] = t[i]
      BY <2>4, <2>7
    <3> QED
      BY <1>2, <2>8, <3>1, <3>2, InTheRest
  <2>12. FrontOK(r, Tail(Queue), <<>>, server)
    <3>1. Len(<<>>) = 0 /\ 0 + Len(<<>>) = 0 /\ 1..0 = {}
      OBVIOUS
    <3>2. Ahead(0, FALSE, Tail(Queue), server)
      BY <3>1 DEF Ahead
    <3> QED
      BY <2>6, <2>11, <3>1, <3>2 DEF FrontOK
  <2>13. Tail(Queue) \in Seq(Batch) /\ Sorted(Tail(Queue)) /\ Positive(Tail(Queue))
    BY <1>2, <1>4, <2>10
  <2>14. FrontOK(remote', Tail(Queue), <<>>, server)
    BY <1>2, <2>1, <2>6, <2>10, <2>12, <2>13, FrontFill
  <2> QED
    BY <1>3, <2>1, <2>10, <2>14 DEF FrontInv
<1>23. CASE \E u \in Users : Restart(u)
  <2>1. PICK u \in Users : Restart(u)
    BY <1>23
  <2>2. /\ engine'.user = u /\ engine'.acking = <<>> /\ store'.queue = store.queue
        /\ remote' = FillWritePipeline(FreshRemote, store.queue[u], 0)
        /\ server' = server
    BY <1>2, <2>1 DEF Restart
  <2>3. Queue' = store.queue[u]
    BY <2>2 DEF Queue
  <2>4. FrontOK(FreshRemote, store.queue[u], <<>>, server)
    <3>1. Front(<<>>, store.queue[u], Len(<<>>)) /\ FreshRemote.pipeline = <<>>
      BY DEF Front, FreshRemote
    <3>2. FreshRemote.inbox + Len(<<>>) = 0 /\ 1..0 = {} /\ ~FreshRemote.ended
      BY DEF FreshRemote
    <3>3. Ahead(0, FreshRemote.ended, store.queue[u], server)
      BY <3>2 DEF Ahead
    <3> QED
      BY <3>1, <3>2, <3>3 DEF FrontOK
  <2>5. FrontOK(remote', store.queue[u], <<>>, server)
    BY <1>2, <2>2, <2>4, FreshGood, FrontFill
  <2> QED
    BY <1>3, <2>2, <2>3, <2>5 DEF FrontInv
<1> QED
  BY <1>8, <1>9, <1>10, <1>11, <1>12, <1>13, <1>14, <1>15, <1>16, <1>17, <1>18,
     <1>19, <1>20, <1>21, <1>22, <1>23 DEF Next, Worker, Server

-----------------------------------------------------------------------------
(* A write is stored once.                                                 *)

\* A write is in one batch or in one task of the worker, and was called for.
Once(queue, T, known) ==
    /\ \A u, v \in Users : \A i \in DOMAIN queue[u], j \in DOMAIN queue[v] :
          queue[u][i].w = queue[v][j].w => u = v /\ queue[u][i] = queue[v][j]
    /\ \A u \in Users : \A j \in DOMAIN queue[u] : known[queue[u][j].w] # "uncalled"
    /\ \A i \in DOMAIN T : T[i].kind = "write" =>
          /\ known[T[i].w] # "uncalled"
          /\ \A u \in Users : \A j \in DOMAIN queue[u] : queue[u][j].w # T[i].w
    /\ \A i, j \in DOMAIN T :
          T[i].kind = "write" /\ T[j].kind = "write" /\ T[i].w = T[j].w => i = j

OnceInv == Once(store.queue, tasks, told)

LEMMA OnceLess ==
    ASSUME NEW queue, NEW T, NEW known, Once(queue, T, known), NEW less,
           \A u \in Users : \A j \in DOMAIN less[u] :
              \E i \in DOMAIN queue[u] : less[u][j] = queue[u][i]
    PROVE  Once(less, T, known)
<1>1. ASSUME NEW u \in Users, NEW v \in Users, NEW i \in DOMAIN less[u],
             NEW j \in DOMAIN less[v], less[u][i].w = less[v][j].w
      PROVE  u = v /\ less[u][i] = less[v][j]
  <2>1. PICK k \in DOMAIN queue[u] : less[u][i] = queue[u][k]
    OBVIOUS
  <2>2. PICK l \in DOMAIN queue[v] : less[v][j] = queue[v][l]
    OBVIOUS
  <2>3. queue[u][k].w = queue[v][l].w
    BY <1>1, <2>1, <2>2
  <2>4. u = v /\ queue[u][k] = queue[v][l]
    BY <2>3 DEF Once
  <2> QED
    BY <2>1, <2>2, <2>4
<1>2. \A u \in Users : \A j \in DOMAIN less[u] : known[less[u][j].w] # "uncalled"
  BY DEF Once
<1>3. \A i \in DOMAIN T : T[i].kind = "write" =>
          /\ known[T[i].w] # "uncalled"
          /\ \A u \in Users : \A j \in DOMAIN less[u] : less[u][j].w # T[i].w
  BY DEF Once
<1>4. \A i, j \in DOMAIN T :
          T[i].kind = "write" /\ T[j].kind = "write" /\ T[i].w = T[j].w => i = j
  BY DEF Once
<1> QED
  BY <1>1, <1>2, <1>3, <1>4 DEF Once

LEMMA OnceTold ==
    ASSUME NEW queue, NEW T, NEW known, Once(queue, T, known), NEW more,
           \A w : more[w] = "uncalled" => known[w] = "uncalled"
    PROVE  Once(queue, T, more)
  BY DEF Once

LEMMA OnceRest ==
    ASSUME NEW queue, NEW T \in Seq(Jobs), NEW known, Once(queue, T, known), T # <<>>
    PROVE  Once(queue, Tail(T), known)
<1> DEFINE t == Tail(T)
<1>1. \A i \in DOMAIN t : i \in Nat /\ i + 1 \in DOMAIN T /\ t[i] = T[i + 1]
  BY QueueRest
<1> HIDE DEF t
<1>2. \A i \in DOMAIN t : t[i].kind = "write" =>
          /\ known[t[i].w] # "uncalled"
          /\ \A u \in Users : \A j \in DOMAIN queue[u] : queue[u][j].w # t[i].w
  BY <1>1 DEF Once
<1>3. ASSUME NEW i \in DOMAIN t, NEW j \in DOMAIN t, t[i].kind = "write",
             t[j].kind = "write", t[i].w = t[j].w
      PROVE  i = j
  <2>1. i + 1 = j + 1
    BY <1>1, <1>3 DEF Once
  <2> QED
    BY <1>1, <2>1
<1>4. Once(queue, t, known)
  BY <1>2, <1>3 DEF Once
<1> QED
  BY <1>4 DEF t

\* A task that is no write is queued.
LEMMA OnceQueued ==
    ASSUME NEW queue, NEW T \in Seq(Jobs), NEW known, Once(queue, T, known),
           NEW m \in Jobs, m.kind # "write"
    PROVE  Once(queue, Append(T, m), known)
<1> DEFINE c == Append(T, m)
<1>1. /\ \A i \in DOMAIN c : i \in DOMAIN T \/ c[i] = m
      /\ \A i \in DOMAIN T : c[i] = T[i]
  BY QueueMore
<1> HIDE DEF c
<1>2. \A i \in DOMAIN c : c[i].kind = "write" => i \in DOMAIN T /\ c[i] = T[i]
  BY <1>1
<1>3. Once(queue, c, known)
  BY <1>2 DEF Once
<1> QED
  BY <1>3 DEF c

\* A write is called for.
LEMMA OnceCalled ==
    ASSUME NEW queue, NEW T \in Seq(Jobs), NEW known, Once(queue, T, known),
           NEW w \in Writes, known[w] = "uncalled", NEW more, more[w] # "uncalled",
           \A v : more[v] = "uncalled" => known[v] = "uncalled"
    PROVE  Once(queue, Append(T, Write(w)), more)
<1> DEFINE m == Write(w)
           c == Append(T, m)
<1>1. m \in Jobs /\ m.w = w
  BY Posted DEF Write
<1> HIDE DEF m
<1>2. /\ \A i \in DOMAIN c : (i \in DOMAIN T /\ c[i] = T[i]) \/ (i = Len(T) + 1 /\ c[i] = m)
  BY <1>1, QueueMore
<1> HIDE DEF c
<1>3. \A i \in DOMAIN T : T[i].kind = "write" => T[i].w # w
  BY DEF Once
<1>4. \A u \in Users : \A j \in DOMAIN queue[u] : queue[u][j].w # w
  BY DEF Once
<1>5. Once(queue, T, more)
  BY OnceTold
<1>6. ASSUME NEW i \in DOMAIN c, c[i].kind = "write"
      PROVE  /\ more[c[i].w] # "uncalled"
             /\ \A u \in Users : \A j \in DOMAIN queue[u] : queue[u][j].w # c[i].w
  <2>1. CASE i \in DOMAIN T /\ c[i] = T[i]
    BY <1>5, <1>6, <2>1 DEF Once
  <2>2. CASE c[i] = m
    BY <1>1, <1>4, <2>2
  <2> QED
    BY <1>2, <2>1, <2>2
<1>7. ASSUME NEW i \in DOMAIN c, NEW j \in DOMAIN c, c[i].kind = "write",
             c[j].kind = "write", c[i].w = c[j].w
      PROVE  i = j
  <2>1. CASE i \in DOMAIN T /\ c[i] = T[i] /\ j \in DOMAIN T /\ c[j] = T[j]
    BY <1>5, <1>7, <2>1 DEF Once
  <2>2. CASE i \in DOMAIN T /\ c[i] = T[i] /\ c[j] = m
    BY <1>1, <1>3, <1>7, <2>2
  <2>3. CASE j \in DOMAIN T /\ c[j] = T[j] /\ c[i] = m
    BY <1>1, <1>3, <1>7, <2>3
  <2> QED
    BY <1>2, <2>1, <2>2, <2>3
<1>8. Once(queue, c, more)
  BY <1>5, <1>6, <1>7 DEF Once
<1> QED
  BY <1>8 DEF c, m

\* A write moves from the tasks to a queue.
LEMMA OnceStored ==
    ASSUME NEW queue, NEW T \in Seq(Jobs), NEW known, Once(queue, T, known),
           T # <<>>, Head(T).kind = "write", NEW e \in Users, NEW b, b.w = Head(T).w,
           NEW stored,
           \A u \in Users : \A j \in DOMAIN stored[u] :
              \/ j \in DOMAIN queue[u] /\ stored[u][j] = queue[u][j]
              \/ u = e /\ stored[u][j] = b
    PROVE  Once(stored, Tail(T), known)
<1> DEFINE t == Tail(T)
           w == Head(T).w
<1>1. /\ 1 \in DOMAIN T /\ Head(T) = T[1]
      /\ \A i \in DOMAIN t : i \in Nat /\ i + 1 \in DOMAIN T /\ t[i] = T[i + 1] /\ i + 1 # 1
  BY QueueRest
<1>2. Once(queue, t, known)
  BY OnceRest
<1> HIDE DEF t
<1>3. known[w] # "uncalled" /\ \A u \in Users : \A j \in DOMAIN queue[u] : queue[u][j].w # w
  BY <1>1 DEF Once
<1>4. \A i \in DOMAIN t : t[i].kind = "write" => t[i].w # w
  BY <1>1 DEF Once
<1> HIDE DEF w
<1>5. b.w = w
  BY DEF w
<1>6. ASSUME NEW u \in Users, NEW v \in Users, NEW i \in DOMAIN stored[u],
             NEW j \in DOMAIN stored[v], stored[u][i].w = stored[v][j].w
      PROVE  u = v /\ stored[u][i] = stored[v][j]
  <2>1. CASE /\ i \in DOMAIN queue[u] /\ stored[u][i] = queue[u][i]
             /\ j \in DOMAIN queue[v] /\ stored[v][j] = queue[v][j]
    BY <1>2, <1>6, <2>1 DEF Once
  <2>2. CASE /\ i \in DOMAIN queue[u] /\ stored[u][i] = queue[u][i]
             /\ v = e /\ stored[v][j] = b
    BY <1>3, <1>5, <1>6, <2>2
  <2>3. CASE /\ j \in DOMAIN queue[v] /\ stored[v][j] = queue[v][j]
             /\ u = e /\ stored[u][i] = b
    BY <1>3, <1>5, <1>6, <2>3
  <2>4. CASE u = e /\ stored[u][i] = b /\ v = e /\ stored[v][j] = b
    BY <2>4
  <2> QED
    BY <2>1, <2>2, <2>3, <2>4
<1>7. ASSUME NEW u \in Users, NEW j \in DOMAIN stored[u]
      PROVE  known[stored[u][j].w] # "uncalled"
  BY <1>2, <1>3, <1>5 DEF Once
<1>8. ASSUME NEW i \in DOMAIN t, t[i].kind = "write"
      PROVE  /\ known[t[i].w] # "uncalled"
             /\ \A u \in Users : \A j \in DOMAIN stored[u] : stored[u][j].w # t[i].w
  BY <1>2, <1>4, <1>5, <1>8 DEF Once
<1>9. \A i, j \in DOMAIN t :
          t[i].kind = "write" /\ t[j].kind = "write" /\ t[i].w = t[j].w => i = j
  BY <1>2 DEF Once
<1>10. Once(stored, t, known)
  BY <1>6, <1>7, <1>8, <1>9 DEF Once
<1> QED
  BY <1>10 DEF t

LEMMA OnceInit == Init => OnceInv
  BY DEF Init, OnceInv, Once

LEMMA OnceStep ==
    ASSUME IInv, OnceInv, Next
    PROVE  OnceInv'
<1>1. /\ Once(store.queue, tasks, told) /\ tasks \in Seq(Jobs) /\ mainQ \in Seq(Messages)
      /\ told \in [Writes -> {"uncalled", "waiting", "ok", "error"}]
      /\ engine.user \in Users
      /\ \A u \in Users : store.queue[u] \in Seq(Batch) /\ Sorted(store.queue[u])
      /\ store \in [queue : [Users -> Seq(Batch)], nextId : Nat]
      /\ store.queue \in [Users -> Seq(Batch)]
  BY DEF OnceInv, IInv, TypeOK, StoreOK
<1>2. CASE UNCHANGED <<tasks, told>> /\ store'.queue = store.queue
  BY <1>1, <1>2 DEF OnceInv
<1>3. CASE \E w \in Writes : WriteMutations(w)
  <2>1. PICK w \in Writes : WriteMutations(w)
    BY <1>3
  <2>2. /\ told[w] = "uncalled" /\ told' = [told EXCEPT ![w] = "waiting"]
        /\ tasks' = Append(tasks, Write(w)) /\ store' = store
    BY <2>1 DEF WriteMutations
  <2>3. told'[w] # "uncalled" /\ \A v : told'[v] = "uncalled" => told[v] = "uncalled"
    BY <1>1, <2>2
  <2> QED
    BY <1>1, <2>2, <2>3, OnceCalled DEF OnceInv
<1>4. CASE HearChange
  <2>1. /\ mainQ # <<>> /\ Head(mainQ).kind = "notice" /\ UNCHANGED <<store, told>>
        /\ tasks' = Append(tasks, Credential(Head(mainQ).user))
    BY <1>4 DEF HearChange
  <2>2. Head(mainQ) \in Messages
    BY <1>1, <2>1, QueueSteps
  <2>3. Head(mainQ).user \in Users
    BY <2>1, <2>2, MessageKinds
  <2>4. Credential(Head(mainQ).user) \in Jobs
    BY <2>3, Posted
  <2>5. Credential(Head(mainQ).user).kind # "write"
    BY DEF Credential
  <2> QED
    BY <1>1, <2>1, <2>4, <2>5, OnceQueued DEF OnceInv
<1>5. CASE HearToken
  <2> DEFINE t == Head(mainQ)
             m == [t EXCEPT !.ok = @ /\ t.counter = auth.counter]
  <2>1. /\ mainQ # <<>> /\ t.kind = "token" /\ UNCHANGED <<store, told>>
        /\ tasks' = Append(tasks, m)
    BY <1>5 DEF HearToken
  <2>2. t \in Tokens
    BY <1>1, <2>1, QueueSteps, MessageKinds
  <2>3. (t.ok /\ t.counter = auth.counter) \in BOOLEAN
    OBVIOUS
  <2>4. m = [t EXCEPT !.ok = t.ok /\ t.counter = auth.counter]
    BY <2>2 DEF Tokens
  <2>5. m \in Jobs
    BY <2>2, <2>3, <2>4, Posted
  <2>6. m.kind = "token"
    BY <2>2 DEF Tokens
  <2> HIDE DEF m
  <2> QED
    BY <1>1, <2>1, <2>5, <2>6, OnceQueued DEF OnceInv
<1>6. CASE RunHandler
  <2>1. UNCHANGED <<tasks, store>>
    BY <1>6 DEF RunHandler
  <2>2. \A w : told'[w] = "uncalled" => told[w] = "uncalled"
    <3>1. PICK w, a : a # "uncalled" /\ told' = [told EXCEPT ![w] = a]
      BY <1>6 DEF RunHandler
    <3> QED
      BY <1>1, <3>1
  <2> QED
    BY <1>1, <2>1, <2>2, OnceTold DEF OnceInv
<1>7. CASE UNCHANGED told /\ store'.queue = store.queue /\ tasks # <<>> /\ tasks' = Tail(tasks)
  BY <1>1, <1>7, OnceRest DEF OnceInv
<1>8. CASE ResumeStart \/ HandleCredentialChange
  <2>1. UNCHANGED told /\ tasks # <<>> /\ tasks' = Tail(tasks)
    BY <1>8 DEF ResumeStart, HandleCredentialChange, Task
  <2>2. store'.queue = store.queue
    BY <1>1, <1>8 DEF ResumeStart, HandleCredentialChange
  <2> QED
    BY <1>7, <2>1, <2>2
<1>9. CASE WriteLocally
  <2> DEFINE b == [id |-> store.nextId, w |-> Head(tasks).w]
             Q == Append(Queue, b)
  <2>1. /\ store' = [queue |-> [store.queue EXCEPT ![engine.user] = Q],
                     nextId |-> store.nextId + 1]
        /\ tasks # <<>> /\ Head(tasks).kind = "write" /\ tasks' = Tail(tasks)
        /\ told' = told
    BY <1>1, <1>9 DEF WriteLocally, Queue, Task
  <2>2. \A u \in Users : store'.queue[u] = IF u = engine.user THEN Q ELSE store.queue[u]
    BY <1>1, <2>1
  <2>3. b \in Batch /\ b.w = Head(tasks).w
    <3>1. Head(tasks) \in Jobs
      BY <1>1, <2>1, QueueSteps
    <3> QED
      BY <1>1, <2>1, <3>1, JobKinds DEF Batch
  <2> HIDE DEF b
  <2>4. \A j \in DOMAIN Q : (j \in DOMAIN Queue /\ Q[j] = Queue[j]) \/ Q[j] = b
    <3>1. Queue \in Seq(Batch)
      BY <1>1 DEF Queue
    <3> QED
      BY <2>3, <3>1, QueueMore
  <2> HIDE DEF Q
  <2>5. \A u \in Users : \A j \in DOMAIN store'.queue[u] :
              \/ j \in DOMAIN store.queue[u] /\ store'.queue[u][j] = store.queue[u][j]
              \/ u = engine.user /\ store'.queue[u][j] = b
    BY <2>2, <2>4 DEF Queue
  <2>6. Once(store.queue, tasks, told) /\ tasks \in Seq(Jobs) /\ engine.user \in Users
    BY <1>1
  <2>7. tasks # <<>> /\ Head(tasks).kind = "write" /\ b.w = Head(tasks).w
    BY <2>1, <2>3
  <2>8. Once(store'.queue, Tail(tasks), told)
    BY <2>5, <2>6, <2>7, OnceStored, SMTT(30)
  <2> QED
    BY <2>1, <2>8 DEF OnceInv
<1>10. ASSUME NEW b, store' = [store EXCEPT !.queue[engine.user] = Without(@, b)],
              UNCHANGED <<tasks, told>>
       PROVE  OnceInv'
  <2>1. \A u \in Users : store'.queue[u] = IF u = engine.user
                                            THEN Without(store.queue[u], b) ELSE store.queue[u]
    BY <1>1, <1>10
  <2>2. \A u \in Users : \A j \in DOMAIN store'.queue[u] :
           \E i \in DOMAIN store.queue[u] : store'.queue[u][j] = store.queue[u][i]
    <3> SUFFICES ASSUME NEW u \in Users, NEW j \in DOMAIN store'.queue[u]
                 PROVE  \E i \in DOMAIN store.queue[u] : store'.queue[u][j] = store.queue[u][i]
      OBVIOUS
    <3>1. CASE u = engine.user
      <4>1. store'.queue[u] = Without(store.queue[u], b)
        BY <2>1, <3>1
      <4>2. \A k \in DOMAIN Without(store.queue[u], b) :
               \E i \in DOMAIN store.queue[u] : Without(store.queue[u], b)[k] = store.queue[u][i]
        BY <1>1, WithoutKeeps
      <4> QED
        BY <4>1, <4>2
    <3>2. CASE u # engine.user
      BY <2>1, <3>2
    <3> QED
      BY <3>1, <3>2
  <2> QED
    BY <1>1, <1>10, <2>2, OnceLess DEF OnceInv
<1>11. CASE AcknowledgeBatch
  BY <1>10, <1>11 DEF AcknowledgeBatch
<1>12. CASE HandleWriteError
  BY <1>10, <1>12 DEF HandleWriteError
<1>13. CASE \E u \in Users : Restart(u)
  <2>1. store'.queue = store.queue /\ tasks' = <<>> /\ told' = told
    BY <1>1, <1>13 DEF Restart
  <2>2. Once(store.queue, <<>>, told)
    BY <1>1 DEF Once
  <2> QED
    BY <2>1, <2>2 DEF OnceInv
<1> QED
  BY <1>2, <1>3, <1>4, <1>5, <1>6, <1>8, <1>9, <1>11, <1>12, <1>13
     DEF Next, Worker, Server, Main, Auth, ChangeUser, ReadUser, AnswerToken, BackoffElapsed,
         IdleTimeout, CompleteHandshake, MutationResult, StreamBreaks, ServerGreets,
         ServerCommits, ServerRefuses


\* What the steps of the refinement rest on.
RInv == AInv /\ FrontInv /\ OnceInv

LEMMA RInvInit == Init => RInv
  BY AInvInit, FrontInit, OnceInit DEF RInv

LEMMA RInvNext == RInv /\ [Next]_vars => RInv'
<1> SUFFICES ASSUME RInv, [Next]_vars PROVE RInv'
  OBVIOUS
<1>1. AInv /\ AInv'
  BY AInvNext DEF RInv
<1>2. CASE Next
  BY <1>1, <1>2, FrontStep, OnceStep DEF RInv, AInv
<1>3. CASE UNCHANGED vars
  <2>1. UNCHANGED <<store, engine, remote, server, tasks, told>>
    BY <1>3 DEF vars
  <2> QED
    BY <1>1, <2>1 DEF RInv, FrontInv, PositiveIds, OnceInv, Queue
<1> QED
  BY <1>2, <1>3

LEMMA RInvariance == Spec => []RInv
<1> QED
  BY RInvInit, RInvNext, PTL DEF Spec

-----------------------------------------------------------------------------
(* The writes and the answers of a queue, as the queue grows and shrinks.  *)

Each(q, f)    == [i \in DOMAIN q |-> f[q[i]]]
Maps(f, M, S) == f \in [M -> S]

LEMMA EachType ==
    ASSUME NEW M, NEW S, NEW f, Maps(f, M, S), NEW q \in Seq(M)
    PROVE  /\ Each(q, f) \in Seq(S) /\ Len(Each(q, f)) = Len(q)
           /\ \A i \in 1..Len(q) : Each(q, f)[i] = f[q[i]]
<1>1. DOMAIN q = 1..Len(q) /\ Len(q) \in Nat /\ \A i \in 1..Len(q) : q[i] \in M
  BY LenProperties
<1>2. Each(q, f) \in [1..Len(q) -> S] /\ \A i \in 1..Len(q) : Each(q, f)[i] = f[q[i]]
  BY <1>1 DEF Each, Maps
<1> HIDE DEF Each
<1>3. Each(q, f) \in Seq(S)
  BY <1>1, <1>2
<1>4. DOMAIN Each(q, f) = 1..Len(Each(q, f)) /\ Len(Each(q, f)) \in Nat
  BY <1>3, LenProperties
<1> QED
  BY <1>1, <1>2, <1>3, <1>4

LEMMA EachNone ==
    ASSUME NEW M, NEW S, NEW f, Maps(f, M, S)
    PROVE  Each(<<>>, f) = <<>>
<1>1. <<>> \in Seq(M) /\ Len(<<>>) = 0
  OBVIOUS
<1> DEFINE e == <<>>
           r == Each(e, f)
<1>2. e \in Seq(M) /\ Len(e) = 0
  BY <1>1
<1> HIDE DEF e
<1>3. r \in Seq(S)
  BY <1>2, EachType
<1>a. Len(r) = Len(e)
  <2>1. \A q \in Seq(M) : Len(Each(q, f)) = Len(q)
    BY EachType
  <2> QED
    BY <1>2, <2>1, Zenon
<1>4. Len(r) = 0
  BY <1>2, <1>a, Zenon
<1> HIDE DEF r
<1>5. r = <<>>
  BY <1>3, <1>4, EmptySeq
<1> QED
  BY <1>5 DEF r, e

LEMMA EachMore ==
    ASSUME NEW M, NEW S, NEW f, Maps(f, M, S), NEW q \in Seq(M), NEW m \in M
    PROVE  Each(Append(q, m), f) = Append(Each(q, f), f[m])
<1> DEFINE c == Append(q, m)
           s == Each(c, f)
           t == Append(Each(q, f), f[m])
<1>1. /\ c \in Seq(M) /\ Len(c) = Len(q) + 1 /\ c[Len(q) + 1] = m
      /\ \A i \in 1..Len(q) : c[i] = q[i]
  BY AppendProperties
<1>2. Len(q) \in Nat
  BY LenProperties
<1> HIDE DEF c
<1>3. s \in Seq(S) /\ Len(s) = Len(q) + 1 /\ \A i \in 1..(Len(q) + 1) : s[i] = f[c[i]]
  <2>1. s \in Seq(S)
    BY <1>1, EachType
  <2>2. Len(s) = Len(c)
    BY <1>1, EachType
  <2>3. \A i \in 1..Len(c) : s[i] = f[c[i]]
    BY <1>1, EachType
  <2> HIDE DEF s
  <2> QED
    BY <1>1, <2>1, <2>2, <2>3
<1>4. Each(q, f) \in Seq(S) /\ Len(Each(q, f)) = Len(q)
      /\ \A i \in 1..Len(q) : Each(q, f)[i] = f[q[i]]
  BY EachType
<1>5. t \in Seq(S) /\ Len(t) = Len(q) + 1 /\ t[Len(q) + 1] = f[m]
      /\ \A i \in 1..Len(q) : t[i] = Each(q, f)[i]
  <2> DEFINE r == Each(q, f)
  <2>1. r \in Seq(S) /\ f[m] \in S /\ Len(r) = Len(q)
    BY <1>4 DEF Maps
  <2> HIDE DEF r
  <2>2. /\ Append(r, f[m]) \in Seq(S) /\ Len(Append(r, f[m])) = Len(r) + 1
        /\ Append(r, f[m])[Len(r) + 1] = f[m]
        /\ \A i \in 1..Len(r) : Append(r, f[m])[i] = r[i]
    BY <2>1, AppendProperties
  <2> QED
    BY <2>1, <2>2, Zenon DEF r
<1> HIDE DEF s, t
<1>6. ASSUME NEW i \in 1..(Len(q) + 1) PROVE s[i] = t[i]
  <2>1. i \in 1..Len(q) \/ i = Len(q) + 1
    BY <1>2
  <2> QED
    BY <1>1, <1>3, <1>4, <1>5, <2>1
<1>7. s = t
  BY <1>3, <1>5, <1>6, SeqEqual
<1> QED
  BY <1>7 DEF s, t, c

LEMMA EachRest ==
    ASSUME NEW M, NEW S, NEW f, Maps(f, M, S), NEW q \in Seq(M), q # <<>>
    PROVE  /\ Each(q, f) # <<>> /\ Head(Each(q, f)) = f[Head(q)]
           /\ Tail(Each(q, f)) = Each(Tail(q), f)
<1> DEFINE r == Each(q, f)
           s == Tail(r)
           t == Each(Tail(q), f)
<1>1. Len(q) \in Nat /\ Len(q) # 0
  BY LenProperties, EmptySeq
<1>2. /\ Head(q) = q[1] /\ Tail(q) \in Seq(M) /\ Len(Tail(q)) = Len(q) - 1
      /\ \A i \in 1..(Len(q) - 1) : Tail(q)[i] = q[i + 1]
  <2>1. Head(q) = q[1]
    BY QueueRest
  <2>2. Tail(q) \in Seq(M) /\ Len(Tail(q)) = Len(q) - 1
    BY HeadTailProperties
  <2>3. \A i \in 1..Len(Tail(q)) : Tail(q)[i] = q[i + 1]
    BY HeadTailProperties
  <2> QED
    BY <2>1, <2>2, <2>3, Zenon
<1>3. r \in Seq(S) /\ Len(r) = Len(q) /\ \A i \in 1..Len(q) : r[i] = f[q[i]]
  BY EachType
<1> HIDE DEF r
<1>4. r # <<>>
  BY <1>1, <1>3, EmptySeq
<1>5. t \in Seq(S) /\ Len(t) = Len(q) - 1 /\ \A i \in 1..(Len(q) - 1) : t[i] = f[Tail(q)[i]]
  <2> DEFINE u == Tail(q)
  <2>1. u \in Seq(M) /\ Len(u) = Len(q) - 1
    BY <1>2
  <2> HIDE DEF u
  <2>2. /\ Each(u, f) \in Seq(S) /\ Len(Each(u, f)) = Len(u)
        /\ \A i \in 1..Len(u) : Each(u, f)[i] = f[u[i]]
    BY <2>1, EachType
  <2> QED
    BY <2>1, <2>2, Zenon DEF u
<1>6. /\ Head(r) = r[1] /\ s \in Seq(S) /\ Len(s) = Len(q) - 1
      /\ \A i \in 1..(Len(q) - 1) : s[i] = r[i + 1]
  BY <1>3, <1>4, HeadTailProperties, QueueRest
<1> HIDE DEF s, t
<1>7. ASSUME NEW i \in 1..(Len(q) - 1) PROVE s[i] = t[i]
  <2>1. i + 1 \in 1..Len(q)
    BY <1>1
  <2> QED
    BY <1>2, <1>3, <1>5, <1>6, <2>1, SMTT(30)
<1>8. s = t
  BY <1>5, <1>6, <1>7, SeqEqual
<1>9. Head(r) = f[Head(q)]
  <2>1. 1 \in 1..Len(q)
    BY <1>1
  <2> QED
    BY <1>2, <1>3, <1>6, <2>1
<1> QED
  BY <1>4, <1>8, <1>9 DEF r, s, t

\* The first element of a sequence, and the rest.
LEMMA Prefixed ==
    ASSUME NEW M, NEW m \in M, NEW s \in Seq(M)
    PROVE  /\ <<m>> \o s \in Seq(M) /\ <<m>> \o s # <<>>
           /\ Head(<<m>> \o s) = m /\ Tail(<<m>> \o s) = s
<1> DEFINE c == <<m>> \o s
           t == Tail(c)
<1>1. <<m>> \in Seq(M) /\ Len(<<m>>) = 1 /\ <<m>>[1] = m
  OBVIOUS
<1>2. Len(s) \in Nat
  BY LenProperties
<1>3. /\ c \in Seq(M) /\ Len(c) = 1 + Len(s)
      /\ \A i \in 1..(1 + Len(s)) : c[i] = IF i <= 1 THEN <<m>>[i] ELSE s[i - 1]
  BY <1>1, ConcatProperties
<1>4. c[1] = m
  <2>1. 1 \in 1..(1 + Len(s)) /\ 1 <= 1
    BY <1>2
  <2> QED
    BY <1>1, <1>3, <2>1
<1>5. c # <<>>
  BY <1>2, <1>3, EmptySeq
<1> HIDE DEF c
<1>6. /\ Head(c) = c[1] /\ t \in Seq(M) /\ Len(t) = Len(s)
      /\ \A i \in 1..Len(s) : t[i] = c[i + 1]
  <2>1. Head(c) = c[1]
    BY <1>3, <1>5, QueueRest
  <2>2. t \in Seq(M) /\ Len(t) = Len(c) - 1 /\ \A i \in 1..(Len(c) - 1) : t[i] = c[i + 1]
    BY <1>3, <1>5, HeadTailProperties
  <2>3. Len(c) - 1 = Len(s)
    BY <1>2, <1>3
  <2> QED
    BY <2>1, <2>2, <2>3
<1> HIDE DEF t
<1>7. ASSUME NEW i \in 1..Len(s) PROVE t[i] = s[i]
  <2>1. i + 1 \in 1..(1 + Len(s)) /\ ~(i + 1 <= 1) /\ (i + 1) - 1 = i
    BY <1>2
  <2> QED
    BY <1>3, <1>6, <2>1
<1>8. t = s
  BY <1>6, <1>7, SeqEqual
<1> QED
  BY <1>3, <1>4, <1>5, <1>6, <1>8 DEF c, t

\* The selection of one kind, taken through f.
LEMMA EachSelected ==
    ASSUME NEW M, NEW S, NEW f, Maps(f, M, S), NEW q \in Seq(M), NEW kind
    PROVE  LET E(s) == Each(Selected(s, kind), f) IN
           /\ E(<<>>) = <<>>
           /\ \A m \in M : E(Append(q, m)) = IF m.kind = kind THEN Append(E(q), f[m])
                                             ELSE E(q)
           /\ q # <<>> /\ Head(q).kind = kind =>
                 E(q) # <<>> /\ Head(E(q)) = f[Head(q)] /\ Tail(E(q)) = E(Tail(q))
           /\ q # <<>> /\ Head(q).kind # kind => E(q) = E(Tail(q))
<1> DEFINE E(s) == Each(Selected(s, kind), f)
<1>1. E(<<>>) = <<>>
  BY SelectedNone, EachNone
<1>2. ASSUME NEW m \in M
      PROVE  E(Append(q, m)) = IF m.kind = kind THEN Append(E(q), f[m]) ELSE E(q)
  <2>1. Selected(q, kind) \in Seq(M)
    BY SelectedMore
  <2>2. Each(Append(Selected(q, kind), m), f) = Append(Each(Selected(q, kind), f), f[m])
    BY <2>1, EachMore
  <2>3. Selected(Append(q, m), kind) =
           IF m.kind = kind THEN Append(Selected(q, kind), m) ELSE Selected(q, kind)
    BY SelectedMore
  <2> HIDE DEF Each
  <2> QED
    BY <2>2, <2>3
<1>3. ASSUME q # <<>>, Head(q).kind = kind
      PROVE  E(q) # <<>> /\ Head(E(q)) = f[Head(q)] /\ Tail(E(q)) = E(Tail(q))
  <2> DEFINE s == Selected(Tail(q), kind)
             c == <<Head(q)>> \o s
  <2>1. Head(q) \in M /\ Tail(q) \in Seq(M)
    BY <1>3, QueueSteps
  <2>2. s \in Seq(M)
    BY <2>1, SelectedMore
  <2>3. Selected(q, kind) = c
    BY <1>3, SelectedRest
  <2> HIDE DEF s
  <2>4. c \in Seq(M) /\ c # <<>> /\ Head(c) = Head(q) /\ Tail(c) = s
    BY <2>1, <2>2, Prefixed
  <2> HIDE DEF c
  <2>5. Each(c, f) # <<>> /\ Head(Each(c, f)) = f[Head(c)] /\ Tail(Each(c, f)) = Each(Tail(c), f)
    BY <2>4, EachRest
  <2> QED
    BY <2>3, <2>4, <2>5 DEF s
<1>4. ASSUME q # <<>>, Head(q).kind # kind PROVE E(q) = E(Tail(q))
  BY <1>4, SelectedRest
<1> QED
  BY <1>1, <1>2, <1>3, <1>4

\* What the state of the client is in WriteQueue: the writes called and not taken up,
\* the answers not heard yet, the stored writes, the writes with a callback.
Called(T)      == Texts(Selected(T, "write"))
Answered(Q)    == Answers(Selected(Q, "answer"))
Held(queue)    == [u \in Users |-> Texts(queue[u])]
Waiting(calls) == {c.w : c \in calls}

LEMMA TextsAre ==
    ASSUME NEW M, NEW f, f = [m \in M |-> m.w], NEW S, S = {m.w : m \in M}
    PROVE  Maps(f, M, S) /\ \A q \in Seq(M) : Texts(q) = Each(q, f)
<1>1. Maps(f, M, S)
  BY DEF Maps
<1>2. ASSUME NEW q \in Seq(M) PROVE Texts(q) = Each(q, f)
  <2>1. \A i \in DOMAIN q : q[i] \in M
    BY LenProperties
  <2> QED
    BY <2>1 DEF Texts, Each
<1> QED
  BY <1>1, <1>2

LEMMA AnswersAre ==
    ASSUME NEW M, NEW f, f = [m \in M |-> [w |-> m.w, ok |-> m.ok]],
           NEW S, S = {[w |-> m.w, ok |-> m.ok] : m \in M}
    PROVE  Maps(f, M, S) /\ \A q \in Seq(M) : Answers(q) = Each(q, f)
<1>1. Maps(f, M, S)
  BY DEF Maps
<1>2. ASSUME NEW q \in Seq(M) PROVE Answers(q) = Each(q, f)
  <2>1. \A i \in DOMAIN q : q[i] \in M
    BY LenProperties
  <2> QED
    BY <2>1 DEF Answers, Each
<1> QED
  BY <1>1, <1>2

\* The writes of a mutation queue.
LEMMA TextsOfQueue ==
    ASSUME NEW q \in Seq(Batch)
    PROVE  /\ Texts(<<>>) = <<>>
           /\ \A b \in Batch : Texts(Append(q, b)) = Append(Texts(q), b.w)
           /\ q # <<>> => Texts(q) # <<>> /\ Head(Texts(q)) = q[1].w
                          /\ Tail(Texts(q)) = Texts(Tail(q))
           /\ DOMAIN Texts(q) = DOMAIN q /\ \A i \in DOMAIN q : Texts(q)[i] = q[i].w
<1> DEFINE f == [m \in Batch |-> m.w]
           S == {m.w : m \in Batch}
<1>1. /\ Maps(f, Batch, S) /\ \A s \in Seq(Batch) : Texts(s) = Each(s, f)
  BY TextsAre
<1>2. \A b \in Batch : f[b] = b.w
  OBVIOUS
<1> HIDE DEF f, S
<1>3. Texts(<<>>) = <<>>
  <2>1. <<>> \in Seq(Batch)
    OBVIOUS
  <2>2. Each(<<>>, f) = <<>>
    BY <1>1, EachNone
  <2> QED
    BY <1>1, <2>1, <2>2, Zenon
<1>4. ASSUME NEW b \in Batch PROVE Texts(Append(q, b)) = Append(Texts(q), b.w)
  <2>1. Append(q, b) \in Seq(Batch)
    BY QueueSteps
  <2>2. Each(Append(q, b), f) = Append(Each(q, f), f[b])
    BY <1>1, EachMore
  <2> QED
    BY <1>1, <1>2, <2>1, <2>2, Zenon
<1>5. ASSUME q # <<>>
      PROVE  Texts(q) # <<>> /\ Head(Texts(q)) = q[1].w /\ Tail(Texts(q)) = Texts(Tail(q))
  <2>1. Tail(q) \in Seq(Batch) /\ Head(q) \in Batch /\ Head(q) = q[1]
    BY <1>5, QueueSteps, QueueRest
  <2>2. Each(q, f) # <<>> /\ Head(Each(q, f)) = f[Head(q)] /\ Tail(Each(q, f)) = Each(Tail(q), f)
    BY <1>1, <1>5, EachRest
  <2> QED
    BY <1>1, <1>2, <2>1, <2>2, Zenon
<1>6. DOMAIN Texts(q) = DOMAIN q /\ \A i \in DOMAIN q : Texts(q)[i] = q[i].w
  BY DEF Texts
<1> QED
  BY <1>3, <1>4, <1>5, <1>6

\* The writes that wait for the worker.
LEMMA CallsOfTasks ==
    ASSUME NEW T \in Seq(Jobs)
    PROVE  /\ Called(<<>>) = <<>>
           /\ \A m \in Jobs : Called(Append(T, m)) =
                                 IF m.kind = "write" THEN Append(Called(T), m.w) ELSE Called(T)
           /\ T # <<>> /\ Head(T).kind = "write" =>
                 /\ Called(T) # <<>> /\ Head(Called(T)) = Head(T).w
                 /\ Tail(Called(T)) = Called(Tail(T))
           /\ T # <<>> /\ Head(T).kind # "write" => Called(T) = Called(Tail(T))
<1> DEFINE f == [m \in Jobs |-> m.w]
           S == {m.w : m \in Jobs}
           E(s) == Each(Selected(s, "write"), f)
<1>1. /\ Maps(f, Jobs, S) /\ \A s \in Seq(Jobs) : Texts(s) = Each(s, f)
  BY TextsAre
<1>2. \A m \in Jobs : f[m] = m.w
  OBVIOUS
<1> HIDE DEF f, S
<1>3. \A s \in Seq(Jobs) : Selected(s, "write") \in Seq(Jobs)
  <2> SUFFICES ASSUME NEW s \in Seq(Jobs) PROVE Selected(s, "write") \in Seq(Jobs)
    OBVIOUS
  <2>1. CASE s = <<>>
    BY <2>1, SelectedNone
  <2>2. CASE s # <<>>
    BY <2>2, SelectedRest
  <2> QED
    BY <2>1, <2>2
<1>4. \A s \in Seq(Jobs) : Called(s) = E(s)
  BY <1>1, <1>3 DEF Called
<1>5. <<>> \in Seq(Jobs) /\ (\A m \in Jobs : Append(T, m) \in Seq(Jobs))
      /\ (T # <<>> => Head(T) \in Jobs /\ Tail(T) \in Seq(Jobs))
  BY QueueSteps, EmptySeq
<1>6. /\ E(<<>>) = <<>>
      /\ \A m \in Jobs : E(Append(T, m)) = IF m.kind = "write" THEN Append(E(T), f[m])
                                           ELSE E(T)
      /\ T # <<>> /\ Head(T).kind = "write" =>
            E(T) # <<>> /\ Head(E(T)) = f[Head(T)] /\ Tail(E(T)) = E(Tail(T))
      /\ T # <<>> /\ Head(T).kind # "write" => E(T) = E(Tail(T))
  BY <1>1, EachSelected
<1> HIDE DEF E
<1>7. Called(<<>>) = <<>>
  BY <1>4, <1>5, <1>6, Zenon
<1>8. ASSUME NEW m \in Jobs
      PROVE  Called(Append(T, m)) =
                IF m.kind = "write" THEN Append(Called(T), m.w) ELSE Called(T)
  <2>1. Called(Append(T, m)) = E(Append(T, m)) /\ Called(T) = E(T)
    BY <1>4, <1>5
  <2> QED
    BY <1>2, <1>6, <2>1
<1>9. ASSUME T # <<>>
      PROVE  Called(T) = E(T) /\ Called(Tail(T)) = E(Tail(T)) /\ f[Head(T)] = Head(T).w
  BY <1>2, <1>4, <1>5, <1>9
<1> QED
  BY <1>6, <1>7, <1>8, <1>9

\* The answers on their way to the app.
LEMMA AnswersOfMain ==
    ASSUME NEW Q \in Seq(Messages)
    PROVE  /\ Answered(<<>>) = <<>>
           /\ \A m \in Messages : Answered(Append(Q, m)) =
                  IF m.kind = "answer" THEN Append(Answered(Q), [w |-> m.w, ok |-> m.ok])
                  ELSE Answered(Q)
           /\ Q # <<>> /\ Head(Q).kind = "answer" =>
                 /\ Answered(Q) # <<>>
                 /\ Head(Answered(Q)) = [w |-> Head(Q).w, ok |-> Head(Q).ok]
                 /\ Tail(Answered(Q)) = Answered(Tail(Q))
           /\ Q # <<>> /\ Head(Q).kind # "answer" => Answered(Q) = Answered(Tail(Q))
<1> DEFINE f == [m \in Messages |-> [w |-> m.w, ok |-> m.ok]]
           S == {[w |-> m.w, ok |-> m.ok] : m \in Messages}
           E(s) == Each(Selected(s, "answer"), f)
<1>1. /\ Maps(f, Messages, S) /\ \A s \in Seq(Messages) : Answers(s) = Each(s, f)
  BY AnswersAre
<1>2. \A m \in Messages : f[m] = [w |-> m.w, ok |-> m.ok]
  OBVIOUS
<1> HIDE DEF f, S
<1>3. \A s \in Seq(Messages) : Selected(s, "answer") \in Seq(Messages)
  <2> SUFFICES ASSUME NEW s \in Seq(Messages) PROVE Selected(s, "answer") \in Seq(Messages)
    OBVIOUS
  <2>1. CASE s = <<>>
    BY <2>1, SelectedNone
  <2>2. CASE s # <<>>
    BY <2>2, SelectedRest
  <2> QED
    BY <2>1, <2>2
<1>4. \A s \in Seq(Messages) : Answered(s) = E(s)
  BY <1>1, <1>3 DEF Answered
<1>5. <<>> \in Seq(Messages) /\ (\A m \in Messages : Append(Q, m) \in Seq(Messages))
      /\ (Q # <<>> => Head(Q) \in Messages /\ Tail(Q) \in Seq(Messages))
  BY QueueSteps, EmptySeq
<1>6. /\ E(<<>>) = <<>>
      /\ \A m \in Messages : E(Append(Q, m)) = IF m.kind = "answer" THEN Append(E(Q), f[m])
                                           ELSE E(Q)
      /\ Q # <<>> /\ Head(Q).kind = "answer" =>
            E(Q) # <<>> /\ Head(E(Q)) = f[Head(Q)] /\ Tail(E(Q)) = E(Tail(Q))
      /\ Q # <<>> /\ Head(Q).kind # "answer" => E(Q) = E(Tail(Q))
  BY <1>1, EachSelected
<1> HIDE DEF E
<1>7. Answered(<<>>) = <<>>
  BY <1>4, <1>5, <1>6, Zenon
<1>8. ASSUME NEW m \in Messages
      PROVE  Answered(Append(Q, m)) =
                IF m.kind = "answer" THEN Append(Answered(Q), [w |-> m.w, ok |-> m.ok])
                ELSE Answered(Q)
  <2>1. Answered(Append(Q, m)) = E(Append(Q, m)) /\ Answered(Q) = E(Q)
    BY <1>4, <1>5
  <2> QED
    BY <1>2, <1>6, <2>1
<1>9. ASSUME Q # <<>>
      PROVE  /\ Answered(Q) = E(Q) /\ Answered(Tail(Q)) = E(Tail(Q))
             /\ f[Head(Q)] = [w |-> Head(Q).w, ok |-> Head(Q).ok]
  BY <1>2, <1>4, <1>5, <1>9
<1> QED
  BY <1>6, <1>7, <1>8, <1>9

-----------------------------------------------------------------------------
(* The client keeps the promise of WriteQueue.                             *)

\* A callback belongs to a stored batch if, and only if, it is about its write.
LEMMA CallbackOfBatch ==
    ASSUME RInv, NEW i \in DOMAIN Queue, NEW c \in engine.callbacks
    PROVE  c.user = engine.user /\ c.id = Queue[i].id <=> c.w = Queue[i].w
<1>1. /\ engine.user \in Users /\ c.user \in Users /\ Sorted(Queue) /\ Queue \in Seq(Batch)
      /\ CallbackHasItsBatch /\ Once(store.queue, tasks, told)
  BY DEF RInv, AInv, IInv, TypeOK, StoreOK, OnceInv, Queue
<1>2. PICK j \in DOMAIN store.queue[c.user] : store.queue[c.user][j] = [id |-> c.id, w |-> c.w]
  BY <1>1 DEF CallbackHasItsBatch
<1>3. store.queue[c.user][j].id = c.id /\ store.queue[c.user][j].w = c.w
  BY <1>2
<1>4. ASSUME c.user = engine.user, c.id = Queue[i].id PROVE c.w = Queue[i].w
  <2>1. j \in DOMAIN Queue /\ Queue[j].id = Queue[i].id /\ Queue[j].w = c.w
    BY <1>2, <1>3, <1>4 DEF Queue
  <2>2. Queue[i].id \in Nat /\ Queue[j].id \in Nat /\ i \in Nat /\ j \in Nat
    <3>1. DOMAIN Queue = 1..Len(Queue)
      BY <1>1, LenProperties
    <3> QED
      BY <1>1, <2>1, <3>1, BatchAt
  <2>3. ~(i < j) /\ ~(j < i)
    BY <1>1, <2>1, <2>2 DEF Sorted
  <2>4. i = j
    BY <2>2, <2>3
  <2> QED
    BY <2>1, <2>4
<1>5. ASSUME c.w = Queue[i].w PROVE c.user = engine.user /\ c.id = Queue[i].id
  <2>1. store.queue[c.user][j].w = store.queue[engine.user][i].w
    BY <1>3, <1>5 DEF Queue
  <2>2. i \in DOMAIN store.queue[engine.user]
    BY DEF Queue
  <2>3. c.user = engine.user /\ store.queue[c.user][j] = store.queue[engine.user][i]
    BY <1>1, <1>2, <2>1, <2>2 DEF Once
  <2> QED
    BY <1>3, <2>3 DEF Queue
<1> QED
  BY <1>4, <1>5

\* The callbacks of the batch at the front are those of its write.
LEMMA CallsOfFront ==
    ASSUME RInv, NEW b, 1 \in DOMAIN Queue, b = Queue[1],
           NEW calls, calls = {c \in engine.callbacks : c.user = engine.user /\ c.id = b.id}
    PROVE  /\ Waiting(engine.callbacks \ calls) = Waiting(engine.callbacks) \ {b.w}
           /\ calls = {} <=> b.w \notin Waiting(engine.callbacks)
           /\ \A c \in calls : c.w = b.w
<1>1. \A c \in engine.callbacks : c \in calls <=> c.w = b.w
  BY CallbackOfBatch
<1>2. calls \subseteq engine.callbacks
  OBVIOUS
<1> QED
  BY <1>1, <1>2 DEF Waiting

LEMMA QueueInit == Init => WQ!Init
<1> SUFFICES ASSUME Init PROVE WQ!Init
  OBVIOUS
<1>1. /\ engine.user = Nobody /\ engine.callbacks = {} /\ tasks = <<>> /\ mainQ = <<>>
      /\ store.queue = [u \in Users |-> <<>>] /\ server.done = {} /\ server.refused = {}
      /\ told = [w \in Writes |-> "uncalled"]
  BY DEF Init
<1>2. Called(tasks) = <<>> /\ Answered(mainQ) = <<>>
  <2>1. <<>> \in Seq(Jobs) /\ <<>> \in Seq(Messages)
    OBVIOUS
  <2> QED
    BY <1>1, <2>1, CallsOfTasks, AnswersOfMain, Zenon
<1>3. Texts(<<>>) = <<>>
  <2>1. <<>> \in Seq(Batch)
    OBVIOUS
  <2> QED
    BY <2>1, TextsOfQueue, Zenon
<1>4. [u \in Users |-> Texts(store.queue[u])] = [u \in Users |-> <<>>]
  BY <1>1, <1>3
<1>5. {c.w : c \in engine.callbacks} = {}
  BY <1>1
<1> QED
  BY <1>1, <1>2, <1>4, <1>5, UsersAssumption DEF WQ!Init, WQ!Writes, Writes, Called, Answered

\* The front of the pipeline is the oldest batch.
LEMMA FrontIsFirst ==
    ASSUME NEW r, r.pipeline \in Seq(Batch), r.pipeline # <<>>, NEW q \in Seq(Batch), NEW v,
           FrontOK(r, q, <<>>, v)
    PROVE  1 \in DOMAIN q /\ q[1] = Head(r.pipeline) /\ q # <<>>
<1>1. 1 \in DOMAIN r.pipeline /\ Head(r.pipeline) = r.pipeline[1]
  BY QueueRest
<1>2. Len(<<>>) = 0 /\ 1 + 0 = 1
  OBVIOUS
<1>3. 1 \in DOMAIN q /\ q[1] = r.pipeline[1]
  BY <1>1, <1>2 DEF FrontOK, Front
<1>4. DOMAIN q = 1..Len(q) /\ Len(q) \in Nat
  BY LenProperties
<1>5. Len(q) # 0
  BY <1>3, <1>4
<1> QED
  BY <1>1, <1>3, <1>5, EmptySeq

LEMMA QueueStep ==
    ASSUME RInv, Next, ~failed'
    PROVE  WQ!Next \/ UNCHANGED WQ!vars
<1>1. /\ tasks \in Seq(Jobs) /\ mainQ \in Seq(Messages) /\ engine.user \in Users
      /\ told \in [Writes -> {"uncalled", "waiting", "ok", "error"}]
      /\ engine \in [user : Users, acking : Seq(Batch),
                     callbacks : SUBSET [user : Users, id : Nat, w : Writes]]
      /\ store \in [queue : [Users -> Seq(Batch)], nextId : Nat]
      /\ store.queue \in [Users -> Seq(Batch)]
      /\ server \in [done : SUBSET Writes, refused : SUBSET Writes]
      /\ remote \in Stream /\ remote.inbox \in Nat
      /\ Queue \in Seq(Batch) /\ Sorted(Queue)
      /\ Fresh(store.queue, store.nextId) /\ CallbackHasItsBatch /\ AckingAnswered
      /\ FrontOK(remote, Queue, engine.acking, server)
  BY DEF RInv, AInv, IInv, TypeOK, StoreOK, Queue, FrontInv, Stream
<1>2. IInv /\ FrontInv
  BY DEF RInv, AInv
<1> DEFINE C == Called(tasks)
           A == Answered(mainQ)
           P == Held(store.queue)
           W == Waiting(engine.callbacks)
           U == engine.user
<1>a. /\ DOMAIN Texts(Queue) = DOMAIN Queue /\ \A i \in DOMAIN Queue : Texts(Queue)[i] = Queue[i].w
      /\ P[U] = Texts(Queue)
  <2>1. P[U] = Texts(Queue)
    BY <1>1 DEF Held, Queue
  <2> QED
    BY <1>1, <2>1, TextsOfQueue
<1>b. DOMAIN Queue = 1..Len(Queue) /\ Len(Queue) \in Nat
  BY <1>1, LenProperties
<1>c. Queue # <<>> => 1 \in DOMAIN Queue /\ P[U] # <<>> /\ Head(P[U]) = Queue[1].w
                      /\ Tail(P[U]) = Texts(Tail(Queue))
  <2> SUFFICES ASSUME Queue # <<>>
               PROVE  1 \in DOMAIN Queue /\ P[U] # <<>> /\ Head(P[U]) = Queue[1].w
                      /\ Tail(P[U]) = Texts(Tail(Queue))
    OBVIOUS
  <2>1. 1 \in DOMAIN Queue
    BY <1>1, QueueRest
  <2>2. /\ Texts(Queue) # <<>> /\ Head(Texts(Queue)) = Queue[1].w
        /\ Tail(Texts(Queue)) = Texts(Tail(Queue))
    BY <1>1, TextsOfQueue
  <2> QED
    BY <1>a, <2>1, <2>2, Zenon
<1>3. ASSUME UNCHANGED <<engine, server, told>>, store'.queue = store.queue, C' = C, A' = A
      PROVE  UNCHANGED WQ!vars
  BY <1>3 DEF WQ!vars, Called, Answered
<1>4. CASE \E w \in Writes : WriteMutations(w)
  <2>1. PICK w \in Writes : WriteMutations(w)
    BY <1>4
  <2>2. /\ told[w] = "uncalled" /\ told' = [told EXCEPT ![w] = "waiting"]
        /\ tasks' = Append(tasks, Write(w)) /\ UNCHANGED <<mainQ, engine, store, server>>
    BY <2>1 DEF WriteMutations
  <2>3. Write(w) \in Jobs /\ Write(w).kind = "write" /\ Write(w).w = w
    BY Posted DEF Write
  <2>4. C' = Append(C, w)
    BY <1>1, <2>2, <2>3, CallsOfTasks
  <2>5. WQ!Call(w)
    BY <2>2, <2>4 DEF WQ!Call, Called
  <2> QED
    BY <2>5 DEF WQ!Next, WQ!Writes, Writes
<1>5. CASE (\E u \in Users : ChangeUser(u)) \/ Auth \/ \E f \in remote.fetches : AnswerToken(f, FALSE)
  <2>1. UNCHANGED <<tasks, engine, store, server, told>>
    BY <1>5 DEF ChangeUser, Auth, ReadUser, AnswerToken
  <2>2. mainQ' = mainQ \/ \E m \in Messages : m.kind # "answer" /\ mainQ' = Append(mainQ, m)
    <3>1. ASSUME NEW u \in Users, ChangeUser(u) PROVE <2>2
      <4>1. Notice(u) \in Messages /\ Notice(u).kind # "answer" /\ mainQ' = Append(mainQ, Notice(u))
        BY <3>1, Posted DEF ChangeUser, Notice
      <4> QED
        BY <4>1
    <3>2. ASSUME NEW f \in remote.fetches, NEW ok \in BOOLEAN, AnswerToken(f, ok) PROVE <2>2
      <4>1. f \in [counter : Nat, closes : Nat, read : BOOLEAN, as : Users]
        BY <1>1 DEF Stream
      <4>2. Token(f, ok) \in Messages /\ mainQ' = Append(mainQ, Token(f, ok))
        BY <3>2, <4>1, Posted DEF AnswerToken
      <4>3. Token(f, ok).kind # "answer"
        BY DEF Token
      <4> QED
        BY <4>2, <4>3
    <3>3. ASSUME NEW f, ReadUser(f) PROVE <2>2
      BY <3>3 DEF ReadUser
    <3> QED
      BY <1>5, <3>1, <3>2, <3>3 DEF Auth
  <2>3. A' = A
    BY <1>1, <2>2, AnswersOfMain
  <2> QED
    BY <1>3, <2>1, <2>3
<1>6. CASE HearChange
  <2>1. /\ mainQ # <<>> /\ Head(mainQ).kind = "notice" /\ mainQ' = Tail(mainQ)
        /\ UNCHANGED <<engine, store, server, told>>
        /\ tasks' = Append(tasks, Credential(Head(mainQ).user))
    BY <1>6 DEF HearChange
  <2>2. A' = A
    BY <1>1, <2>1, AnswersOfMain
  <2>3. Head(mainQ) \in Messages
    BY <1>1, <2>1, QueueSteps
  <2>4. Head(mainQ).user \in Users
    BY <2>1, <2>3, MessageKinds
  <2>5. Credential(Head(mainQ).user) \in Jobs
    BY <2>4, Posted
  <2>6. Credential(Head(mainQ).user).kind # "write"
    BY DEF Credential
  <2>7. C' = C
    BY <1>1, <2>1, <2>5, <2>6, CallsOfTasks
  <2> QED
    BY <1>3, <2>1, <2>2, <2>7
<1>7. CASE HearToken
  <2> DEFINE t == Head(mainQ)
             m == [t EXCEPT !.ok = @ /\ t.counter = auth.counter]
  <2>1. /\ mainQ # <<>> /\ t.kind = "token" /\ mainQ' = Tail(mainQ)
        /\ UNCHANGED <<engine, store, server, told>>
        /\ tasks' = Append(tasks, m)
    BY <1>7 DEF HearToken
  <2>2. A' = A
    BY <1>1, <2>1, AnswersOfMain
  <2>3. t \in Tokens
    BY <1>1, <2>1, QueueSteps, MessageKinds
  <2>4. (t.ok /\ t.counter = auth.counter) \in BOOLEAN
    OBVIOUS
  <2>5. m = [t EXCEPT !.ok = t.ok /\ t.counter = auth.counter]
    BY <2>3 DEF Tokens
  <2>6. m \in Jobs
    BY <2>3, <2>4, <2>5, Posted
  <2>7. m.kind = "token"
    BY <2>3 DEF Tokens
  <2> HIDE DEF m
  <2>8. C' = C
    BY <1>1, <2>1, <2>6, <2>7, CallsOfTasks
  <2> QED
    BY <1>3, <2>1, <2>2, <2>8
<1>8. CASE RunHandler
  <2>1. /\ mainQ # <<>> /\ Head(mainQ).kind = "answer" /\ mainQ' = Tail(mainQ)
        /\ told' = [told EXCEPT ![Head(mainQ).w] = IF Head(mainQ).ok THEN "ok" ELSE "error"]
        /\ UNCHANGED <<tasks, engine, store, server>>
    BY <1>8 DEF RunHandler
  <2>2. /\ A # <<>> /\ Head(A) = [w |-> Head(mainQ).w, ok |-> Head(mainQ).ok]
        /\ Tail(A) = A'
    BY <1>1, <2>1, AnswersOfMain
  <2>3. Head(A).w = Head(mainQ).w /\ Head(A).ok = Head(mainQ).ok
    BY <2>2
  <2>4. WQ!Tell
    BY <2>1, <2>2, <2>3 DEF WQ!Tell, Answered
  <2> QED
    BY <2>4 DEF WQ!Next
<1>9. CASE WriteLocally
  <2> DEFINE b == [id |-> store.nextId, w |-> Head(tasks).w]
             Q == Append(Queue, b)
  <2>1. /\ tasks # <<>> /\ Head(tasks).kind = "write" /\ tasks' = Tail(tasks)
        /\ UNCHANGED <<mainQ, server, told>>
        /\ store'.queue = [store.queue EXCEPT ![U] = Q]
    BY <1>1, <1>9 DEF WriteLocally, Task, Queue
  <2>2. b \in Batch /\ b.w = Head(tasks).w /\ b.id = store.nextId
    <3>1. Head(tasks) \in Jobs
      BY <1>1, <2>1, QueueSteps
    <3> QED
      BY <1>1, <2>1, <3>1, JobKinds DEF Batch
  <2>3. engine' = [engine EXCEPT !.callbacks =
                     @ \union {[user |-> engine.user, id |-> b.id, w |-> Head(tasks).w]}]
    <3>1. ~ \E c \in engine.callbacks : c.user = engine.user /\ c.id = store.nextId
      <4> SUFFICES ASSUME NEW c \in engine.callbacks, c.user = engine.user, c.id = store.nextId
                   PROVE  FALSE
        OBVIOUS
      <4>1. PICK i \in DOMAIN store.queue[c.user] :
                  store.queue[c.user][i] = [id |-> c.id, w |-> c.w]
        BY <1>1 DEF CallbackHasItsBatch
      <4>2. store.queue[engine.user][i].id = store.nextId /\ i \in DOMAIN store.queue[engine.user]
        BY <4>1
      <4>3. store.queue[engine.user][i].id < store.nextId
        BY <1>1, <4>2 DEF Fresh
      <4> QED
        BY <1>1, <4>2, <4>3
    <3> QED
      BY <1>9, <3>1 DEF WriteLocally
  <2>4. C # <<>> /\ Head(C) = Head(tasks).w /\ C' = Tail(C)
    BY <1>1, <2>1, CallsOfTasks
  <2>5. Texts(Q) = Append(Texts(Queue), b.w)
    BY <1>1, <2>2, TextsOfQueue
  <2> HIDE DEF b
  <2> HIDE DEF Q
  <2>6. P' = [P EXCEPT ![U] = Append(@, Head(C))]
    <3>1. \A u \in Users : store'.queue[u] = IF u = U THEN Q ELSE store.queue[u]
      BY <1>1, <2>1
    <3>2. \A u \in Users : P'[u] = IF u = U THEN Append(P[U], Head(C)) ELSE P[u]
      BY <1>a, <2>2, <2>4, <2>5, <3>1 DEF Held
    <3>3. DOMAIN P = Users /\ DOMAIN P' = Users
      BY DEF Held
    <3> QED
      BY <3>2, <3>3 DEF Held
  <2>7. W' = W \union {Head(C)} /\ U' = U
    <3>1. engine'.callbacks = engine.callbacks
             \union {[user |-> engine.user, id |-> b.id, w |-> Head(tasks).w]}
      BY <1>1, <2>3
    <3>2. engine'.user = engine.user
      BY <1>1, <2>3
    <3> DEFINE n == [user |-> engine.user, id |-> b.id, w |-> Head(tasks).w]
    <3>3. n.w = Head(C)
      BY <2>4
    <3> HIDE DEF n
    <3>4. Waiting(engine.callbacks \union {n}) = Waiting(engine.callbacks) \union {n.w}
      BY DEF Waiting
    <3> QED
      BY <3>1, <3>2, <3>3, <3>4 DEF n
  <2>8. A' = A
    BY <2>1
  <2>9. WQ!Accept
    BY <2>1, <2>4, <2>6, <2>7, <2>8 DEF WQ!Accept, Called, Answered, Held, Waiting
  <2> QED
    BY <2>9 DEF WQ!Next
<1>10. CASE HandleCredentialChange
  <2> DEFINE u == Head(tasks).user
  <2>1. /\ tasks # <<>> /\ Head(tasks).kind = "credential" /\ tasks' = Tail(tasks)
        /\ UNCHANGED <<mainQ, server, told>> /\ engine' = [engine EXCEPT !.user = u]
        /\ store'.queue = store.queue
    BY <1>1, <1>10 DEF HandleCredentialChange, Task
  <2>2. u \in Users
    BY <1>1, <2>1, QueueSteps, JobKinds
  <2>3. C' = C
    BY <1>1, <2>1, CallsOfTasks
  <2>4. engine'.user = u /\ engine'.callbacks = engine.callbacks
    BY <1>1, <2>1
  <2> HIDE DEF u
  <2>5. WQ!Switch(u)
    BY <2>1, <2>3, <2>4 DEF WQ!Switch, Called
  <2> QED
    BY <2>2, <2>5 DEF WQ!Next
<1>11. CASE ResumeStart
  <2>1. /\ tasks # <<>> /\ Head(tasks).kind = "token" /\ tasks' = Tail(tasks)
        /\ UNCHANGED <<mainQ, engine, store, server, told>>
    BY <1>11 DEF ResumeStart, Task
  <2>2. C' = C
    BY <1>1, <2>1, CallsOfTasks
  <2> QED
    BY <1>3, <2>1, <2>2
<1>12. CASE BackoffElapsed \/ IdleTimeout \/ CompleteHandshake \/ StreamBreaks \/ ServerGreets
  <2>1. UNCHANGED <<tasks, mainQ, engine, store, server, told>>
    BY <1>12 DEF BackoffElapsed, IdleTimeout, CompleteHandshake, StreamBreaks, ServerGreets
  <2> QED
    BY <1>3, <2>1
<1>13. ASSUME NEW i \in DOMAIN Queue, NEW n \in Nat, i = n + 1,
              \A j \in 1..n : j \in DOMAIN Queue /\ Queue[j].w \in server.done
       PROVE  i \in DOMAIN P[U] /\ P[U][i] = Queue[i].w /\ WQ!Ready(i)
  <2>1. i \in DOMAIN P[U] /\ P[U][i] = Queue[i].w
    BY <1>a
  <2>2. \A j \in 1..(i - 1) : P[U][j] \in server.done
    <3>1. i - 1 = n
      BY <1>13
    <3> QED
      BY <1>13, <1>a, <3>1
  <2> QED
    BY <2>1, <2>2 DEF WQ!Ready, Held
<1>14. CASE ServerCommits \/ ServerRefuses
  <2> DEFINE n == remote.inbox + Len(engine.acking)
             w == Head(remote.outbox).w
  <2>1. remote.outbox # <<>> /\ UNCHANGED <<tasks, mainQ, engine, store, told>>
    BY <1>14 DEF ServerCommits, ServerRefuses
  <2>2. n \in Nat /\ n + 1 \in DOMAIN Queue /\ Queue[n + 1].w = w
    BY <1>2, <2>1, SentNext
  <2>3. \A j \in 1..n : j \in DOMAIN Queue /\ Queue[j].w \in server.done
    BY <1>1 DEF FrontOK, Ahead
  <2> HIDE DEF n
  <2>4. n + 1 \in DOMAIN P[U] /\ P[U][n + 1] = w /\ WQ!Ready(n + 1)
    BY <1>13, <2>2, <2>3
  <2>5. CASE ServerCommits
    <3>1. server'.done = server.done \union {w} /\ server'.refused = server.refused
      BY <1>1, <2>5 DEF ServerCommits
    <3> HIDE DEF w
    <3>2. WQ!Commit(n + 1)
      BY <2>1, <2>4, <3>1 DEF WQ!Commit, Held
    <3>3. \E i \in DOMAIN P[U] : WQ!Commit(i)
      BY <2>4, <3>2
    <3> QED
      BY <3>3 DEF WQ!Next, Held
  <2>6. CASE ServerRefuses
    <3>1. server'.refused = server.refused \union {w} /\ server'.done = server.done
      BY <1>1, <2>6 DEF ServerRefuses
    <3> HIDE DEF w
    <3>2. WQ!Refuse(n + 1)
      BY <2>1, <2>4, <3>1 DEF WQ!Refuse, Held
    <3>3. \E i \in DOMAIN P[U] : WQ!Refuse(i)
      BY <2>4, <3>2
    <3> QED
      BY <3>3 DEF WQ!Next, Held
  <2> QED
    BY <1>14, <2>5, <2>6
<1>15. ASSUME store'.queue = [store.queue EXCEPT ![U] = Tail(Queue)], Queue # <<>>
       PROVE  P' = [P EXCEPT ![U] = Tail(@)]
  <2>1. \A u \in Users : store'.queue[u] = IF u = U THEN Tail(Queue) ELSE store.queue[u]
    BY <1>1, <1>15
  <2>2. \A u \in Users : P'[u] = IF u = U THEN Tail(P[U]) ELSE P[u]
    BY <1>a, <1>c, <1>15, <2>1 DEF Held
  <2>3. DOMAIN P = Users /\ DOMAIN P' = Users
    BY DEF Held
  <2> QED
    BY <2>2, <2>3 DEF Held
<1>16. CASE MutationResult
  <2> DEFINE b == Head(remote.pipeline)
             calls == {c \in engine.callbacks : c.user = engine.user /\ c.id = b.id}
  <2>1. remote.pipeline # <<>> /\ engine.acking = <<>> /\ remote.inbox # 0
    <3>1. remote.pipeline = <<>> => failed'
      BY <1>16 DEF MutationResult
    <3>2. remote.inbox > 0 /\ engine.acking = <<>>
      BY <1>16 DEF MutationResult, Free
    <3> QED
      BY <1>1, <3>1, <3>2
  <2>2. /\ UNCHANGED <<tasks, store, server, told>>
        /\ engine' = [engine EXCEPT !.acking = <<b>>, !.callbacks = @ \ calls]
        /\ \/ calls = {} /\ UNCHANGED mainQ
           \/ \E c \in calls : mainQ' = Append(mainQ, Reply(c.w, TRUE))
    BY <1>16, <2>1 DEF MutationResult
  <2>3. 1 \in DOMAIN Queue /\ b = Queue[1] /\ Queue # <<>>
    <3>1. remote.pipeline \in Seq(Batch)
      BY <1>1 DEF Stream
    <3> QED
      BY <1>1, <2>1, <3>1, FrontIsFirst
  <2>4. Queue[1].w \in server.done
    <3>1. remote.inbox + Len(engine.acking) = remote.inbox
      BY <1>1, <2>1
    <3>2. Ahead(remote.inbox, remote.ended, Queue, server)
      BY <1>1, <3>1 DEF FrontOK
    <3>3. 1 \in 1..remote.inbox
      BY <1>1, <2>1
    <3> QED
      BY <3>2, <3>3 DEF Ahead
  <2>5. U' = U /\ engine'.callbacks = engine.callbacks \ calls
    BY <1>1, <2>2
  <2> HIDE DEF b
  <2>6. /\ Waiting(engine.callbacks \ calls) = W \ {b.w}
        /\ calls = {} <=> b.w \notin W
        /\ \A c \in calls : c.w = b.w
    BY <2>3, CallsOfFront, ZenonT(30)
  <2>7. calls \subseteq engine.callbacks
    OBVIOUS
  <2> HIDE DEF calls
  <2>8. CASE calls = {}
    <3>1. engine'.callbacks = engine.callbacks
      BY <2>5, <2>8
    <3>2. A' = A /\ C' = C
      BY <2>2, <2>8
    <3> QED
      BY <2>2, <2>5, <3>1, <3>2 DEF WQ!vars, Called, Answered
  <2>9. CASE calls # {}
    <3>1. b.w \in W
      BY <2>6, <2>9
    <3>2. PICK c \in calls : mainQ' = Append(mainQ, Reply(c.w, TRUE))
      BY <2>2, <2>9
    <3>3. c.w = b.w /\ c.w \in Writes
      BY <1>1, <2>6, <2>7
    <3>4. Reply(c.w, TRUE) \in Messages /\ Reply(c.w, TRUE).kind = "answer"
          /\ Reply(c.w, TRUE).w = b.w /\ Reply(c.w, TRUE).ok = TRUE
      BY <3>3, Posted DEF Reply
    <3>5. A' = Append(A, [w |-> b.w, ok |-> TRUE])
      BY <1>1, <3>2, <3>4, AnswersOfMain
    <3>6. W' = W \ {b.w}
      BY <2>5, <2>6
    <3>7. P[U] # <<>> /\ Head(P[U]) = b.w /\ b.w \in server.done
      BY <1>c, <2>3, <2>4
    <3>8. C' = C /\ P' = P
      BY <2>2
    <3>9. WQ!Confirm
      BY <2>2, <2>5, <3>1, <3>5, <3>6, <3>7, <3>8
         DEF WQ!Confirm, WQ!Head1, WQ!Answer, Called, Answered, Held, Waiting
    <3> QED
      BY <3>9 DEF WQ!Next
  <2> QED
    BY <2>8, <2>9
<1>17. CASE AcknowledgeBatch
  <2>1. /\ engine.acking # <<>> /\ engine' = [engine EXCEPT !.acking = <<>>]
        /\ store' = [store EXCEPT !.queue[engine.user] = Without(Queue, engine.acking[1])]
        /\ UNCHANGED <<mainQ, tasks, server, told>>
    BY <1>17 DEF AcknowledgeBatch, Free, Queue
  <2>2. Queue # <<>> /\ engine.acking = <<Queue[1]>>
    BY <1>1, <2>1 DEF FrontOK
  <2>3. engine.acking[1] = Queue[1] /\ Len(engine.acking) = 1
    BY <2>2
  <2>4. Without(Queue, engine.acking[1]) = Tail(Queue)
    BY <1>1, <2>2, <2>3, WithoutFirst
  <2>5. store'.queue = [store.queue EXCEPT ![U] = Tail(Queue)]
    BY <1>1, <2>1, <2>4
  <2>6. Queue[1].w \in server.done
    <3>1. Ahead(remote.inbox + 1, remote.ended, Queue, server)
      BY <1>1, <2>3 DEF FrontOK
    <3>2. 1 \in 1..(remote.inbox + 1)
      BY <1>1
    <3> QED
      BY <3>1, <3>2 DEF Ahead
  <2>7. Queue[1].w \notin W
    <3>1. 1 \in DOMAIN Queue
      BY <1>c, <2>2
    <3>2. \A c \in engine.callbacks : ~(c.user = engine.user /\ c.id = Queue[1].id)
      BY <1>1, <2>1, <2>3 DEF AckingAnswered
    <3> QED
      BY <3>1, <3>2, CallbackOfBatch DEF Waiting
  <2>8. P' = [P EXCEPT ![U] = Tail(@)]
    BY <1>15, <2>2, <2>5
  <2>9. U' = U /\ W' = W /\ C' = C /\ A' = A
    BY <1>1, <2>1
  <2>10. P[U] # <<>> /\ Head(P[U]) \in server.done \ W
    BY <1>c, <2>2, <2>6, <2>7
  <2>11. WQ!Remove
    BY <2>1, <2>8, <2>9, <2>10 DEF WQ!Remove, WQ!Head1, Called, Answered, Held, Waiting
  <2> QED
    BY <2>11 DEF WQ!Next
<1>18. CASE HandleWriteError
  <2> DEFINE b == Head(remote.pipeline)
             calls == {c \in engine.callbacks : c.user = engine.user /\ c.id = b.id}
  <2>1. remote.pipeline # <<>> /\ engine.acking = <<>> /\ remote.inbox = 0 /\ remote.ended
    BY <1>18 DEF HandleWriteError, Free
  <2>2. /\ UNCHANGED <<tasks, server, told>>
        /\ engine' = [engine EXCEPT !.callbacks = @ \ calls]
        /\ \/ calls = {} /\ UNCHANGED mainQ
           \/ \E c \in calls : mainQ' = Append(mainQ, Reply(c.w, FALSE))
        /\ store' = [store EXCEPT !.queue[engine.user] = Without(Queue, b)]
    BY <1>18 DEF HandleWriteError, Queue
  <2>3. 1 \in DOMAIN Queue /\ b = Queue[1] /\ Queue # <<>>
    <3>1. remote.pipeline \in Seq(Batch)
      BY <1>1 DEF Stream
    <3> QED
      BY <1>1, <2>1, <3>1, FrontIsFirst
  <2>4. Queue[1].w \in server.refused
    <3>1. remote.inbox + Len(engine.acking) = 0 /\ 0 + 1 = 1
      BY <2>1
    <3>2. Ahead(0, TRUE, Queue, server)
      BY <1>1, <2>1, <3>1 DEF FrontOK, Stream
    <3> QED
      BY <3>1, <3>2 DEF Ahead
  <2>5. U' = U /\ engine'.callbacks = engine.callbacks \ calls
    BY <1>1, <2>2
  <2> HIDE DEF b
  <2>6. Without(Queue, b) = Tail(Queue)
    BY <1>1, <2>3, WithoutFirst
  <2>7. P' = [P EXCEPT ![U] = Tail(@)]
    <3>1. store'.queue = [store.queue EXCEPT ![U] = Tail(Queue)]
      BY <1>1, <2>2, <2>6
    <3> QED
      BY <1>15, <2>3, <3>1
  <2>8. /\ Waiting(engine.callbacks \ calls) = W \ {b.w}
        /\ calls = {} <=> b.w \notin W
        /\ \A c \in calls : c.w = b.w
    BY <2>3, CallsOfFront, ZenonT(30)
  <2>9. calls \subseteq engine.callbacks
    OBVIOUS
  <2> HIDE DEF calls
  <2>10. A' = IF b.w \in W THEN Append(A, [w |-> b.w, ok |-> FALSE]) ELSE A
    <3>1. CASE calls = {}
      BY <2>2, <2>8, <3>1
    <3>2. CASE calls # {}
      <4>1. PICK c \in calls : mainQ' = Append(mainQ, Reply(c.w, FALSE))
        BY <2>2, <3>2
      <4>2. c.w = b.w /\ c.w \in Writes
        BY <1>1, <2>8, <2>9
      <4>3. Reply(c.w, FALSE) \in Messages /\ Reply(c.w, FALSE).kind = "answer"
            /\ Reply(c.w, FALSE).w = b.w /\ Reply(c.w, FALSE).ok = FALSE
        BY <4>2, Posted DEF Reply
      <4>4. A' = Append(A, [w |-> b.w, ok |-> FALSE])
        BY <1>1, <4>1, <4>3, AnswersOfMain
      <4> QED
        BY <2>8, <3>2, <4>4
    <3> QED
      BY <3>1, <3>2
  <2>11. W' = W \ {b.w}
    BY <2>5, <2>8
  <2>12. P[U] # <<>> /\ Head(P[U]) = b.w /\ b.w \in server.refused
    BY <1>c, <2>3, <2>4
  <2>13. C' = C
    BY <2>2
  <2>14. WQ!Reject
    BY <2>2, <2>5, <2>7, <2>10, <2>11, <2>12, <2>13
       DEF WQ!Reject, WQ!Head1, WQ!Answer, Called, Answered, Held, Waiting
  <2> QED
    BY <2>14 DEF WQ!Next
<1>19. CASE \E u \in Users : Restart(u)
  <2>1. PICK u \in Users : Restart(u)
    BY <1>19
  <2>2. /\ engine'.user = u /\ engine'.callbacks = {} /\ store'.queue = store.queue
        /\ tasks' = <<>> /\ UNCHANGED <<server, told>>
        /\ mainQ' = <<>> \/ mainQ' = <<Notice(auth.user)>>
    BY <1>1, <2>1 DEF Restart
  <2>3. C' = <<>>
    BY <1>1, <2>2, CallsOfTasks
  <2>4. A' = <<>>
    <3>1. <<>> \in Seq(Messages)
      OBVIOUS
    <3>2. Answered(<<>>) = <<>>
      BY <3>1, AnswersOfMain, Zenon
    <3>3. auth.user \in Users
      BY <1>2 DEF IInv, TypeOK
    <3>4. Notice(auth.user) \in Messages /\ Notice(auth.user).kind # "answer"
      BY <3>3, Posted DEF Notice
    <3>5. Answered(Append(<<>>, Notice(auth.user))) = Answered(<<>>)
      BY <3>1, <3>4, AnswersOfMain
    <3>6. Append(<<>>, Notice(auth.user)) = <<Notice(auth.user)>>
      OBVIOUS
    <3> QED
      BY <2>2, <3>2, <3>5, <3>6
  <2>5. W' = {}
    BY <2>2 DEF Waiting
  <2>6. WQ!Restart(u)
    BY <2>2, <2>3, <2>4, <2>5 DEF WQ!Restart, Called, Answered, Waiting
  <2> QED
    BY <2>6 DEF WQ!Next
<1> QED
  BY <1>4, <1>5, <1>6, <1>7, <1>8, <1>9, <1>10, <1>11, <1>12, <1>14, <1>16, <1>17, <1>18,
     <1>19 DEF Next, Worker, Server, Main

\* What FirestoreWrites does is what WriteQueue promises, for any number of users and
\* writes: each write is carried out once, in the order of its user's queue and in
\* sessions of its user only, and what the app is told of a write is what became of it.
THEOREM Refinement == Spec => ImplementsWriteQueue
<1>1. RInv /\ RInv' /\ [Next]_vars => [WQ!Next]_(WQ!vars)
  <2> SUFFICES ASSUME RInv, RInv', [Next]_vars PROVE [WQ!Next]_(WQ!vars)
    OBVIOUS
  <2>1. ~failed'
    BY DEF RInv, AInv
  <2>2. CASE Next
    BY <2>1, <2>2, QueueStep
  <2>3. CASE UNCHANGED vars
    <3>1. UNCHANGED <<tasks, mainQ, engine, store, server, told>>
      BY <2>3 DEF vars
    <3> QED
      BY <3>1 DEF WQ!vars
  <2> QED
    BY <2>2, <2>3
<1> QED
  BY <1>1, QueueInit, RInvariance, PTL DEF Spec, ImplementsWriteQueue, WQ!Spec
=============================================================================
