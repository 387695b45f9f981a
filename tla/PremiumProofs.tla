---------------------------- MODULE PremiumProofs ----------------------------
(***************************************************************************)
(* Proofs about Premium for every set of users and every bound: nothing is *)
(* unlocked that was not sold, a finished sale is delivered, and premium   *)
(* goes to who paid and is shown to who has it while no answer outlives a  *)
(* change of user.                                                         *)
(***************************************************************************)
EXTENDS Premium, SequenceTheorems, WellFoundedInduction, TLAPS

\* Before a sale the word premium is nowhere: not on the device, not on the server,
\* not in a write on its way there, not in an answer on its way back.
Unsold ==
    /\ flag # "1"
    /\ info \in [Users -> [Users -> Doc]]
    /\ \A u, id \in Users : info[u][id] # "premium"
    /\ writes \in Seq(Write)
    /\ \A i \in DOMAIN writes : writes[i].doc # "premium"
    /\ user \in Users \cup {None}
    /\ reads \subseteq Read
    /\ \A r \in reads : r.to = 0 => r.got # "1"

SoldInv == ~Sold => Unsold

\* No step takes a sale back.
LEMMA SaleLasts == [Next]_vars /\ Sold => Sold'
  BY DEF Sold, Next, vars, Account, Server, Handlers, AppStore, Relaunch, Restart, SignUp,
         SignUpCut, LogIn, LogOut, OpenWalk, OpenMore, BuyTapped, RestoreTapped, ServerAnswers,
         ReadAnswered, SignUpAnswered, PremiumAnswered, ReadDelivered, AppStoreSells,
         PurchaseFails, PurchasingAnnounced, PurchasedAnnounced, RestoredAnnounced

\* Changing status or answer of one write keeps all documents.
LEMMA SameDocs ==
    ASSUME writes \in Seq(Write), NEW i \in DOMAIN writes, NEW w \in Write,
           w.doc = writes[i].doc, writes' = [writes EXCEPT ![i] = w],
           \A j \in DOMAIN writes : writes[j].doc # "premium"
    PROVE  /\ writes' \in Seq(Write)
           /\ \A j \in DOMAIN writes' : writes'[j].doc # "premium"
<1>1. writes' \in Seq(Write) /\ DOMAIN writes' = DOMAIN writes
  BY ExceptSeq, LenProperties
<1>2. \A j \in DOMAIN writes : writes'[j] = IF j = i THEN w ELSE writes[j]
  BY ExceptSeq, LenProperties
<1>3. QED
  BY <1>1, <1>2

\* One write with another status or answer is a write.
LEMMA WriteTypes ==
    ASSUME writes \in Seq(Write), NEW i \in DOMAIN writes,
           NEW status \in {"queued", "stored", "refused"},
           NEW answer \in {"waiting", "called", "lost"}
    PROVE  /\ writes[i] \in Write
           /\ [writes[i] EXCEPT !.status = status] \in Write
           /\ [writes[i] EXCEPT !.answer = answer] \in Write
           /\ [writes[i] EXCEPT !.status = status].doc = writes[i].doc
           /\ [writes[i] EXCEPT !.answer = answer].doc = writes[i].doc
<1>1. writes[i] \in Write
  BY LenProperties, ElementOfSeq
<1>2. QED
  BY <1>1 DEF Write

\* A relaunch before a sale keeps all documents, and asks afresh.
LEMMA RestartUnsold ==
    ASSUME Unsold, Restart(writes)
    PROVE  Unsold'
<1>1. \A i \in DOMAIN writes : writes[i] \in Write /\ [writes[i] EXCEPT !.answer = "lost"] \in Write
  BY WriteTypes DEF Unsold
<1>2. \A i \in DOMAIN writes : writes'[i] \in Write /\ writes'[i].doc = writes[i].doc
  BY <1>1, WriteTypes DEF Restart, Unsold
<1>3. DOMAIN writes' = DOMAIN writes
  BY DEF Restart
<1>4. writes' \in Seq(Write)
  <2>1. DOMAIN writes = 1..Len(writes) /\ Len(writes) \in Nat
    BY LenProperties DEF Unsold
  <2>2. writes' = [i \in 1..Len(writes) |-> writes'[i]]
    BY <2>1 DEF Restart
  <2>3. QED
    BY <1>2, <2>1, <2>2, IsASeq
<1>5. reads' \subseteq Read /\ \A r \in reads' : r.got = "asked"
  <2>1. CASE user = None
    BY <2>1 DEF Restart
  <2>2. CASE user # None
    BY <2>2 DEF Restart, Ask, Read, Unsold
  <2>3. QED
    BY <2>1, <2>2
<1>6. QED
  BY <1>2, <1>3, <1>4, <1>5 DEF Restart, Unsold

\* What a read can see before a sale.
LEMMA AnswersUnsold ==
    ASSUME Unsold, NEW r \in reads, NEW got \in Answers(r)
    PROVE  /\ got \in Flag \cup Users \cup {None}
           /\ r.to = 0 => got # "1"
<1>1. r.user \in Users
  BY DEF Unsold, Read
<1>2. \A id \in Users : "premium" \notin Queued(r.user, id)
  BY DEF Unsold, Queued
<1>3. \A id \in Users : Visible(r.user, id) # "premium"
  BY <1>1, <1>2 DEF Unsold, Visible
<1>4. CASE r.to = 0
  <2>1. got = None \/ \E id \in Ids(r.user) : got = PremiumOf(Visible(r.user, id))
    BY <1>4 DEF Answers
  <2>2. got = None \/ got = "0"
    BY <1>3, <2>1 DEF Ids, PremiumOf
  <2>3. QED
    BY <2>2, NoneIsNoUser DEF Flag
<1>5. CASE r.to # 0
  BY <1>5 DEF Answers, Ids
<1>6. QED
  BY <1>4, <1>5

\* Whatever is asked keeps the answers clean until it is answered.
LEMMA AsksUnsold ==
    ASSUME Unsold, NEW new, new \subseteq {r \in Read : r.got = "asked"}, Asks(new)
    PROVE  /\ reads' \subseteq Read
           /\ \A r \in reads' : r.to = 0 => r.got # "1"
  BY DEF Unsold, Asks

\* A question is a read of its own user.
LEMMA AskTypes ==
    ASSUME NEW u \in Users, NEW to \in Nat
    PROVE  {Ask(to, u)} \subseteq {r \in Read : r.got = "asked"}
  BY DEF Ask, Read

LEMMA UnsoldStep == Unsold /\ ~Sold' /\ ~Sold /\ [Next]_vars => Unsold'
<1> SUFFICES ASSUME Unsold, ~Sold', ~Sold, [Next]_vars PROVE Unsold'
  OBVIOUS
<1>1. ASSUME NEW u \in Users, SignUp(u) PROVE Unsold'
  <2> DEFINE w == [user |-> u, id |-> u, doc |-> "signup", view |-> 0,
                   status |-> "queued", answer |-> "waiting"]
  <2>1. w \in Write
    BY DEF Write
  <2>2. writes' = Append(writes, w) /\ writes \in Seq(Write)
    BY <1>1 DEF SignUp, Unsold
  <2>3. writes' \in Seq(Write) /\ \A i \in DOMAIN writes' : writes'[i].doc # "premium"
    BY <2>1, <2>2, AppendProperties, LenProperties DEF Unsold
  <2>4. /\ reads' \subseteq Read
        /\ \A r \in reads' : r.to = 0 => r.got # "1"
    BY <1>1, AskTypes, AsksUnsold DEF SignUp
  <2>5. QED
    BY <1>1, <2>3, <2>4 DEF SignUp, SignIn, Unsold
<1>2. ASSUME NEW u \in Users, LogIn(u) PROVE Unsold'
  <2>1. /\ reads' \subseteq Read
        /\ \A r \in reads' : r.to = 0 => r.got # "1"
    BY <1>2, AskTypes, AsksUnsold DEF LogIn
  <2>2. QED
    BY <1>2, <2>1 DEF LogIn, SignIn, Unsold
<1>3. CASE LogOut
  BY <1>3, NoneIsNoUser DEF LogOut, SignIn, Unsold
<1>4. CASE OpenWalk
  <2>1. user \in Users
    BY <1>4 DEF OpenWalk, Unsold
  <2>2. /\ reads' \subseteq Read
        /\ \A r \in reads' : r.to = 0 => r.got # "1"
    BY <1>4, <2>1, AskTypes, AsksUnsold DEF OpenWalk
  <2>3. QED
    BY <1>4, <2>2 DEF OpenWalk, Unsold
<1>5. CASE OpenMore \/ BuyTapped \/ RestoreTapped \/ AppStoreSells
  BY <1>5 DEF OpenMore, BuyTapped, RestoreTapped, AppStoreSells, Unsold
<1>6. ASSUME NEW i \in DOMAIN writes, NEW status \in {"stored", "refused"},
             ServerAnswers(i, status)
      PROVE  Unsold'
  <2>1. writes[i] \in Write /\ [writes[i] EXCEPT !.status = status] \in Write
    BY WriteTypes DEF Unsold
  <2>2. [writes[i] EXCEPT !.status = status].doc = writes[i].doc
    BY <2>1 DEF Write
  <2>3. writes' = [writes EXCEPT ![i] = [writes[i] EXCEPT !.status = status]]
    BY <1>6 DEF ServerAnswers
  <2>4. writes' \in Seq(Write) /\ \A j \in DOMAIN writes' : writes'[j].doc # "premium"
    BY <2>1, <2>2, <2>3, SameDocs DEF Unsold
  <2>5. /\ info' \in [Users -> [Users -> Doc]]
        /\ \A u, id \in Users : info'[u][id] # "premium"
    BY <1>6, <2>1 DEF ServerAnswers, Unsold, Write, Doc
  <2>6. QED
    BY <1>6, <2>4, <2>5 DEF ServerAnswers, Unsold
<1>7. ASSUME NEW r \in reads, ReadAnswered(r) PROVE Unsold'
  <2>1. PICK got \in Answers(r) : reads' = (reads \ {r}) \cup {[r EXCEPT !.got = got]}
    BY <1>7 DEF ReadAnswered
  <2>2. got \in Flag \cup Users \cup {None} /\ (r.to = 0 => got # "1")
    BY AnswersUnsold
  <2>3. r \in Read
    BY DEF Unsold
  <2>4. [r EXCEPT !.got = got] \in Read /\ [r EXCEPT !.got = got].to = r.to
        /\ [r EXCEPT !.got = got].got = got
    BY <2>2, <2>3 DEF Read
  <2>5. QED
    BY <1>7, <2>1, <2>2, <2>4 DEF ReadAnswered, Unsold
<1>8. ASSUME NEW r \in reads, ReadDelivered(r) PROVE Unsold'
  BY <1>8 DEF ReadDelivered, Unsold
<1>9. ASSUME NEW i \in DOMAIN writes, SignUpAnswered(i) PROVE Unsold'
  <2>1. writes[i] \in Write /\ [writes[i] EXCEPT !.answer = "called"] \in Write
    BY WriteTypes DEF Unsold
  <2>2. [writes[i] EXCEPT !.answer = "called"].doc = writes[i].doc
    BY <2>1 DEF Write
  <2>3. writes' = [writes EXCEPT ![i] = [writes[i] EXCEPT !.answer = "called"]]
    BY <1>9 DEF SignUpAnswered
  <2>4. writes' \in Seq(Write) /\ \A j \in DOMAIN writes' : writes'[j].doc # "premium"
    BY <2>1, <2>2, <2>3, SameDocs DEF Unsold
  <2>5. writes[i].user \in Users
    BY <2>1 DEF Write
  <2>6. /\ user' \in Users \cup {None}
        /\ reads' \subseteq Read
        /\ \A r \in reads' : r.to = 0 => r.got # "1"
    <3>1. CASE writes[i].status = "stored" /\ screen = "welcome"
      BY <1>9, <2>5, <3>1, AskTypes, AsksUnsold DEF SignUpAnswered, SignIn
    <3>2. CASE ~(writes[i].status = "stored" /\ screen = "welcome")
      BY <1>9, <2>5, <3>2 DEF SignUpAnswered, SignIn, Unsold
    <3>3. QED
      BY <3>1, <3>2
  <2>7. QED
    BY <1>9, <2>4, <2>6 DEF SignUpAnswered, Unsold
<1>10. ASSUME NEW i \in DOMAIN writes, PremiumAnswered(i) PROVE FALSE
  BY <1>10 DEF PremiumAnswered, Unsold
<1>11. ASSUME Restart(writes) PROVE Unsold'
  BY <1>11, RestartUnsold
<1>12. ASSUME PurchaseFails \/ PurchasingAnnounced \/ RestoredAnnounced PROVE Unsold'
  <2>1. CASE user = None
    BY <1>11, <1>12, <2>1 DEF PurchaseFails, PurchasingAnnounced, RestoredAnnounced
  <2>2. CASE user # None
    <3>1. ReadsOfViews \subseteq {r \in Read : r.got = "asked"}
      <4>1. user \in Users
        BY <2>2 DEF Unsold
      <4>2. \A v \in 1..Len(views) : v \in Nat
        OBVIOUS
      <4>3. QED
        BY <4>1, <4>2, AskTypes DEF ReadsOfViews
    <3>2. /\ reads' \subseteq Read
          /\ \A r \in reads' : r.to = 0 => r.got # "1"
      BY <1>12, <2>2, <3>1, AsksUnsold DEF PurchaseFails, PurchasingAnnounced, RestoredAnnounced
    <3>3. QED
      BY <1>12, <2>2, <3>2 DEF PurchaseFails, PurchasingAnnounced, RestoredAnnounced, Unsold
  <2>3. QED
    BY <2>1, <2>2
<1>13. ~PurchasedAnnounced
  BY DEF PurchasedAnnounced, Sold
<1>14. CASE UNCHANGED vars \/ \E u \in Users : SignUpCut(u)
  BY <1>14 DEF SignUpCut, vars, Unsold
<1>15. QED
  BY <1>1, <1>2, <1>3, <1>4, <1>5, <1>6, <1>7, <1>8, <1>9, <1>10, <1>11, <1>12, <1>13, <1>14
     DEF Next, Account, Server, Handlers, AppStore, Relaunch

\* However answers, observers, crashes and changes of user interleave, neither the
\* device nor an account has premium that the App Store did not sell.
THEOREM NothingUnsold == Spec => []PremiumIsSold
<1>1. Init => SoldInv
  <2> SUFFICES ASSUME Init PROVE Unsold
    BY DEF SoldInv
  <2>1. flag # "1"
    BY NoneIsNoUser DEF Init
  <2>2. info \in [Users -> [Users -> Doc]] /\ \A u, id \in Users : info[u][id] # "premium"
    BY DEF Init, Doc
  <2>3. writes \in Seq(Write) /\ \A i \in DOMAIN writes : writes[i].doc # "premium"
    BY EmptySeq DEF Init
  <2>4. user \in Users \cup {None} /\ reads = {}
    BY DEF Init
  <2>5. QED
    BY <2>1, <2>2, <2>3, <2>4 DEF Unsold
<1>2. SoldInv /\ [Next]_vars => SoldInv'
  BY SaleLasts, UnsoldStep DEF SoldInv
<1>3. SoldInv => PremiumIsSold
  BY DEF SoldInv, Unsold, PremiumIsSold, HasPremium
<1>4. QED
  BY <1>1, <1>2, <1>3, PTL DEF Spec

-----------------------------------------------------------------------------
(* Firestore's queue: what every step does to it, and what the server has of it *)

ForPremium(i) == writes[i].doc = "premium"
Bought(u)     == \E i \in DOMAIN writes : ForPremium(i) /\ writes[i].user = u

QueueTypes ==
    /\ registered \subseteq Users /\ user \in registered \cup {None}
    /\ info \in [Users -> [Users -> Doc]]
    /\ writes \in Seq(Write) /\ views \in Seq(Users \cup {None})
    /\ reads \subseteq Read
    /\ \A r \in reads : r.to > 0 => r.got \in Users \cup {None, "asked"}

\* The registration of a user is before every purchase of that user, and the queue of a
\* user is answered from its front: so no registration is stored over a purchase.
QueueInv ==
    /\ QueueTypes
    /\ \A i \in DOMAIN writes : writes[i].user \in registered
    /\ \A i, j \in DOMAIN writes : i < j /\ writes[i].user = writes[j].user =>
          /\ ForPremium(i) => ForPremium(j)
          /\ writes[i].status = "queued" => writes[j].status = "queued"
    /\ \A i \in DOMAIN writes : ForPremium(i) /\ writes[i].status = "stored" =>
          info[writes[i].user][writes[i].id] = "premium"
    /\ \A u, id \in Users : info[u][id] = "premium" => Bought(u)

\* Every step keeps the writes there are, but for their status and answer, and adds the
\* purchase of who is signed in or one registration.
Fresh == DOMAIN writes' \ DOMAIN writes
QueueStep ==
    /\ writes' \in Seq(Write) /\ Len(writes) <= Len(writes')
    /\ registered \subseteq registered'
    /\ \A j \in DOMAIN writes :
          /\ writes'[j].user = writes[j].user /\ writes'[j].id = writes[j].id
          /\ writes'[j].doc = writes[j].doc
          /\ writes'[j].answer \in {writes[j].answer, "called", "lost"}
    /\ \A j \in Fresh : writes'[j].user = user' /\ writes'[j].status = "queued"
    /\ \/ \A j \in Fresh : writes'[j].doc = "premium" /\ user \in registered /\ user' = user
       \/ /\ Len(writes') = Len(writes) + 1 /\ writes'[Len(writes')].doc = "signup"
          /\ user' \in registered' \ registered

\* What the server does not answer stays as it is.
SameServer ==
    /\ info' = info
    /\ \A j \in DOMAIN writes : writes'[j].status = writes[j].status

\* A set of natural numbers has a least one.
LEMMA LeastNumber ==
    ASSUME NEW S \in SUBSET Nat, S # {}
    PROVE  \E n \in S : \A m \in S : n <= m
<1> DEFINE R == OpToRel(<, Nat)
<1>1. \A m, n \in Nat : <<m, n>> \in R <=> m < n
  BY DEF OpToRel
<1>2. IsWellFoundedOn(R, Nat)
  BY NatLessThanWellFounded
<1> HIDE DEF R
<1>3. PICK n \in S : \A m \in S : ~ (<<m, n>> \in R)
  BY <1>2, WFMin
<1>4. \A m \in S : m \in Nat /\ ~ (m < n)
  BY <1>1, <1>3
<1>5. QED
  BY <1>4

\* The observers write one after the other, up to the first without a docID.
LEMMA PremiumWritesAre ==
    ASSUME QueueTypes, user # None
    PROVE  /\ PremiumWrites \in Seq(Write)
           /\ \A v \in DOMAIN PremiumWrites :
                 /\ PremiumWrites[v].doc = "premium" /\ PremiumWrites[v].user = user
                 /\ PremiumWrites[v].status = "queued"
<1> DEFINE known == {v \in DOMAIN views : \A w \in 1..v : views[w] # None}
           left  == {v \in DOMAIN views : views[v] = None}
<1>1. DOMAIN views = 1..Len(views) /\ Len(views) \in Nat
  BY LenProperties DEF QueueTypes
<1>2. \E k \in Nat : known = 1..k
  <2>1. CASE left = {}
    <3>1. known = 1..Len(views)
      BY <1>1, <2>1
    <3>2. QED
      BY <1>1, <3>1
  <2>2. CASE left # {}
    <3>0. left \in SUBSET Nat
      BY <1>1
    <3>1. PICK n \in left : \A m \in left : n <= m
      <4> HIDE DEF left
      <4>1. QED
        BY <2>2, <3>0, LeastNumber
    <3>2. known = 1..(n - 1)
      BY <1>1, <3>1
    <3>3. QED
      BY <1>1, <3>1, <3>2
  <2>3. QED
    BY <2>1, <2>2
<1>3. PICK k \in Nat : known = 1..k
  BY <1>2
<1> DEFINE w(v) == [user |-> user, id |-> views[v], doc |-> "premium", view |-> v,
                    status |-> "queued", answer |-> "waiting"]
<1>4. \A v \in known : w(v) \in Write
  <2>1. \A v \in known : v \in DOMAIN views /\ v \in Nat /\ views[v] # None
    BY <1>1
  <2>2. \A v \in DOMAIN views : views[v] \in Users \cup {None}
    BY <1>1, ElementOfSeq DEF QueueTypes
  <2>3. user \in Users
    BY DEF QueueTypes
  <2>4. QED
    BY <2>1, <2>2, <2>3 DEF Write
<1>5. PremiumWrites = [v \in 1..k |-> w(v)]
  BY <1>3 DEF PremiumWrites
<1>6. PremiumWrites \in Seq(Write)
  BY <1>3, <1>4, <1>5, IsASeq
<1>7. QED
  BY <1>5, <1>6

\* The queue with the purchase at its end.
LEMMA IssuedAre ==
    ASSUME QueueTypes, user # None, NEW issued, issued = writes \o PremiumWrites
    PROVE  /\ issued \in Seq(Write) /\ Len(writes) <= Len(issued)
           /\ \A j \in DOMAIN writes : j \in DOMAIN issued /\ issued[j] = writes[j]
           /\ \A j \in DOMAIN issued \ DOMAIN writes :
                 /\ issued[j].doc = "premium" /\ issued[j].user = user
                 /\ issued[j].status = "queued"
<1>1. writes \in Seq(Write) /\ PremiumWrites \in Seq(Write)
  BY PremiumWritesAre DEF QueueTypes
<1>2. /\ issued \in Seq(Write)
      /\ Len(issued) = Len(writes) + Len(PremiumWrites)
      /\ \A j \in 1..Len(issued) : issued[j] = IF j <= Len(writes) THEN writes[j]
                                               ELSE PremiumWrites[j - Len(writes)]
  BY <1>1, ConcatProperties
<1>3. /\ DOMAIN issued = 1..Len(issued) /\ DOMAIN writes = 1..Len(writes)
      /\ DOMAIN PremiumWrites = 1..Len(PremiumWrites)
      /\ Len(writes) \in Nat /\ Len(PremiumWrites) \in Nat /\ Len(issued) \in Nat
  BY <1>1, <1>2, LenProperties
<1>4. \A j \in DOMAIN issued \ DOMAIN writes :
         /\ j - Len(writes) \in DOMAIN PremiumWrites
         /\ issued[j] = PremiumWrites[j - Len(writes)]
  BY <1>2, <1>3
<1>5. QED
  BY <1>2, <1>3, <1>4, PremiumWritesAre

\* A relaunch with the queue issued: all handlers are lost, and only the flag is asked for.
LEMMA RestartIs ==
    ASSUME QueueTypes, NEW issued \in Seq(Write), Restart(issued)
    PROVE  /\ writes' \in Seq(Write) /\ DOMAIN writes' = DOMAIN issued
           /\ \A j \in DOMAIN issued :
                 /\ writes'[j].user = issued[j].user /\ writes'[j].id = issued[j].id
                 /\ writes'[j].doc = issued[j].doc /\ writes'[j].status = issued[j].status
                 /\ writes'[j].answer \in {issued[j].answer, "lost"}
                 /\ writes'[j].answer # "waiting"
           /\ \A r \in reads' : r \in Read /\ r.user = user /\ r.got = "asked"
<1>1. DOMAIN issued = 1..Len(issued) /\ Len(issued) \in Nat
  BY LenProperties
<1>2. \A j \in DOMAIN issued : issued[j] \in Write
  BY <1>1, ElementOfSeq
<1>3. \A j \in DOMAIN issued :
         writes'[j] = IF issued[j].answer = "waiting" THEN [issued[j] EXCEPT !.answer = "lost"]
                                                      ELSE issued[j]
  BY DEF Restart
<1>4. \A j \in DOMAIN issued :
         /\ writes'[j] \in Write
         /\ writes'[j].user = issued[j].user /\ writes'[j].id = issued[j].id
         /\ writes'[j].doc = issued[j].doc /\ writes'[j].status = issued[j].status
         /\ writes'[j].answer \in {issued[j].answer, "lost"}
         /\ writes'[j].answer # "waiting"
  BY <1>2, <1>3, ZenonT(30) DEF Write
<1>5. writes' = [j \in 1..Len(issued) |-> writes'[j]]
  BY <1>1 DEF Restart
<1>6. writes' \in Seq(Write) /\ DOMAIN writes' = DOMAIN issued
  BY <1>1, <1>4, <1>5, IsASeq
<1>7. \A r \in reads' : r \in Read /\ r.user = user /\ r.got = "asked"
  <2>1. CASE user = None
    BY <2>1 DEF Restart
  <2>2. CASE user # None
    BY <2>2 DEF Restart, Ask, Read, QueueTypes
  <2>3. QED
    BY <2>1, <2>2
<1>8. QED
  BY <1>4, <1>6, <1>7

\* One write of the queue replaced.
LEMMA ReplacedIs ==
    ASSUME QueueTypes, NEW i \in DOMAIN writes, NEW w \in Write,
           writes' = [writes EXCEPT ![i] = w]
    PROVE  /\ writes' \in Seq(Write) /\ DOMAIN writes' = DOMAIN writes
           /\ Len(writes') = Len(writes)
           /\ \A j \in DOMAIN writes : writes'[j] = IF j = i THEN w ELSE writes[j]
<1>1. DOMAIN writes = 1..Len(writes) /\ Len(writes) \in Nat
  BY LenProperties DEF QueueTypes
<1>2. writes' \in Seq(Write) /\ Len(writes') = Len(writes)
  BY <1>1, ExceptSeq DEF QueueTypes
<1>3. QED
  BY <1>2

\* The questions of the observers are of who is signed in.
LEMMA AsksOfViews ==
    ASSUME QueueTypes, user # None
    PROVE  \A r \in ReadsOfViews : r \in Read /\ r.user = user /\ r.got = "asked"
<1>1. user \in Users
  BY DEF QueueTypes
<1>2. QED
  BY <1>1 DEF ReadsOfViews, Ask, Read

\* What an answer changes in the queue, the server's and that to the app.
LEMMA ServerAnswersIs ==
    ASSUME QueueTypes, NEW i \in DOMAIN writes, NEW status \in {"stored", "refused"},
           ServerAnswers(i, status)
    PROVE  /\ writes' \in Seq(Write) /\ DOMAIN writes' = DOMAIN writes
           /\ Len(writes') = Len(writes)
           /\ \A j \in DOMAIN writes :
                 /\ writes'[j].user = writes[j].user /\ writes'[j].id = writes[j].id
                 /\ writes'[j].doc = writes[j].doc /\ writes'[j].answer = writes[j].answer
                 /\ writes'[j].status = IF j = i THEN status ELSE writes[j].status
<1> DEFINE w == [writes[i] EXCEPT !.status = status]
<1>1. writes[i] \in Write
  BY LenProperties, ElementOfSeq DEF QueueTypes
<1>2. /\ w \in Write /\ w.user = writes[i].user /\ w.id = writes[i].id
      /\ w.doc = writes[i].doc /\ w.answer = writes[i].answer /\ w.status = status
  BY <1>1 DEF Write
<1>3. writes' = [writes EXCEPT ![i] = w]
  BY DEF ServerAnswers
<1> HIDE DEF w
<1>4. QED
  BY <1>2, <1>3, ReplacedIs

LEMMA HandlerIs ==
    ASSUME QueueTypes, NEW i \in DOMAIN writes, SignUpAnswered(i) \/ PremiumAnswered(i)
    PROVE  /\ writes' \in Seq(Write) /\ DOMAIN writes' = DOMAIN writes
           /\ Len(writes') = Len(writes)
           /\ \A j \in DOMAIN writes :
                 /\ writes'[j].user = writes[j].user /\ writes'[j].id = writes[j].id
                 /\ writes'[j].doc = writes[j].doc /\ writes'[j].status = writes[j].status
                 /\ writes'[j].answer = IF j = i THEN "called" ELSE writes[j].answer
<1> DEFINE w == [writes[i] EXCEPT !.answer = "called"]
<1>1. writes[i] \in Write
  BY LenProperties, ElementOfSeq DEF QueueTypes
<1>2. /\ w \in Write /\ w.user = writes[i].user /\ w.id = writes[i].id
      /\ w.doc = writes[i].doc /\ w.answer = "called" /\ w.status = writes[i].status
  BY <1>1 DEF Write
<1>3. writes' = [writes EXCEPT ![i] = w]
  BY DEF SignUpAnswered, PremiumAnswered
<1> HIDE DEF w
<1>4. QED
  BY <1>2, <1>3, ReplacedIs

\* A step that leaves the queue alone, and forgets nobody.
LEMMA QueueRests ==
    ASSUME QueueInv, registered \subseteq registered', UNCHANGED writes
    PROVE  QueueStep
  BY DEF QueueInv, QueueTypes, QueueStep, Fresh

LEMMA QueueSteps ==
    ASSUME QueueInv, [Next]_vars
    PROVE  /\ QueueStep
           /\ SameServer \/ \E i \in DOMAIN writes, status \in {"stored", "refused"} :
                               ServerAnswers(i, status)
<1> USE DEF QueueInv
<1>0. /\ DOMAIN writes = 1..Len(writes) /\ Len(writes) \in Nat
      /\ \A i \in DOMAIN writes : writes[i] \in Write
  BY LenProperties, ElementOfSeq DEF QueueTypes
<1>1. ASSUME NEW u \in Users, SignUp(u) PROVE QueueStep /\ SameServer
  <2> DEFINE w == [user |-> u, id |-> u, doc |-> "signup", view |-> 0,
                   status |-> "queued", answer |-> "waiting"]
  <2>1. w \in Write /\ w.user = u /\ w.doc = "signup" /\ w.status = "queued"
    BY DEF Write
  <2>2. writes' = Append(writes, w) /\ writes \in Seq(Write)
    BY <1>1 DEF SignUp, QueueTypes
  <2> HIDE DEF w
  <2>3. /\ writes' \in Seq(Write) /\ Len(writes') = Len(writes) + 1
        /\ \A j \in 1..Len(writes) : writes'[j] = writes[j]
        /\ writes'[Len(writes) + 1] = w
    BY <2>1, <2>2, AppendProperties
  <2>4. DOMAIN writes' = 1..(Len(writes) + 1)
    BY <2>3, LenProperties
  <2>5. user' = u /\ registered' = registered \cup {u} /\ u \notin registered /\ info' = info
    BY <1>1 DEF SignUp, SignIn
  <2>6. Fresh = {Len(writes) + 1}
    BY <1>0, <2>4 DEF Fresh
  <2>7. QED
    BY <1>0, <2>1, <2>3, <2>5, <2>6 DEF QueueStep, SameServer
<1>2. ASSUME NEW issued \in {writes, writes \o PremiumWrites}, Restart(issued),
             issued = writes \/ user # None
      PROVE  QueueStep /\ SameServer
  <2>1. /\ issued \in Seq(Write) /\ Len(writes) <= Len(issued)
        /\ \A j \in DOMAIN writes : j \in DOMAIN issued /\ issued[j] = writes[j]
        /\ \A j \in DOMAIN issued \ DOMAIN writes :
              /\ issued[j].doc = "premium" /\ issued[j].user = user
              /\ issued[j].status = "queued" /\ user # None
    <3>1. CASE issued = writes
      BY <1>0, <3>1 DEF QueueTypes
    <3>2. CASE issued = writes \o PremiumWrites /\ user # None
      BY <3>2, IssuedAre
    <3>3. QED
      BY <1>2, <3>1, <3>2
  <2>2. /\ writes' \in Seq(Write) /\ DOMAIN writes' = DOMAIN issued
        /\ \A j \in DOMAIN issued :
              /\ writes'[j].user = issued[j].user /\ writes'[j].id = issued[j].id
              /\ writes'[j].doc = issued[j].doc /\ writes'[j].status = issued[j].status
              /\ writes'[j].answer \in {issued[j].answer, "lost"}
    BY <1>2, <2>1, RestartIs
  <2>3. Len(writes') = Len(issued)
    BY <2>1, <2>2, LenProperties
  <2>4. /\ registered' = registered /\ user' = user /\ info' = info
        /\ user # None => user \in registered
    BY <1>2 DEF Restart, QueueTypes
  <2>5. QED
    BY <2>1, <2>2, <2>3, <2>4, ZenonT(30) DEF QueueStep, SameServer, Fresh
<1>3. CASE PurchasedAnnounced
  <2>1. CASE user = None
    BY <1>2, <1>3, <2>1 DEF PurchasedAnnounced
  <2>2. CASE user # None
    <3> DEFINE issued == writes \o PremiumWrites
    <3>1. CASE Restart(issued)
      BY <1>2, <2>2, <3>1
    <3>2. CASE writes' = issued /\ UNCHANGED <<registered, user, info>>
      <4>1. user \in registered
        BY <2>2 DEF QueueTypes
      <4>2. /\ issued \in Seq(Write) /\ Len(writes) <= Len(issued)
            /\ \A j \in DOMAIN writes : j \in DOMAIN issued /\ issued[j] = writes[j]
            /\ \A j \in DOMAIN issued \ DOMAIN writes :
                  /\ issued[j].doc = "premium" /\ issued[j].user = user
                  /\ issued[j].status = "queued"
        BY <2>2, IssuedAre
      <4> HIDE DEF issued
      <4>3. QED
        BY <3>2, <4>1, <4>2 DEF QueueStep, SameServer, Fresh
    <3>3. QED
      BY <1>3, <2>2, <3>1, <3>2 DEF PurchasedAnnounced
  <2>3. QED
    BY <2>1, <2>2
<1>4. ASSUME NEW i \in DOMAIN writes, NEW status \in {"stored", "refused"},
             ServerAnswers(i, status)
      PROVE  QueueStep
  <2>1. /\ writes' \in Seq(Write) /\ DOMAIN writes' = DOMAIN writes
        /\ Len(writes') = Len(writes)
        /\ \A j \in DOMAIN writes :
              /\ writes'[j].user = writes[j].user /\ writes'[j].id = writes[j].id
              /\ writes'[j].doc = writes[j].doc /\ writes'[j].answer = writes[j].answer
    BY <1>4, ServerAnswersIs
  <2>2. Fresh = {} /\ registered' = registered
    BY <1>4, <2>1 DEF Fresh, ServerAnswers
  <2>3. QED
    BY <1>0, <1>4, <2>1, <2>2 DEF QueueStep, ServerAnswers, QueueTypes
<1>5. ASSUME NEW i \in DOMAIN writes, SignUpAnswered(i) \/ PremiumAnswered(i)
      PROVE  QueueStep /\ SameServer
  <2>1. /\ writes' \in Seq(Write) /\ DOMAIN writes' = DOMAIN writes
        /\ Len(writes') = Len(writes)
        /\ \A j \in DOMAIN writes :
              /\ writes'[j].user = writes[j].user /\ writes'[j].id = writes[j].id
              /\ writes'[j].doc = writes[j].doc /\ writes'[j].status = writes[j].status
              /\ writes'[j].answer \in {writes[j].answer, "called"}
    BY <1>5, HandlerIs
  <2>2. Fresh = {} /\ registered' = registered /\ info' = info
    BY <1>5, <2>1 DEF Fresh, SignUpAnswered, PremiumAnswered
  <2>3. QED
    BY <1>0, <2>1, <2>2 DEF QueueStep, SameServer, QueueTypes
<1>6. CASE registered \subseteq registered' /\ UNCHANGED <<writes, info>>
  BY <1>6, QueueRests DEF SameServer
<1>7. CASE \/ \E u \in Users : SignUpCut(u) \/ LogIn(u)
           \/ LogOut \/ OpenWalk \/ OpenMore \/ BuyTapped \/ RestoreTapped \/ AppStoreSells
           \/ \E r \in reads : ReadAnswered(r) \/ ReadDelivered(r)
           \/ UNCHANGED vars
  BY <1>6, <1>7 DEF SignUpCut, LogIn, LogOut, OpenWalk, OpenMore, BuyTapped, RestoreTapped,
     AppStoreSells, ReadAnswered, ReadDelivered, vars
<1>8. CASE PurchaseFails \/ PurchasingAnnounced \/ RestoredAnnounced \/ Relaunch
  BY <1>2, <1>6, <1>8 DEF PurchaseFails, PurchasingAnnounced, RestoredAnnounced, Relaunch
<1>9. QED
  BY <1>1, <1>3, <1>4, <1>5, <1>7, <1>8 DEF Next, Account, Server, Handlers, AppStore

\* The rest of the types: users, documents, observers, questions.
LEMMA TypesStep ==
    ASSUME QueueInv, [Next]_vars
    PROVE  QueueTypes'
<1> USE DEF QueueInv
<1>0. /\ DOMAIN writes = 1..Len(writes) /\ Len(writes) \in Nat
      /\ \A i \in DOMAIN writes : writes[i] \in Write
      /\ DOMAIN views = 1..Len(views) /\ Len(views) \in Nat
  BY LenProperties, ElementOfSeq DEF QueueTypes
<1>1. writes' \in Seq(Write)
  BY QueueSteps DEF QueueStep
<1>2. \A u \in Users, to \in Nat : Ask(to, u) \in Read /\ Ask(to, u).got = "asked"
  BY DEF Ask, Read
<1>3. ASSUME NEW u \in Users, SignUp(u) \/ LogIn(u) PROVE QueueTypes'
  <2>1. Ask(0, u) \in Read /\ Ask(0, u).got = "asked"
    BY <1>2
  <2>2. QED
    BY <1>1, <1>3, <2>1 DEF SignUp, LogIn, SignIn, Asks, QueueTypes
<1>4. CASE LogOut
  BY <1>1, <1>4 DEF LogOut, SignIn, QueueTypes
<1>5. CASE OpenWalk
  <2>1. Ask(0, user) \in Read /\ Ask(0, user).got = "asked"
    BY <1>2, <1>5 DEF OpenWalk, QueueTypes
  <2>2. QED
    BY <1>1, <1>5, <2>1 DEF OpenWalk, Asks, QueueTypes
<1>6. CASE OpenMore
  <2>1. views' \in Seq(Users \cup {None})
    BY <1>6, AppendProperties DEF OpenMore, QueueTypes
  <2>2. QED
    BY <1>1, <1>6, <2>1 DEF OpenMore, QueueTypes
<1>7. CASE BuyTapped \/ RestoreTapped \/ AppStoreSells
  BY <1>1, <1>7 DEF BuyTapped, RestoreTapped, AppStoreSells, QueueTypes
<1>8. ASSUME NEW i \in DOMAIN writes, NEW status \in {"stored", "refused"},
             ServerAnswers(i, status)
      PROVE  QueueTypes'
  <2>1. info' \in [Users -> [Users -> Doc]]
    BY <1>0, <1>8 DEF ServerAnswers, QueueTypes, Write, Doc
  <2>2. QED
    BY <1>1, <1>8, <2>1 DEF ServerAnswers, QueueTypes
<1>9. ASSUME NEW r \in reads, ReadAnswered(r) PROVE QueueTypes'
  <2>1. PICK got \in Answers(r) : reads' = (reads \ {r}) \cup {[r EXCEPT !.got = got]}
    BY <1>9 DEF ReadAnswered
  <2>2. r \in Read
    BY DEF QueueTypes
  <2>3. /\ got \in Flag \cup Users \cup {None}
        /\ r.to > 0 => got \in Users \cup {None}
    BY <2>2 DEF Answers, PremiumOf, Flag, Ids, Read
  <2>4. LET s == [r EXCEPT !.got = got] IN s \in Read /\ s.to = r.to /\ s.got = got
    BY <2>2, <2>3 DEF Read
  <2>5. QED
    BY <1>1, <1>9, <2>1, <2>3, <2>4 DEF ReadAnswered, QueueTypes
<1>10. ASSUME NEW r \in reads, ReadDelivered(r) PROVE QueueTypes'
  <2>1. reads' \subseteq reads
    BY <1>10 DEF ReadDelivered, QueueTypes
  <2>2. views' \in Seq(Users \cup {None})
    <3>1. CASE r.to > 0 /\ r.got # None /\ r.to \in DOMAIN views
      <4>1. r.got \in Users
        BY <1>10, <3>1 DEF ReadDelivered, QueueTypes
      <4>2. QED
        BY <4>1, <1>10, <3>1, <1>0, ExceptSeq DEF ReadDelivered, QueueTypes
    <3>2. CASE ~(r.to > 0 /\ r.got # None)
      BY <1>10, <3>2 DEF ReadDelivered, QueueTypes
    <3>3. CASE r.to > 0 /\ r.got # None /\ r.to \notin DOMAIN views
      <4>1. views' = [views EXCEPT ![r.to] = r.got]
        BY <1>10, <3>3 DEF ReadDelivered
      <4>2. views' = views
        BY <1>0, <3>3, <4>1 DEF QueueTypes
      <4>3. QED
        BY <4>2 DEF QueueTypes
    <3>4. QED
      BY <3>1, <3>2, <3>3
  <2>3. QED
    BY <1>1, <1>10, <2>1, <2>2 DEF ReadDelivered, QueueTypes
<1>11. ASSUME NEW i \in DOMAIN writes, SignUpAnswered(i) PROVE QueueTypes'
  <2>1. writes[i].user \in registered /\ writes[i].user \in Users
    BY DEF QueueTypes
  <2>2. Ask(0, writes[i].user) \in Read /\ Ask(0, writes[i].user).got = "asked"
    BY <1>2, <2>1
  <2>3. QED
    BY <1>1, <1>11, <2>1, <2>2 DEF SignUpAnswered, SignIn, Asks, QueueTypes
<1>12. ASSUME NEW i \in DOMAIN writes, PremiumAnswered(i) PROVE QueueTypes'
  <2>1. views' \in Seq(Users \cup {None})
    BY <1>12, AppendProperties DEF PremiumAnswered, QueueTypes
  <2>2. QED
    BY <1>1, <1>12, <2>1 DEF PremiumAnswered, QueueTypes
<1>13. ASSUME NEW issued \in {writes, writes \o PremiumWrites}, Restart(issued),
             issued = writes \/ user # None
       PROVE  QueueTypes'
  <2>1. issued \in Seq(Write)
    BY <1>13, IssuedAre DEF QueueTypes
  <2>2. \A r \in reads' : r \in Read /\ r.got = "asked"
    BY <1>13, <2>1, RestartIs
  <2>3. views' \in Seq(Users \cup {None})
    BY <1>13 DEF Restart
  <2>4. QED
    BY <1>1, <1>13, <2>2, <2>3 DEF Restart, QueueTypes
<1>14. ASSUME user # None, Asks(ReadsOfViews), UNCHANGED <<registered, user, info, views>>
       PROVE  QueueTypes'
  BY <1>1, <1>14, AsksOfViews DEF Asks, QueueTypes
<1>15. CASE Relaunch
  BY <1>13, <1>15 DEF Relaunch
<1>16. CASE PurchaseFails \/ PurchasingAnnounced \/ RestoredAnnounced
  BY <1>13, <1>14, <1>16 DEF PurchaseFails, PurchasingAnnounced, RestoredAnnounced
<1>17. CASE PurchasedAnnounced
  BY <1>13, <1>14, <1>17 DEF PurchasedAnnounced
<1>18. CASE UNCHANGED vars \/ \E u \in Users : SignUpCut(u)
  BY <1>1, <1>18 DEF SignUpCut, vars, QueueTypes
<1>19. QED
  BY <1>3, <1>4, <1>5, <1>6, <1>7, <1>8, <1>9, <1>10, <1>11, <1>12, <1>15, <1>16, <1>17,
     <1>18 DEF Next, Account, Server, Handlers, AppStore

\* A purchase among the writes stays there.
BoughtThen(u) == \E i \in DOMAIN writes' : writes'[i].doc = "premium" /\ writes'[i].user = u
LEMMA BoughtLasts ==
    ASSUME QueueStep, writes \in Seq(Write)
    PROVE  \A u : Bought(u) => BoughtThen(u)
<1> SUFFICES ASSUME NEW u, Bought(u) PROVE BoughtThen(u)
  OBVIOUS
<1>1. PICK i \in DOMAIN writes : ForPremium(i) /\ writes[i].user = u
  BY DEF Bought
<1>2. i \in DOMAIN writes'
  BY LenProperties DEF QueueStep
<1>3. QED
  BY <1>1, <1>2 DEF BoughtThen, ForPremium, QueueStep

LEMMA QueueInvStep == QueueInv /\ [Next]_vars => QueueInv'
<1> SUFFICES ASSUME QueueInv, [Next]_vars PROVE QueueInv'
  OBVIOUS
<1> DEFINE Answered == \E i \in DOMAIN writes, status \in {"stored", "refused"} :
                           ServerAnswers(i, status)
<1>1. QueueTypes' /\ QueueTypes /\ QueueStep /\ (SameServer \/ Answered)
  BY TypesStep, QueueSteps DEF QueueInv
<1> HIDE DEF Answered
<1>2. /\ DOMAIN writes = 1..Len(writes) /\ Len(writes) \in Nat
      /\ DOMAIN writes' = 1..Len(writes') /\ Len(writes') \in Nat
      /\ DOMAIN writes \subseteq DOMAIN writes'
      /\ \A j \in DOMAIN writes' : writes'[j] \in Write
      /\ \A j \in DOMAIN writes : writes[j] \in Write
  <2>1. /\ DOMAIN writes = 1..Len(writes) /\ Len(writes) \in Nat
        /\ DOMAIN writes' = 1..Len(writes') /\ Len(writes') \in Nat
    BY <1>1, LenProperties DEF QueueTypes
  <2>2. \A j \in DOMAIN writes' : writes'[j] \in Write
    BY <1>1, <2>1, ElementOfSeq DEF QueueTypes
  <2>3. \A j \in DOMAIN writes : writes[j] \in Write
    BY <1>1, <2>1, ElementOfSeq DEF QueueTypes
  <2>4. Len(writes) <= Len(writes')
    BY <1>1 DEF QueueStep
  <2>5. DOMAIN writes \subseteq DOMAIN writes'
    BY <2>1, <2>4
  <2>6. QED
    BY <2>1, <2>2, <2>3, <2>5
<1>3. \A j \in DOMAIN writes' : writes'[j].user \in registered'
  <2>1. \A j \in Fresh : writes'[j].user \in registered'
    BY <1>1 DEF QueueStep
  <2>2. \A j \in DOMAIN writes : writes'[j].user \in registered'
    BY <1>1 DEF QueueStep, QueueInv
  <2>3. QED
    BY <2>1, <2>2 DEF Fresh
<1>4. \A u, id \in Users : info'[u][id] = "premium" => Bought(u)'
  <2>1. ASSUME NEW u \in Users, NEW id \in Users, info'[u][id] = "premium"
        PROVE  Bought(u)'
    <3>1. Bought(u)
      <4>1. CASE SameServer
        BY <2>1, <4>1 DEF SameServer, QueueInv
      <4>2. ASSUME NEW i \in DOMAIN writes, NEW status \in {"stored", "refused"},
                   ServerAnswers(i, status)
            PROVE  Bought(u)
        <5>1. info'[u][id] = info[u][id]
              \/ (u = writes[i].user /\ writes[i].doc = info'[u][id])
          BY <4>2, <1>1 DEF ServerAnswers, QueueTypes
        <5>2. CASE info'[u][id] = info[u][id]
          BY <2>1, <5>2 DEF QueueInv
        <5>3. CASE u = writes[i].user /\ writes[i].doc = info'[u][id]
          BY <2>1, <5>3 DEF Bought, ForPremium
        <5>4. QED
          BY <5>1, <5>2, <5>3
      <4>3. QED
        BY <1>1, <4>1, <4>2 DEF Answered
    <3>2. QED
      BY <3>1, <1>1, BoughtLasts DEF QueueTypes, Bought, BoughtThen, ForPremium
  <2>2. QED
    BY <2>1
<1>5. \A i, j \in DOMAIN writes' : i < j /\ writes'[i].user = writes'[j].user =>
         (ForPremium(i)' => ForPremium(j)')
  <2>1. ASSUME NEW i \in DOMAIN writes', NEW j \in DOMAIN writes', i < j,
               writes'[i].user = writes'[j].user, ForPremium(i)', ~ForPremium(j)'
        PROVE  FALSE
    <3>1. j \in Fresh
      <4>1. CASE j \in DOMAIN writes
        <5>1. i \in DOMAIN writes
          BY <1>2, <2>1, <4>1
        <5>2. QED
          BY <1>1, <2>1, <4>1, <5>1 DEF QueueStep, QueueInv, ForPremium
      <4>2. QED
        BY <4>1 DEF Fresh
    <3>2. /\ Len(writes') = Len(writes) + 1
          /\ user' \in registered' \ registered
      BY <1>1, <2>1, <3>1 DEF QueueStep, ForPremium
    <3>3. i \in DOMAIN writes
      BY <1>2, <2>1, <3>2
    <3>4. writes'[i].user \in registered /\ writes'[j].user = user'
      BY <1>1, <3>1, <3>3 DEF QueueStep, QueueInv
    <3>5. QED
      BY <2>1, <3>2, <3>4
  <2>2. QED
    BY <2>1
<1>6. \A i, j \in DOMAIN writes' : i < j /\ writes'[i].user = writes'[j].user =>
         (writes'[i].status = "queued" => writes'[j].status = "queued")
  <2>1. ASSUME NEW i \in DOMAIN writes', NEW j \in DOMAIN writes', i < j,
               writes'[i].user = writes'[j].user, writes'[i].status = "queued",
               writes'[j].status # "queued"
        PROVE  FALSE
    <3>1. j \in DOMAIN writes /\ i \in DOMAIN writes
      <4>1. j \notin Fresh
        BY <1>1, <2>1 DEF QueueStep
      <4>2. j \in DOMAIN writes
        BY <4>1 DEF Fresh
      <4>3. QED
        BY <1>2, <2>1, <4>2
    <3>2. writes[i].user = writes[j].user
      BY <1>1, <2>1, <3>1 DEF QueueStep
    <3>3. CASE SameServer
      BY <2>1, <3>1, <3>2, <3>3 DEF SameServer, QueueInv
    <3>4. ASSUME NEW k \in DOMAIN writes, NEW status \in {"stored", "refused"},
                 ServerAnswers(k, status)
          PROVE  FALSE
      <4>1. \A n \in DOMAIN writes : writes'[n].status = IF n = k THEN status
                                                         ELSE writes[n].status
        BY <1>1, <3>4, ServerAnswersIs
      <4>2. writes[i].status = "queued"
        BY <2>1, <3>1, <4>1
      <4>3. writes[j].status = "queued"
        BY <2>1, <3>1, <3>2, <4>2 DEF QueueInv
      <4>4. j = k
        BY <2>1, <3>1, <4>1, <4>3
      <4>5. writes[i].status # "queued"
        BY <1>2, <2>1, <3>1, <3>2, <3>4, <4>4 DEF ServerAnswers
      <4>6. QED
        BY <4>2, <4>5
    <3>5. QED
      BY <1>1, <3>3, <3>4 DEF Answered
  <2>2. QED
    BY <2>1
<1>7. \A i \in DOMAIN writes' : ForPremium(i)' /\ writes'[i].status = "stored" =>
         info'[writes'[i].user][writes'[i].id] = "premium"
  <2>1. ASSUME NEW i \in DOMAIN writes', ForPremium(i)', writes'[i].status = "stored"
        PROVE  info'[writes'[i].user][writes'[i].id] = "premium"
    <3>1. i \in DOMAIN writes
      BY <1>1, <2>1 DEF QueueStep, Fresh
    <3>2. /\ writes'[i].user = writes[i].user /\ writes'[i].id = writes[i].id
          /\ ForPremium(i)
          /\ writes[i].user \in Users /\ writes[i].id \in Users
      BY <1>1, <1>2, <2>1, <3>1 DEF QueueStep, ForPremium, Write
    <3>3. CASE SameServer
      BY <2>1, <3>1, <3>2, <3>3 DEF SameServer, QueueInv
    <3>4. ASSUME NEW k \in DOMAIN writes, NEW status \in {"stored", "refused"},
                 ServerAnswers(k, status)
          PROVE  info'[writes[i].user][writes[i].id] = "premium"
      <4>1. \A n \in DOMAIN writes : writes'[n].status = IF n = k THEN status
                                                         ELSE writes[n].status
        BY <1>1, <3>4, ServerAnswersIs
      <4>2. CASE i = k
        <5>1. info' = [info EXCEPT ![writes[i].user][writes[i].id] = "premium"]
          BY <2>1, <3>1, <3>2, <3>4, <4>1, <4>2 DEF ServerAnswers, ForPremium
        <5>2. QED
          BY <1>1, <3>2, <5>1 DEF QueueTypes
      <4>3. CASE i # k
        <5>1. info[writes[i].user][writes[i].id] = "premium" /\ writes[i].status = "stored"
          BY <2>1, <3>1, <3>2, <4>1, <4>3 DEF QueueInv
        <5>2. writes[k].user = writes[i].user => ForPremium(k)
          <6>1. writes[k].status = "queued"
            BY <3>4 DEF ServerAnswers
          <6>2. ~(k < i /\ writes[k].user = writes[i].user)
            BY <3>1, <5>1, <6>1 DEF QueueInv
          <6>3. QED
            BY <1>2, <3>1, <3>2, <4>3, <6>2 DEF QueueInv
        <5>3. writes[k].user \in Users /\ writes[k].id \in Users
          BY <1>2 DEF Write
        <5>4. QED
          BY <1>1, <3>2, <3>4, <5>1, <5>2, <5>3 DEF ServerAnswers, QueueTypes, ForPremium
      <4>4. QED
        BY <4>2, <4>3
    <3>5. QED
      BY <1>1, <3>2, <3>3, <3>4 DEF Answered
  <2>2. QED
    BY <2>1
<1>8. QED
  BY <1>1, <1>3, <1>4, <1>5, <1>6, <1>7 DEF QueueInv

LEMMA QueueInvHolds == Spec => []QueueInv
<1>1. Init => QueueInv
  <2> SUFFICES ASSUME Init PROVE QueueInv
    OBVIOUS
  <2>1. writes \in Seq(Write) /\ DOMAIN writes = {} /\ views \in Seq(Users \cup {None})
    BY EmptySeq DEF Init
  <2>2. info \in [Users -> [Users -> Doc]] /\ \A u, id \in Users : info[u][id] # "premium"
    BY DEF Init, Doc
  <2>3. registered \subseteq Users /\ user = None /\ reads = {}
    BY OlderAreUsers DEF Init
  <2>4. QED
    BY <2>1, <2>2, <2>3 DEF QueueInv, QueueTypes
<1>2. QED
  BY <1>1, QueueInvStep, PTL DEF Spec

-----------------------------------------------------------------------------
(* A finished transaction *)

FinishInv ==
    payment = "finished" => \E i \in DOMAIN writes : ForPremium(i) /\ writes[i].status # "queued"

LEMMA FinishStep == QueueInv /\ FinishInv /\ [Next]_vars => FinishInv'
<1> SUFFICES ASSUME QueueInv, FinishInv, [Next]_vars, payment' = "finished"
             PROVE  \E i \in DOMAIN writes' : ForPremium(i)' /\ writes'[i].status # "queued"
  BY DEF FinishInv
<1>1. QueueStep /\ QueueTypes
      /\ (SameServer \/ \E i \in DOMAIN writes, status \in {"stored", "refused"} :
                               ServerAnswers(i, status))
  BY QueueSteps DEF QueueInv
<1>2. DOMAIN writes \subseteq DOMAIN writes'
  <2>1. /\ DOMAIN writes = 1..Len(writes) /\ Len(writes) \in Nat
        /\ DOMAIN writes' = 1..Len(writes') /\ Len(writes') \in Nat
    BY <1>1, LenProperties DEF QueueTypes, QueueStep
  <2>2. Len(writes) <= Len(writes')
    BY <1>1 DEF QueueStep
  <2>3. QED
    BY <2>1, <2>2
<1>3. \E i \in DOMAIN writes : ForPremium(i) /\ writes[i].status # "queued"
  <2>1. CASE payment = "finished"
    BY <2>1 DEF FinishInv
  <2>2. CASE payment # "finished"
    <3>1. \E i \in DOMAIN writes : PremiumAnswered(i)
      BY <2>2 DEF Next, vars, Account, Server, Handlers, AppStore, Relaunch, Restart, SignUp,
         SignUpCut, LogIn, LogOut, OpenWalk, OpenMore, BuyTapped, RestoreTapped, ServerAnswers,
         ReadAnswered, SignUpAnswered, ReadDelivered, AppStoreSells, PurchaseFails,
         PurchasingAnnounced, PurchasedAnnounced, RestoredAnnounced
    <3>2. QED
      BY <3>1 DEF PremiumAnswered, ForPremium
  <2>3. QED
    BY <2>1, <2>2
<1>4. PICK i \in DOMAIN writes : ForPremium(i) /\ writes[i].status # "queued"
  BY <1>3
<1>5. i \in DOMAIN writes' /\ ForPremium(i)'
  BY <1>1, <1>2, <1>4 DEF QueueStep, ForPremium
<1>6. writes'[i].status # "queued"
  <2>1. CASE SameServer
    BY <1>4, <2>1 DEF SameServer
  <2>2. ASSUME NEW k \in DOMAIN writes, NEW status \in {"stored", "refused"},
               ServerAnswers(k, status)
        PROVE  writes'[i].status # "queued"
    <3>1. writes'[i].status = IF i = k THEN status ELSE writes[i].status
      BY <1>1, <2>2, ServerAnswersIs
    <3>2. QED
      BY <1>4, <3>1
  <2>3. QED
    BY <1>1, <2>1, <2>2
<1>7. QED
  BY <1>5, <1>6

\* A sale is not lost between the App Store and Firestore: paymentQueue finishes its
\* transaction only in the handler of a write, and what is stored there is not replaced by
\* a registration that was handed over before it (setData without merge).
THEOREM SalesAreDelivered == Spec => []FinishedIsDelivered
<1>1. Init => FinishInv
  BY DEF Init, FinishInv
<1>2. QueueInv /\ FinishInv => FinishedIsDelivered
  <2> SUFFICES ASSUME QueueInv, FinishInv, payment = "finished", Refused = {}
               PROVE  \E u \in Users : HasPremium(u)
    BY DEF FinishedIsDelivered
  <2>1. PICK i \in DOMAIN writes : ForPremium(i) /\ writes[i].status # "queued"
    BY DEF FinishInv
  <2>2. writes[i] \in Write
    BY LenProperties, ElementOfSeq DEF QueueInv, QueueTypes
  <2>3. writes[i].status = "stored"
    BY <2>1, <2>2 DEF Write, Refused, ForPremium
  <2>4. info[writes[i].user][writes[i].id] = "premium"
    BY <2>1, <2>3 DEF QueueInv
  <2>5. QED
    BY <2>2, <2>4 DEF HasPremium, Write
<1>3. QED
  BY <1>1, <1>2, FinishStep, QueueInvHolds, PTL DEF Spec

-----------------------------------------------------------------------------
(* Whose premium it is *)

\* While the user did not change under an answer, all that is outstanding is of the user.
MixInv ==
    /\ screen = "welcome" <=> user = None
    /\ (\E i \in DOMAIN writes : ForPremium(i)) => Sold
    /\ ~mixed =>
        /\ \A r \in reads : /\ r.user = user
                            /\ r.to = 0 /\ r.got = "1" => Bought(user)
        /\ \A i \in DOMAIN writes : /\ writes[i].answer = "waiting" => writes[i].user = user
                                    /\ ForPremium(i) => writes[i].user = payer
        /\ payment \in {"purchasing", "purchased"} => payer = user
        /\ flag = "1" => Bought(user)

\* Steps of one user that at most ask something and hand over what the user bought.
LEMMA MixAsks ==
    ASSUME QueueInv, QueueStep, MixInv, ~mixed, ~mixed',
           UNCHANGED <<user, flag, payer>>,
           (\E i \in DOMAIN writes' : ForPremium(i)') => Sold',
           payment' \in {"purchasing", "purchased"} => payment \in {"purchasing", "purchased"},
           Fresh # {} => payment \in {"purchasing", "purchased"},
           \A r \in reads' : r \in reads \/ (r.user = user /\ r.got = "asked"),
           screen' = "welcome" <=> user = None
    PROVE  MixInv'
<1>0. Bought(user) => BoughtThen(user)
  BY BoughtLasts DEF QueueInv, QueueTypes
<1>1. \A i \in DOMAIN writes' :
         /\ writes'[i].answer = "waiting" => writes'[i].user = user
         /\ ForPremium(i)' => writes'[i].user = payer
  <2>1. ASSUME NEW i \in DOMAIN writes
        PROVE  /\ writes'[i].answer = "waiting" => writes'[i].user = user
               /\ ForPremium(i)' => writes'[i].user = payer
    BY DEF QueueStep, MixInv, ForPremium
  <2>2. ASSUME NEW i \in Fresh PROVE writes'[i].user = user /\ payer = user
    BY <2>2 DEF QueueStep, MixInv
  <2>3. QED
    BY <2>1, <2>2 DEF Fresh
<1>2. \A r \in reads' : /\ r.user = user
                        /\ r.to = 0 /\ r.got = "1" => BoughtThen(user)
  BY <1>0 DEF MixInv
<1>3. flag = "1" => BoughtThen(user)
  BY <1>0 DEF MixInv
<1>4. payment' \in {"purchasing", "purchased"} => payer = user
  BY DEF MixInv
<1>5. Bought(user)' <=> BoughtThen(user)
  BY DEF Bought, BoughtThen, ForPremium
<1>6. QED
  BY <1>1, <1>2, <1>3, <1>4, <1>5 DEF MixInv

\* Only a registration and an announced purchase hand something to Firestore.
LEMMA FreshIs ==
    ASSUME QueueInv, [Next]_vars, Fresh # {}
    PROVE  \/ payment = "purchased"
           \/ \E u \in Users : SignUp(u)
<1>1. ASSUME Restart(writes) PROVE FALSE
  BY <1>1 DEF Restart, Fresh
<1>2. ASSUME NEW i \in DOMAIN writes, SignUpAnswered(i) \/ PremiumAnswered(i) PROVE FALSE
  BY <1>2 DEF SignUpAnswered, PremiumAnswered, Fresh
<1>3. ASSUME NEW i \in DOMAIN writes, NEW s \in {"stored", "refused"}, ServerAnswers(i, s)
      PROVE  FALSE
  BY <1>3 DEF ServerAnswers, Fresh
<1>4. writes' # writes
  BY DEF Fresh
<1>5. QED
  BY <1>1, <1>2, <1>3, <1>4 DEF Next, vars, Account, Server, Handlers, AppStore, Relaunch,
     SignUpCut, LogIn, LogOut, OpenWalk, OpenMore, BuyTapped, RestoreTapped, ReadAnswered, ReadDelivered,
     AppStoreSells, PurchaseFails, PurchasingAnnounced, PurchasedAnnounced, RestoredAnnounced

\* A registration is no purchase.
LEMMA SignUpIs ==
    ASSUME QueueInv, NEW u \in Users, SignUp(u), NEW i \in Fresh
    PROVE  ~ForPremium(i)'
<1> DEFINE w == [user |-> u, id |-> u, doc |-> "signup", view |-> 0,
                 status |-> "queued", answer |-> "waiting"]
<1>1. writes \in Seq(Write) /\ w \in Write
  BY DEF QueueInv, QueueTypes, Write
<1>2. writes' = Append(writes, w) /\ w.doc = "signup"
  BY DEF SignUp
<1> HIDE DEF w
<1>3. DOMAIN writes = 1..Len(writes) /\ Len(writes) \in Nat
      /\ DOMAIN writes' = 1..(Len(writes) + 1) /\ writes'[Len(writes) + 1] = w
  BY <1>1, <1>2, AppendProperties, LenProperties
<1>4. i = Len(writes) + 1
  BY <1>3 DEF Fresh
<1>5. QED
  BY <1>2, <1>3, <1>4 DEF ForPremium

\* The first two parts of MixInv.
LEMMA WelcomeStep ==
    ASSUME QueueInv, MixInv, [Next]_vars
    PROVE  screen' = "welcome" <=> user' = None
<1>1. None \notin Users /\ registered \subseteq Users
  BY NoneIsNoUser DEF QueueInv, QueueTypes
<1>2. \A i \in DOMAIN writes : writes[i].user # None
  BY <1>1 DEF QueueInv
<1>3. QED
  BY <1>1, <1>2 DEF MixInv, Next, vars, Account, Server, Handlers, AppStore, Relaunch, Restart,
     SignUp, SignUpCut, SignIn, LogIn, LogOut, OpenWalk, OpenMore, BuyTapped, RestoreTapped, ServerAnswers,
     ReadAnswered, SignUpAnswered, PremiumAnswered, ReadDelivered, AppStoreSells,
     PurchaseFails, PurchasingAnnounced, PurchasedAnnounced, RestoredAnnounced

LEMMA SoldStep ==
    ASSUME QueueInv, MixInv, [Next]_vars, NEW i \in DOMAIN writes', ForPremium(i)'
    PROVE  Sold'
<1>1. QueueStep
  BY QueueSteps
<1>2. CASE i \in DOMAIN writes
  <2>1. Sold
    BY <1>1, <1>2 DEF QueueStep, MixInv, ForPremium
  <2>2. QED
    BY <2>1, SaleLasts
<1>3. CASE i \in Fresh
  <2>1. CASE payment = "purchased"
    BY <2>1, SaleLasts DEF Sold
  <2>2. ASSUME NEW u \in Users, SignUp(u) PROVE FALSE
    BY <1>3, <2>2, SignUpIs
  <2>3. QED
    BY <1>3, <2>1, <2>2, FreshIs
<1>4. QED
  BY <1>2, <1>3 DEF Fresh

\* Signing in or out is quiet, or else mixed is set: nothing is outstanding.
LEMMA SignsQuietly ==
    ASSUME QueueInv, QueueStep, MixInv, ~mixed', NEW u, SignIn(u), u # user,
           user = None \/ u = None,
           u = None => flag' # "1" /\ Fresh = {},
           user = None => flag' = flag,
           UNCHANGED <<payer, payment>>, ~ (\E i \in Fresh : ForPremium(i)'),
           \A r \in reads' : r \in reads \/ (r.user = u /\ r.got = "asked"),
           screen' = "welcome" <=> user' = None,
           (\E i \in DOMAIN writes' : ForPremium(i)') => Sold'
    PROVE  MixInv'
<1>1. ~mixed /\ ~Outstanding /\ user' = u
  BY DEF SignIn
<1>2. reads = {} /\ payment \notin {"purchasing", "purchased"}
      /\ \A i \in DOMAIN writes : writes[i].answer # "waiting"
  BY <1>1 DEF Outstanding, Waiting
<1>3. ~Bought(None)
  BY NoneIsNoUser DEF QueueInv, QueueTypes, Bought
<1>4. flag' # "1"
  BY <1>1, <1>3 DEF MixInv
<1>5. \A i \in DOMAIN writes' :
         /\ writes'[i].answer = "waiting" => writes'[i].user = u
         /\ ForPremium(i)' => writes'[i].user = payer
  <2>1. ASSUME NEW i \in DOMAIN writes
        PROVE  /\ writes'[i].answer # "waiting"
               /\ ForPremium(i)' => writes'[i].user = payer
    BY <1>1, <1>2 DEF QueueStep, MixInv, ForPremium
  <2>2. ASSUME NEW i \in Fresh
        PROVE  writes'[i].user = u /\ ~ForPremium(i)'
    BY <1>1 DEF QueueStep
  <2>3. QED
    BY <2>1, <2>2 DEF Fresh
<1>6. \A r \in reads' : r.user = u /\ r.got = "asked"
  BY <1>2
<1>7. QED
  BY <1>1, <1>2, <1>4, <1>5, <1>6 DEF MixInv

LEMMA MixStep == QueueInv /\ MixInv /\ [Next]_vars => MixInv'
<1> SUFFICES ASSUME QueueInv, MixInv, [Next]_vars PROVE MixInv'
  OBVIOUS
<1>1. /\ QueueStep /\ QueueTypes
      /\ screen' = "welcome" <=> user' = None
      /\ (\E i \in DOMAIN writes' : ForPremium(i)') => Sold'
  BY QueueSteps, WelcomeStep, SoldStep DEF QueueInv
<1>2. CASE mixed'
  BY <1>1, <1>2 DEF MixInv
<1> SUFFICES ASSUME ~mixed' PROVE MixInv'
  BY <1>2
<1>3. None \notin Users /\ \A i \in DOMAIN writes : writes[i].user \in Users
  BY NoneIsNoUser DEF QueueInv, QueueTypes
<1>4. ASSUME NEW u \in Users, SignUp(u) \/ LogIn(u) PROVE MixInv'
  <2>1. SignIn(u) /\ u # user /\ user = None /\ u # None
    BY <1>3, <1>4 DEF SignUp, LogIn, MixInv
  <2>2. UNCHANGED <<flag, payer, payment>>
    BY <1>4 DEF SignUp, LogIn
  <2>3. \A r \in reads' : r \in reads \/ (r.user = u /\ r.got = "asked")
    BY <1>4 DEF SignUp, LogIn, Asks, Ask
  <2>4. ~ (\E i \in Fresh : ForPremium(i)')
    BY <1>4, SignUpIs DEF LogIn, Fresh
  <2>5. QED
    BY <1>1, <2>1, <2>2, <2>3, <2>4, SignsQuietly
<1>5. CASE LogOut
  <2>1. SignIn(None) /\ None # user /\ flag' # "1" /\ Fresh = {}
    BY <1>5, NoneIsNoUser DEF LogOut, Fresh
  <2>2. UNCHANGED <<reads, payer, payment>> /\ user # None
    BY <1>5 DEF LogOut
  <2>3. QED
    BY <1>1, <2>1, <2>2, SignsQuietly
<1>6. ASSUME NEW i \in DOMAIN writes, SignUpAnswered(i) PROVE MixInv'
  <2>1. writes[i].answer = "waiting" /\ Fresh = {}
    BY <1>6 DEF SignUpAnswered, Fresh
  <2>2. user' = user /\ ~mixed
    <3>1. ~mixed
      BY <1>6 DEF SignUpAnswered, SignIn
    <3>2. writes[i].user = user
      BY <2>1, <3>1 DEF MixInv
    <3>3. QED
      BY <1>6, <3>1, <3>2 DEF SignUpAnswered, SignIn
  <2>3. \A r \in reads' : r \in reads \/ (r.user = user /\ r.got = "asked")
    BY <1>6, <2>2 DEF SignUpAnswered, SignIn, Asks, Ask
  <2>4. QED
    BY <1>1, <1>6, <2>1, <2>2, <2>3, MixAsks DEF SignUpAnswered
<1>7. ASSUME NEW i \in DOMAIN writes, NEW s \in {"stored", "refused"}, ServerAnswers(i, s)
      PROVE  MixInv'
  <2>1. Fresh = {}
    BY <1>7 DEF ServerAnswers, Fresh
  <2>2. QED
    BY <1>1, <1>7, <2>1, MixAsks DEF ServerAnswers
<1>8. ASSUME NEW issued, Restart(issued), Fresh # {} => payment \in {"purchasing", "purchased"},
             issued \in {writes, writes \o PremiumWrites}, issued = writes \/ user # None
      PROVE  MixInv'
  <2>1. \A r \in reads' : r.user = user /\ r.got = "asked"
    BY <1>1, <1>8, RestartIs, IssuedAre DEF QueueTypes
  <2>2. QED
    BY <1>1, <1>8, <2>1, MixAsks DEF Restart
<1>9. CASE Relaunch
  BY <1>8, <1>9 DEF Relaunch, Restart, Fresh
<1>10. CASE OpenWalk \/ OpenMore \/ RestoreTapped \/ AppStoreSells
  <2>1. Fresh = {} /\ \A r \in reads' : r \in reads \/ (r.user = user /\ r.got = "asked")
    BY <1>10 DEF OpenWalk, OpenMore, RestoreTapped, AppStoreSells, Asks, Ask, Fresh
  <2>2. QED
    BY <1>1, <1>10, <2>1, MixAsks DEF OpenWalk, OpenMore, RestoreTapped, AppStoreSells
<1>11. CASE PurchaseFails \/ PurchasingAnnounced \/ RestoredAnnounced
  <2>1. CASE user = None
    <3>1. Restart(writes)
      BY <1>11, <2>1 DEF PurchaseFails, PurchasingAnnounced, RestoredAnnounced
    <3>2. QED
      BY <1>8, <3>1 DEF Restart, Fresh
  <2>2. CASE user # None
    <3>1. Fresh = {} /\ \A r \in reads' : r \in reads \/ (r.user = user /\ r.got = "asked")
      BY <1>1, <1>11, <2>2, AsksOfViews
      DEF PurchaseFails, PurchasingAnnounced, RestoredAnnounced, Asks, Fresh
    <3>2. QED
      BY <1>1, <1>11, <2>2, <3>1, MixAsks
      DEF PurchaseFails, PurchasingAnnounced, RestoredAnnounced
  <2>3. QED
    BY <2>1, <2>2
<1>12. CASE PurchasedAnnounced
  <2>0. payment = "purchased"
    BY <1>12 DEF PurchasedAnnounced
  <2>1. CASE \E issued \in {writes, writes \o PremiumWrites} :
                Restart(issued) /\ (issued = writes \/ user # None)
    BY <1>8, <2>0, <2>1
  <2>2. CASE /\ user # None /\ Asks(ReadsOfViews)
             /\ UNCHANGED <<user, mixed, flag, payer, payment, screen>>
    <3>1. \A r \in reads' : r \in reads \/ (r.user = user /\ r.got = "asked")
      BY <1>1, <2>2, AsksOfViews DEF Asks
    <3>2. QED
      BY <1>1, <2>0, <2>2, <3>1, MixAsks
  <2>3. QED
    BY <1>12, <2>1, <2>2 DEF PurchasedAnnounced
<1>13. CASE BuyTapped
  <2>1. \A i \in DOMAIN writes : ~ForPremium(i)
    BY <1>13 DEF BuyTapped, MixInv, Sold
  <2>2. QED
    BY <1>13, <2>1 DEF BuyTapped, MixInv, ForPremium, Bought, Sold
<1>14. ASSUME NEW r \in reads, ReadAnswered(r) PROVE MixInv'
  <2>1. PICK got \in Answers(r) : reads' = (reads \ {r}) \cup {[r EXCEPT !.got = got]}
    BY <1>14 DEF ReadAnswered
  <2>2. r \in Read /\ r.user = user
    BY <1>14 DEF QueueInv, QueueTypes, MixInv, ReadAnswered
  <2>3. LET s == [r EXCEPT !.got = got]
        IN  s.user = r.user /\ s.to = r.to /\ s.got = got
    BY <2>2 DEF Read
  <2>4. r.to = 0 /\ got = "1" => Bought(user)
    <3>1. ASSUME r.to = 0, got = "1" PROVE Bought(user)
      <4>1. PICK id \in Users : Visible(user, id) = "premium"
        BY <2>2, <3>1, NoneIsNoUser DEF Answers, PremiumOf, Ids
      <4>2. user \in Users
        BY <2>2 DEF Read
      <4>3. CASE "premium" \in Queued(user, id)
        BY <4>3 DEF Queued, Bought, ForPremium
      <4>4. CASE info[user][id] = "premium"
        BY <4>2, <4>4 DEF QueueInv
      <4>5. QED
        BY <4>1, <4>3, <4>4 DEF Visible
    <3>2. QED
      BY <3>1
  <2>5. QED
    BY <1>14, <2>1, <2>2, <2>3, <2>4 DEF ReadAnswered, MixInv, Bought, ForPremium, Sold
<1>15. ASSUME NEW r \in reads, ReadDelivered(r) PROVE MixInv'
  BY <1>15 DEF ReadDelivered, MixInv, Bought, ForPremium, Sold
<1>16. ASSUME NEW i \in DOMAIN writes, PremiumAnswered(i) PROVE MixInv'
  <2>1. ForPremium(i) /\ writes[i].user = user /\ Fresh = {}
    BY <1>16 DEF PremiumAnswered, MixInv, ForPremium, Fresh
  <2>2. Bought(user)
    BY <2>1 DEF Bought
  <2>3. UNCHANGED <<user, reads, mixed, payer>> /\ payment' = "finished"
    BY <1>16 DEF PremiumAnswered
  <2>4. BoughtThen(user)
    BY <1>1, <2>2, BoughtLasts DEF QueueTypes
  <2>5. Bought(user)'
    BY <2>3, <2>4 DEF Bought, BoughtThen, ForPremium
  <2>6. \A k \in DOMAIN writes' :
           /\ writes'[k].answer = "waiting" => writes'[k].user = user
           /\ ForPremium(k)' => writes'[k].user = payer
    BY <1>1, <2>1, <2>3 DEF QueueStep, Fresh, MixInv, ForPremium
  <2>7. QED
    BY <1>1, <2>3, <2>5, <2>6 DEF MixInv
<1>17. CASE UNCHANGED vars \/ \E u \in Users : SignUpCut(u)
  BY <1>17 DEF SignUpCut, vars, MixInv, Bought, ForPremium, Sold
<1>18. QED
  BY <1>4, <1>5, <1>6, <1>7, <1>9, <1>10, <1>11, <1>12, <1>13, <1>14, <1>15, <1>16, <1>17
     DEF Next, Account, Server, Handlers, AppStore

LEMMA MixInvHolds == Spec => []MixInv
<1>1. Init => MixInv
  BY NoneIsNoUser DEF Init, MixInv, ForPremium
<1>2. QED
  BY <1>1, MixStep, QueueInvHolds, PTL DEF Spec

\* The observers of the payment queue write the documents of who is signed in when a
\* purchase is announced: that is the payer, unless the user changed while something was
\* outstanding (paymentQueue, retrieveCurrentData).
THEOREM PayersGetPremium == Spec => []PremiumIsThePayers
<1>1. QueueInv /\ MixInv => PremiumIsThePayers
  <2> SUFFICES ASSUME QueueInv, MixInv, ~mixed, NEW u \in Users, HasPremium(u)
               PROVE  u = payer
    BY DEF PremiumIsThePayers
  <2>1. Bought(u)
    BY DEF HasPremium, QueueInv
  <2>2. QED
    BY <2>1 DEF Bought, MixInv
<1>2. QED
  BY <1>1, QueueInvHolds, MixInvHolds, PTL

\* The device says premium only for an account that has it, or had its write refused after
\* premium() had seen it queued, unless the user changed while something was outstanding.
THEOREM FlagsAreTheAccounts == Spec => []FlagIsTheAccounts
<1>1. QueueInv /\ MixInv => FlagIsTheAccounts
  <2> SUFFICES ASSUME QueueInv, MixInv, flag = "1", ~mixed, Refused = {}
               PROVE  user # None /\ \E id \in Users : Visible(user, id) = "premium"
    BY DEF FlagIsTheAccounts
  <2>1. PICK i \in DOMAIN writes : ForPremium(i) /\ writes[i].user = user
    BY DEF MixInv, Bought
  <2>2. writes[i] \in Write
    BY LenProperties, ElementOfSeq DEF QueueInv, QueueTypes
  <2>3. user \in Users /\ writes[i].id \in Users /\ user # None
    BY <2>1, <2>2, NoneIsNoUser DEF Write
  <2>4. CASE writes[i].status = "queued"
    <3>1. "premium" \in Queued(user, writes[i].id)
      BY <2>1, <2>4 DEF Queued, ForPremium
    <3>2. QED
      BY <2>3, <3>1 DEF Visible
  <2>5. CASE writes[i].status = "stored"
    <3>1. info[user][writes[i].id] = "premium"
      BY <2>1, <2>5 DEF QueueInv
    <3>2. ASSUME NEW j \in DOMAIN writes, writes[j].status = "queued", writes[j].user = user
          PROVE  ForPremium(j)
      <4>1. DOMAIN writes = 1..Len(writes) /\ Len(writes) \in Nat
        BY LenProperties DEF QueueInv, QueueTypes
      <4>2. i < j
        BY <2>1, <2>5, <3>2, <4>1 DEF QueueInv
      <4>3. QED
        BY <2>1, <3>2, <4>2 DEF QueueInv
    <3>3. "signup" \notin Queued(user, writes[i].id)
      BY <3>2 DEF Queued, ForPremium
    <3>4. QED
      BY <2>3, <3>1, <3>3 DEF Visible
  <2>6. QED
    BY <2>1, <2>2, <2>4, <2>5 DEF Write, Refused, ForPremium
<1>2. QED
  BY <1>1, QueueInvHolds, MixInvHolds, PTL
-----------------------------------------------------------------------------
(* Types.                                                                  *)

\* The answers to the question for premium, apart from those for a document.
FlagReads == \A r \in reads : r.to = 0 => r.got \in Flag \cup {None, "asked"}

\* What TypeOK says besides QueueTypes.
RestTypes ==
    /\ Len(writes) <= MaxWrites /\ Len(views) <= MaxViews
    /\ flag \in Flag \cup {None} /\ screen \in Screen
    /\ payment \in {"none", "purchasing", "purchased", "finished"}
    /\ {announced, restoring, mixed} \subseteq BOOLEAN
    /\ payer \in Users \cup {None}

\* Every write is handed over where there is room for it.
LEMMA WritesBounded ==
    ASSUME QueueInv, RestTypes, [Next]_vars
    PROVE  Len(writes') <= MaxWrites
<1>0. QueueTypes /\ writes \in Seq(Write) /\ Len(writes) \in Nat
  BY LenProperties DEF QueueInv, QueueTypes
<1>1. ASSUME NEW issued \in Seq(Write), Len(issued) <= MaxWrites, Restart(issued)
      PROVE  Len(writes') <= MaxWrites
  <2>1. writes' \in Seq(Write) /\ DOMAIN writes' = DOMAIN issued
    BY <1>0, <1>1, RestartIs
  <2>2. Len(writes') = Len(issued)
    BY <1>1, <2>1, LenProperties
  <2>3. QED
    BY <1>1, <2>2
<1>2. ASSUME NEW u \in Users, SignUp(u) PROVE Len(writes') <= MaxWrites
  <2> DEFINE w == [user |-> u, id |-> u, doc |-> "signup", view |-> 0,
                   status |-> "queued", answer |-> "waiting"]
  <2>1. w \in Write
    BY DEF Write
  <2>2. writes' = Append(writes, w) /\ Len(writes) < MaxWrites
    BY <1>2 DEF SignUp
  <2> HIDE DEF w
  <2>3. QED
    BY <1>0, <2>1, <2>2, AppendProperties, PremiumBounds
<1>3. ASSUME NEW i \in DOMAIN writes, SignUpAnswered(i) \/ PremiumAnswered(i)
      PROVE  Len(writes') <= MaxWrites
  BY <1>0, <1>3, HandlerIs DEF RestTypes
<1>4. ASSUME NEW i \in DOMAIN writes, NEW status \in {"stored", "refused"},
             ServerAnswers(i, status)
      PROVE  Len(writes') <= MaxWrites
  BY <1>0, <1>4, ServerAnswersIs DEF RestTypes
<1>5. CASE PurchasedAnnounced
  <2> DEFINE issued == writes \o PremiumWrites
  <2>1. CASE user = None
    BY <1>0, <1>1, <1>5, <2>1 DEF PurchasedAnnounced, RestTypes
  <2>2. CASE user # None
    <3>1. issued \in Seq(Write)
      BY <1>0, <2>2, IssuedAre
    <3>2. Len(issued) <= MaxWrites /\ (Restart(issued) \/ writes' = issued)
      BY <1>5, <2>2 DEF PurchasedAnnounced
    <3> HIDE DEF issued
    <3>3. QED
      BY <1>1, <3>1, <3>2
  <2>3. QED
    BY <2>1, <2>2
<1>6. CASE Relaunch \/ PurchaseFails \/ PurchasingAnnounced \/ RestoredAnnounced
  <2>1. CASE Restart(writes)
    BY <1>0, <1>1, <2>1 DEF RestTypes
  <2>2. CASE writes' = writes
    BY <2>2 DEF RestTypes
  <2>3. QED
    BY <1>6, <2>1, <2>2 DEF Relaunch, PurchaseFails, PurchasingAnnounced, RestoredAnnounced
<1>7. CASE UNCHANGED writes
  BY <1>7 DEF RestTypes
<1>8. QED
  BY <1>2, <1>3, <1>4, <1>5, <1>6, <1>7 DEF Next, Account, Server, Handlers, AppStore, SignUpCut,
     LogIn, LogOut, OpenWalk, OpenMore, BuyTapped, RestoreTapped, AppStoreSells, ReadAnswered,
     ReadDelivered, vars

\* A screen of the observers is opened where there is room for it.
LEMMA ViewsBounded ==
    ASSUME QueueInv, RestTypes, [Next]_vars
    PROVE  Len(views') <= MaxViews
<1>0. QueueTypes /\ views \in Seq(Users \cup {None}) /\ Len(views) \in Nat
  BY LenProperties DEF QueueInv, QueueTypes
<1>1. Len(<<>>) <= MaxViews
  BY PremiumBounds, EmptySeq
<1>2. ASSUME NEW issued, Restart(issued) PROVE Len(views') <= MaxViews
  BY <1>1, <1>2 DEF Restart
<1>3. ASSUME Len(views) < MaxViews, views' = Append(views, None) PROVE Len(views') <= MaxViews
  BY <1>0, <1>3, AppendProperties, PremiumBounds
<1>4. ASSUME NEW r \in reads, ReadDelivered(r) PROVE Len(views') <= MaxViews
  <2>1. CASE views' = views
    BY <2>1 DEF RestTypes
  <2>2. CASE views' = [views EXCEPT ![r.to] = r.got]
    <3>1. DOMAIN views' = DOMAIN views
      BY <2>2, <1>0, LenProperties
    <3>2. views' \in Seq(Users \cup {None})
      BY <1>4, TypesStep DEF QueueTypes, Next, Handlers
    <3>3. Len(views') = Len(views)
      BY <1>0, <3>1, <3>2, LenProperties
    <3>4. QED
      BY <3>3 DEF RestTypes
  <2>3. QED
    BY <1>4, <2>1, <2>2 DEF ReadDelivered
<1>5. CASE OpenMore
  BY <1>3, <1>5 DEF OpenMore
<1>6. ASSUME NEW i \in DOMAIN writes, PremiumAnswered(i) PROVE Len(views') <= MaxViews
  BY <1>3, <1>6 DEF PremiumAnswered, RestTypes
<1>7. CASE AppStore \/ Relaunch
  BY <1>2, <1>7 DEF AppStore, AppStoreSells, PurchaseFails, PurchasingAnnounced,
     PurchasedAnnounced, RestoredAnnounced, Relaunch, RestTypes
<1>8. CASE UNCHANGED views
  BY <1>8 DEF RestTypes
<1>9. QED
  BY <1>4, <1>5, <1>6, <1>7, <1>8 DEF Next, Account, Server, Handlers, SignUp, SignUpCut, LogIn, LogOut,
     OpenWalk, BuyTapped, RestoreTapped, ServerAnswers, ReadAnswered, SignUpAnswered, vars

\* premium() is answered by a value of the field, and only such answers set the flag.
LEMMA FlagStep ==
    ASSUME QueueInv, RestTypes, FlagReads, [Next]_vars
    PROVE  FlagReads' /\ flag' \in Flag \cup {None}
<1>0. QueueTypes
  BY DEF QueueInv
<1>1. ASSUME UNCHANGED flag, \A r \in reads' : r \in reads \/ r.got = "asked"
      PROVE  FlagReads' /\ flag' \in Flag \cup {None}
  BY <1>1 DEF FlagReads, RestTypes
<1>2. ASSUME NEW u PROVE Ask(0, u).got = "asked"
  BY DEF Ask
<1>3. \A r \in ReadsOfViews : r.got = "asked"
  BY DEF ReadsOfViews, Ask
<1>4. ASSUME NEW issued, Restart(issued) PROVE FlagReads' /\ flag' \in Flag \cup {None}
  BY <1>1, <1>2, <1>4 DEF Restart
<1>5. CASE AppStore \/ Relaunch
  BY <1>1, <1>3, <1>4, <1>5 DEF AppStore, AppStoreSells, PurchaseFails, PurchasingAnnounced,
     PurchasedAnnounced, RestoredAnnounced, Relaunch, Asks
<1>6. ASSUME NEW r \in reads, ReadAnswered(r) PROVE FlagReads' /\ flag' \in Flag \cup {None}
  <2>1. PICK got \in Answers(r) : reads' = (reads \ {r}) \cup {[r EXCEPT !.got = got]}
    BY <1>6 DEF ReadAnswered
  <2>2. r \in Read
    BY <1>0 DEF QueueTypes
  <2>3. r.to = 0 => got \in Flag \cup {None}
    BY DEF Answers, PremiumOf, Flag
  <2>4. LET s == [r EXCEPT !.got = got] IN s.to = r.to /\ s.got = got
    BY <2>2 DEF Read
  <2>5. QED
    BY <1>6, <2>1, <2>3, <2>4 DEF ReadAnswered, FlagReads, RestTypes
<1>7. ASSUME NEW r \in reads, ReadDelivered(r) PROVE FlagReads' /\ flag' \in Flag \cup {None}
  BY <1>7 DEF ReadDelivered, FlagReads, RestTypes
<1>8. ASSUME NEW u \in Users, SignUp(u) \/ LogIn(u)
      PROVE  FlagReads' /\ flag' \in Flag \cup {None}
  BY <1>1, <1>2, <1>8 DEF SignUp, LogIn, Asks
<1>9. CASE OpenWalk
  BY <1>1, <1>2, <1>9 DEF OpenWalk, Asks
<1>10. CASE LogOut
  BY <1>10 DEF LogOut, FlagReads
<1>11. ASSUME NEW i \in DOMAIN writes, SignUpAnswered(i)
       PROVE  FlagReads' /\ flag' \in Flag \cup {None}
  BY <1>1, <1>2, <1>11 DEF SignUpAnswered, Asks
<1>12. ASSUME NEW i \in DOMAIN writes, PremiumAnswered(i)
       PROVE  FlagReads' /\ flag' \in Flag \cup {None}
  BY <1>12 DEF PremiumAnswered, FlagReads, RestTypes, Flag
<1>13. CASE UNCHANGED <<flag, reads>>
  BY <1>1, <1>13
<1>14. QED
  BY <1>5, <1>6, <1>7, <1>8, <1>9, <1>10, <1>11, <1>12, <1>13 DEF Next, Account, Server,
     Handlers, SignUpCut, OpenMore, BuyTapped, RestoreTapped, ServerAnswers, vars

\* The screen, the transaction and the history.
LEMMA RestStep ==
    ASSUME QueueInv, RestTypes, FlagReads, [Next]_vars
    PROVE  RestTypes' /\ FlagReads'
<1>0. QueueTypes
  BY DEF QueueInv
<1>1. /\ screen' \in Screen
      /\ payment' \in {"none", "purchasing", "purchased", "finished"}
      /\ payer' \in Users \cup {None}
  BY <1>0, ZenonT(30) DEF RestTypes, QueueTypes, Screen, Next, vars, Account, Server, Handlers,
     AppStore,
     Relaunch, Restart, SignUp, SignUpCut, LogIn, LogOut, OpenWalk, OpenMore, BuyTapped,
     RestoreTapped, ServerAnswers, ReadAnswered, SignUpAnswered, PremiumAnswered, ReadDelivered,
     AppStoreSells, PurchaseFails, PurchasingAnnounced, PurchasedAnnounced, RestoredAnnounced
<1>2. announced' \in BOOLEAN /\ restoring' \in BOOLEAN
  <2>1. announced \in BOOLEAN /\ restoring \in BOOLEAN
    BY DEF RestTypes
  <2>2. ASSUME NEW issued, Restart(issued)
        PROVE  announced' \in BOOLEAN /\ restoring' \in BOOLEAN
    BY <2>2, Zenon DEF Restart
  <2>3. CASE AppStore \/ Relaunch
    <3>1. CASE AppStoreSells \/ PurchaseFails
      BY <2>1, <2>2, <3>1, Zenon DEF AppStoreSells, PurchaseFails
    <3>2. CASE PurchasingAnnounced \/ RestoredAnnounced
      BY <2>1, <2>2, <3>2, Zenon DEF PurchasingAnnounced, RestoredAnnounced
    <3>3. CASE PurchasedAnnounced \/ Relaunch
      BY <2>1, <2>2, <3>3, Zenon DEF PurchasedAnnounced, Relaunch
    <3>4. QED
      BY <2>3, <3>1, <3>2, <3>3 DEF AppStore
  <2>4. CASE BuyTapped \/ RestoreTapped
    <3>1. CASE BuyTapped
      <4>1. restoring' = restoring
        BY <3>1 DEF BuyTapped
      <4>2. QED
        BY <2>1, <3>1, <4>1, Zenon DEF BuyTapped
    <3>2. CASE RestoreTapped
      <4>1. announced' = announced
        BY <3>2 DEF RestoreTapped
      <4>2. restoring' = (payment \in {"purchased", "finished"})
        BY <3>2 DEF RestoreTapped
      <4>3. restoring' \in BOOLEAN
        <5>1. (payment \in {"purchased", "finished"}) \in BOOLEAN
          OBVIOUS
        <5>2. QED
          BY <4>2, <5>1, Zenon
      <4>4. announced' \in BOOLEAN
        BY <2>1, <4>1
      <4>5. QED
        BY <4>3, <4>4
    <3>3. QED
      BY <2>4, <3>1, <3>2
  <2>5. CASE UNCHANGED <<announced, restoring>>
    BY <2>1, <2>5
  <2>6. QED
    BY <2>3, <2>4, <2>5 DEF Next, vars, Account, Server, Handlers, SignUp, SignUpCut, LogIn, LogOut,
       OpenWalk, OpenMore, ServerAnswers, ReadAnswered, SignUpAnswered, PremiumAnswered,
       ReadDelivered
<1>3. mixed' \in BOOLEAN
  BY DEF RestTypes, SignIn, Next, vars, Account, Server, Handlers, AppStore,
     Relaunch, Restart, SignUp, SignUpCut, LogIn, LogOut, OpenWalk, OpenMore, BuyTapped,
     RestoreTapped, ServerAnswers, ReadAnswered, SignUpAnswered, PremiumAnswered, ReadDelivered,
     AppStoreSells, PurchaseFails, PurchasingAnnounced, PurchasedAnnounced, RestoredAnnounced
<1>4. QED
  BY <1>1, <1>2, <1>3, WritesBounded, ViewsBounded, FlagStep DEF RestTypes

\* The state of accounts, device, server and App Store keeps its types for every bound.
THEOREM TypeCorrect == Spec => []TypeOK
<1>1. Init => RestTypes /\ FlagReads
  <2>1. Len(<<>>) = 0
    BY EmptySeq
  <2>2. ASSUME Init PROVE {announced, restoring, mixed} \subseteq BOOLEAN
    BY <2>2, Zenon DEF Init
  <2>3. ASSUME Init
        PROVE  /\ writes = <<>> /\ flag = None /\ reads = {} /\ views = <<>>
               /\ screen = "welcome" /\ payment = "none" /\ payer = None
    BY <2>3, Zenon DEF Init
  <2>4. QED
    BY <2>1, <2>2, <2>3, PremiumBounds DEF RestTypes, FlagReads, Screen
<1>2. QueueInv /\ RestTypes => TypeOK
  BY DEF QueueInv, QueueTypes, RestTypes, TypeOK
<1>3. QueueInv /\ RestTypes /\ FlagReads /\ [Next]_vars => (RestTypes /\ FlagReads)'
  BY RestStep
<1>4. QED
  BY <1>1, <1>2, <1>3, QueueInvHolds, PTL DEF Spec
=============================================================================
