------------------------------- MODULE Premium -------------------------------
(***************************************************************************)
(* Accounts and the purchase of premium: SignupViewController, the login,  *)
(* premium() of DogwalkViewController, and MoreViewController as observer  *)
(* of the payment queue.                                                   *)
(*                                                                         *)
(* Who is signed in, what the account's Info documents say, what the       *)
(* device believes (UserDefaults "premium") and what the App Store sold    *)
(* are four states kept in step by answers that arrive late.  Screens here *)
(* cover all and stay; observers are not removed: a MoreViewController     *)
(* once opened keeps answering the queue, for whoever is signed in.        *)
(*                                                                         *)
(* An Info document is named by the user whose registration created its    *)
(* id.  The App Store, Firestore and Auth are external: a transaction is   *)
(* announced to all observers, again after a launch until it is finished;  *)
(* Firestore keeps one queue of writes per user on the disk, and shows     *)
(* queued writes to the reads of this device.                              *)
(***************************************************************************)
EXTENDS Naturals, Sequences, FiniteSets

CONSTANTS
    Users,
    None,        \* no user, no document id, no value
    Older,       \* which users may have an account before the first launch
    MaxViews,    \* bound: MoreViewControllers alive in one process
    MaxWrites,   \* bound: writes handed to Firestore in a behaviour
    MaxReads     \* bound: getDocuments calls outstanding at a time

ASSUME NoneIsNoUser == None \notin Users \cup {"0", "1"}
ASSUME OlderAreUsers == Older \subseteq SUBSET Users
ASSUME PremiumBounds == MaxViews \in Nat /\ MaxWrites \in Nat /\ MaxReads \in Nat

Doc    == {"absent", "signup", "premium"}  \* "signup": Email, Date and premium "0"
Flag   == {"0", "1"}
Write  == [user : Users, id : Users, doc : {"signup", "premium"}, view : Nat,
           status : {"queued", "stored", "refused"},
           answer : {"waiting", "called", "lost"}]
\* to: 0 for premium(), else the MoreViewController of a retrieveCurrentData.
Read   == [user : Users, to : Nat, got : Flag \cup Users \cup {None, "asked"}]
Screen == {"welcome", "walk", "more", "restored"}

VARIABLES
    registered,  \* the users Auth knows
    user,        \* Auth.auth().currentUser
    info,        \* the Info documents on the server: user, id -> document
    writes,      \* writes handed to Firestore, in order
    flag,        \* UserDefaults "premium"
    reads,       \* getDocuments calls whose completion handler has not run
    views,       \* the docID of each MoreViewController of this process
    screen,
    payment,     \* the transaction: "none", "purchasing", "purchased", "finished"
    announced,   \* the observers know the state of the transaction
    restoring,   \* a restored transaction is on its way to the observers
    payer,       \* history: who was signed in when the purchase was made
    mixed        \* history: the user changed while an answer was outstanding

vars == <<registered, user, info, writes, flag, reads, views, screen, payment,
          announced, restoring, payer, mixed>>

TypeOK ==
    /\ registered \subseteq Users
    /\ user \in registered \cup {None}
    /\ info \in [Users -> [Users -> Doc]]
    /\ writes \in Seq(Write) /\ Len(writes) <= MaxWrites
    /\ flag \in Flag \cup {None}
    /\ reads \subseteq Read
    /\ views \in Seq(Users \cup {None}) /\ Len(views) <= MaxViews
    /\ screen \in Screen
    /\ payment \in {"none", "purchasing", "purchased", "finished"}
    /\ {announced, restoring, mixed} \subseteq BOOLEAN
    /\ payer \in Users \cup {None}

-----------------------------------------------------------------------------
\* What a read of u's documents sees: the server's, under the queued writes.  The
\* write of the registration is the first to its document.
Queued(u, id)  == {writes[i].doc : i \in {j \in DOMAIN writes :
                     writes[j].status = "queued" /\ writes[j].user = u /\ writes[j].id = id}}
Visible(u, id) == IF "premium" \in Queued(u, id) THEN "premium"
                  ELSE IF "signup" \in Queued(u, id) THEN "signup" ELSE info[u][id]
Ids(u)         == {id \in Users : Visible(u, id) # "absent"}
\* (mutant: the field is only looked for, not read)
PremiumOfAny(doc) == IF doc = "absent" THEN "0" ELSE "1"
PremiumOf(doc) == IF doc = "premium" THEN "1" ELSE "0"

\* The values the loop over the documents may leave behind: those of one of them,
\* or None (no document, or an error) to change nothing.
Answers(r) == {None} \cup IF r.to = 0 THEN {PremiumOf(Visible(r.user, id)) : id \in Ids(r.user)}
                                      ELSE Ids(r.user)

Ask(to, u) == [user |-> u, to |-> to, got |-> "asked"]
Asks(new)  == /\ reads' = reads \cup new
              /\ Cardinality(reads') <= MaxReads
Waiting == {i \in DOMAIN writes : writes[i].answer = "waiting"}

\* Something that was asked for the present user is still to be answered.
Outstanding == \/ reads # {} \/ Waiting # {}
               \/ restoring \/ payment \in {"purchasing", "purchased"}

\* Auth signs u in, or nobody.
SignIn(u) ==
    /\ user' = u
    /\ mixed' = (mixed \/ (u # user /\ Outstanding))

\* The first launch on this device.
Init ==
    /\ registered \in Older /\ user = None
    /\ info = [u \in Users |-> [id \in Users |->
                 IF u \in registered /\ id = u THEN "signup" ELSE "absent"]]
    /\ writes = <<>> /\ flag = None /\ reads = {} /\ views = <<>>
    /\ screen = "welcome"
    /\ payment = "none" /\ announced = TRUE /\ restoring = FALSE
    /\ payer = None /\ mixed = FALSE

\* The process is gone, by a crash or otherwise, and the app is launched again:
\* Auth, UserDefaults, Firestore's queue and the transaction survive.
Restart(issued) ==
    /\ writes' = [i \in DOMAIN issued |->
                     IF issued[i].answer = "waiting" THEN [issued[i] EXCEPT !.answer = "lost"]
                                                     ELSE issued[i]]
    /\ views' = <<>>
    /\ announced' = (payment \notin {"purchasing", "purchased"})
    /\ restoring' = FALSE
    /\ IF user = None THEN screen' = "welcome" /\ reads' = {}
                      ELSE screen' = "walk" /\ reads' = {Ask(0, user)}
    /\ UNCHANGED <<registered, user, info, flag, payment, payer, mixed>>

Relaunch == Restart(writes)

-----------------------------------------------------------------------------
(* Signing up, in and out *)

\* btn_registerTapped and the answer to createUser: the account exists, the listener of
\* the welcome screen opens the walk form, and the Info document is still to be stored.
SignUp(u) ==
    /\ screen = "welcome" /\ u \notin registered
    /\ Len(writes) < MaxWrites
    /\ registered' = registered \cup {u}
    /\ SignIn(u)
    /\ writes' = Append(writes, [user |-> u, id |-> u, doc |-> "signup", view |-> 0,
                                 status |-> "queued", answer |-> "waiting"])
    /\ screen' = "walk"
    /\ Asks({Ask(0, u)})
    /\ UNCHANGED <<info, flag, views, payment, announced, restoring, payer>>

\* The same, but the answer is lost or the process ends before it (then Relaunch is
\* next): the account exists, and nobody will ever give it an Info document.
SignUpCut(u) ==
    /\ screen = "welcome" /\ u \notin registered
    /\ registered' = registered \cup {u}
    /\ UNCHANGED <<user, info, writes, flag, reads, views, screen, payment, announced,
                   restoring, payer, mixed>>

LogIn(u) ==
    /\ screen = "welcome" /\ u \in registered
    /\ SignIn(u)
    /\ screen' = "walk"
    /\ Asks({Ask(0, u)})
    /\ UNCHANGED <<registered, info, writes, flag, views, payment, announced, restoring, payer>>

\* (mutant: the premium flag survives the logout)
LogOutKeepsFlag ==
    /\ screen = "more" /\ user # None
    /\ SignIn(None)
    /\ screen' = "welcome"
    /\ UNCHANGED <<registered, info, writes, flag, reads, views, payment, announced,
                   restoring, payer>>

\* MoreViewController, logout confirmed.
LogOut ==
    /\ screen = "more" /\ user # None
    /\ SignIn(None)
    /\ flag' = None
    /\ screen' = "welcome"
    /\ UNCHANGED <<registered, info, writes, reads, views, payment, announced, restoring, payer>>

\* The completion handler of the Info document: stored, it signs the user in by the
\* e-mail and password typed, whoever is signed in by then.
SignUpAnswered(i) ==
    LET u == writes[i].user
    IN  /\ writes[i].answer = "waiting" /\ writes[i].status # "queued"
        /\ writes[i].doc = "signup"
        /\ writes' = [writes EXCEPT ![i].answer = "called"]
        /\ IF writes[i].status = "stored"
           THEN /\ SignIn(u)
                /\ IF screen = "welcome"
                   THEN screen' = "walk" /\ Asks({Ask(0, u)})
                   ELSE UNCHANGED <<screen, reads>>
           ELSE UNCHANGED <<user, mixed, screen, reads>>
        /\ UNCHANGED <<registered, info, flag, views, payment, announced, restoring, payer>>

-----------------------------------------------------------------------------
(* What the device believes *)

\* Firestore reads the documents for a getDocuments call...
ReadAnswered(r) ==
    /\ r.got = "asked"
    /\ \E got \in Answers(r) : reads' = (reads \ {r}) \cup {[r EXCEPT !.got = got]}
    /\ UNCHANGED <<registered, user, info, writes, flag, views, screen, payment,
                   announced, restoring, payer, mixed>>

\* ... and its completion handler runs: premium() sets the flag of the device,
\* retrieveCurrentData the docID of its screen.
ReadDelivered(r) ==
    /\ r.got # "asked"
    /\ reads' = reads \ {r}
    /\ flag'  = IF r.to = 0 /\ r.got # None THEN r.got ELSE flag
    /\ views' = IF r.to > 0 /\ r.got # None THEN [views EXCEPT ![r.to] = r.got] ELSE views
    /\ UNCHANGED <<registered, user, info, writes, screen, payment, announced, restoring,
                   payer, mixed>>

\* A walk form opens over MoreViewController: viewDidLoad calls premium().
OpenWalk ==
    /\ screen = "more" /\ user # None
    /\ screen' = "walk"
    /\ Asks({Ask(0, user)})
    /\ UNCHANGED <<registered, user, info, writes, flag, views, payment, announced,
                   restoring, payer, mixed>>

\* viewDidLoad of MoreViewController adds an observer that nothing removes.
OpenMore ==
    /\ screen \in {"walk", "restored"}
    /\ Len(views) < MaxViews
    /\ views' = Append(views, None)
    /\ screen' = "more"
    /\ UNCHANGED <<registered, user, info, writes, flag, reads, payment, announced,
                   restoring, payer, mixed>>

-----------------------------------------------------------------------------
(* The payment queue *)

\* Buy premium.  Bound: a next purchase only once the one before has failed; the code
\* looks at no earlier transaction.
BuyTapped ==
    /\ screen = "more" /\ payment = "none"
    /\ payment' = "purchasing"
    /\ announced' = FALSE
    /\ payer' = user
    /\ UNCHANGED <<registered, user, info, writes, flag, reads, views, screen, restoring,
                   mixed>>

\* The App Store sells, or the purchase fails.
AppStoreSells ==
    /\ payment = "purchasing" /\ announced
    /\ payment' = "purchased"
    /\ announced' = FALSE
    /\ UNCHANGED <<registered, user, info, writes, flag, reads, views, screen, restoring,
                   payer, mixed>>

\* retrieveCurrentData of every observer.
ReadsOfViews == {Ask(v, user) : v \in 1..Len(views)}

\* paymentQueue with a failed transaction: every observer finishes it.
PurchaseFails ==
    /\ payment = "purchasing" /\ announced /\ views # <<>>
    /\ IF user = None THEN Restart(writes)
       ELSE /\ payment' = "none"
            /\ Asks(ReadsOfViews)
            /\ UNCHANGED <<registered, user, info, writes, flag, views, screen, announced,
                           restoring, payer, mixed>>

\* paymentQueue with a transaction still purchasing (or deferred).
PurchasingAnnounced ==
    /\ payment = "purchasing" /\ ~announced /\ views # <<>>
    /\ IF user = None THEN Restart(writes)
       ELSE /\ announced' = TRUE
            /\ Asks(ReadsOfViews)
            /\ UNCHANGED <<registered, user, info, writes, flag, views, screen, payment,
                           restoring, payer, mixed>>

\* The setData calls of the observers up to the first that has no docID.
PremiumWrites ==
    LET known == {v \in DOMAIN views : \A w \in 1..v : views[w] # None}
    IN  [v \in known |-> [user |-> user, id |-> views[v], doc |-> "premium", view |-> v,
                          status |-> "queued", answer |-> "waiting"]]

\* (mutant: the transaction is finished when it is announced, not when it is stored)
PurchasedAnnouncedFinishes ==
    /\ payment = "purchased" /\ ~announced /\ views # <<>> /\ user # None
    /\ LET issued == writes \o PremiumWrites
       IN  /\ Len(issued) <= MaxWrites /\ Len(PremiumWrites) = Len(views)
           /\ writes' = issued
    /\ payment' = "finished" /\ announced' = TRUE
    /\ Asks(ReadsOfViews)
    /\ UNCHANGED <<registered, user, info, flag, views, screen, restoring, payer, mixed>>

\* paymentQueue with a purchased transaction: one observer after the other
\* replaces the document it knows; the first one that knows none ends the process.
PurchasedAnnounced ==
    /\ payment = "purchased" /\ ~announced /\ views # <<>>
    /\ IF user = None THEN Restart(writes)
       ELSE LET issued == writes \o PremiumWrites
            IN  /\ Len(issued) <= MaxWrites
                /\ IF Len(PremiumWrites) < Len(views) THEN Restart(issued)
                   ELSE /\ writes' = issued
                        /\ announced' = TRUE
                        /\ Asks(ReadsOfViews)
                        /\ UNCHANGED <<registered, user, info, flag, views, screen, payment,
                                       restoring, payer, mixed>>

\* Firestore sends the queue of the signed-in user.
ServerAnswers(i, status) ==
    LET w == writes[i]
    IN  /\ w.status = "queued" /\ w.user = user
        /\ \A j \in 1..(i - 1) : writes[j].user = user => writes[j].status # "queued"
        /\ writes' = [writes EXCEPT ![i].status = status]
        /\ info' = IF status = "stored" THEN [info EXCEPT ![w.user][w.id] = w.doc] ELSE info
        /\ UNCHANGED <<registered, user, flag, reads, views, screen, payment, announced,
                       restoring, payer, mixed>>

\* (mutant: the error path does not finish the transaction)
PremiumAnsweredKeeps(i) ==
    /\ writes[i].answer = "waiting" /\ writes[i].status # "queued"
    /\ writes[i].doc = "premium"
    /\ writes' = [writes EXCEPT ![i].answer = "called"]
    /\ IF writes[i].status = "stored" THEN payment' = "finished" /\ flag' = "1"
                                      ELSE UNCHANGED <<payment, flag>>
    /\ UNCHANGED <<registered, user, info, reads, views, screen, announced, restoring,
                   payer, mixed>>

\* The completion handler of a premium write finishes the transaction either way;
\* stored, it also sets the flag and opens a new MoreViewController.
PremiumAnswered(i) ==
    /\ writes[i].answer = "waiting" /\ writes[i].status # "queued"
    /\ writes[i].doc = "premium"
    /\ writes' = [writes EXCEPT ![i].answer = "called"]
    /\ payment' = "finished"
    /\ flag' = IF writes[i].status = "stored" THEN "1" ELSE flag
    /\ views' = IF writes[i].status = "stored" /\ screen = "more"
                   /\ writes[i].view = Len(views) /\ Len(views) < MaxViews
                THEN Append(views, None) ELSE views
    /\ UNCHANGED <<registered, user, info, reads, screen, announced, restoring, payer, mixed>>

\* Restore purchase: the alert is shown at once, before the App Store answers.
RestoreTapped ==
    /\ screen = "more"
    /\ screen' = "restored"
    /\ restoring' = (payment \in {"purchased", "finished"})
    /\ UNCHANGED <<registered, user, info, writes, flag, reads, views, payment, announced,
                   payer, mixed>>

\* (mutant: a restored transaction is stored like a purchased one)
RestoredAnnouncedStores ==
    /\ restoring /\ user # None
    /\ restoring' = FALSE
    /\ writes' = writes \o PremiumWrites
    /\ Len(writes') <= MaxWrites
    /\ UNCHANGED <<registered, user, info, flag, reads, views, screen, payment, announced,
                   payer, mixed>>

\* paymentQueue with a restored transaction.
RestoredAnnounced ==
    /\ restoring
    /\ IF user = None THEN Restart(writes)
       ELSE /\ restoring' = FALSE
            /\ Asks(ReadsOfViews)
            /\ UNCHANGED <<registered, user, info, writes, flag, views, screen, payment,
                           announced, payer, mixed>>

-----------------------------------------------------------------------------
Account  == \/ \E u \in Users : SignUp(u) \/ SignUpCut(u) \/ LogIn(u)
            \/ LogOut
            \/ OpenWalk \/ OpenMore \/ BuyTapped \/ RestoreTapped
Server   == \/ \E i \in DOMAIN writes : ServerAnswers(i, "stored") \/ ServerAnswers(i, "refused")
            \/ \E r \in reads : ReadAnswered(r)
Handlers == \/ \E i \in DOMAIN writes : SignUpAnswered(i) \/ PremiumAnswered(i)
            \/ \E r \in reads : ReadDelivered(r)
AppStore == AppStoreSells \/ PurchaseFails \/ PurchasingAnnounced \/ PurchasedAnnounced
            \/ RestoredAnnounced

Next == Account \/ Server \/ Handlers \/ AppStore \/ Relaunch

Spec == Init /\ [][Next]_vars

\* Firestore answers each write of the signed-in user, and the main queue runs its
\* completion handler; nothing is assumed of the user or of the App Store.
ServerAnswersWrite(i) ==
    i \in DOMAIN writes /\ (ServerAnswers(i, "stored") \/ ServerAnswers(i, "refused"))
HandlerRuns(i) == i \in DOMAIN writes /\ (SignUpAnswered(i) \/ PremiumAnswered(i))

FairSpec == /\ Spec
            /\ \A i \in 1..MaxWrites : WF_vars(ServerAnswersWrite(i)) /\ WF_vars(HandlerRuns(i))

-----------------------------------------------------------------------------
(* Properties *)

HasPremium(u) == \E id \in Users : info[u][id] = "premium"
Sold          == payment \in {"purchased", "finished"}
Refused       == {i \in DOMAIN writes : writes[i].doc = "premium" /\ writes[i].status = "refused"}

\* Nothing is unlocked that was not sold: neither an account nor the device says
\* premium before the App Store sold it, whatever answers are late or repeated.
PremiumIsSold == (flag = "1" \/ \E u \in Users : HasPremium(u)) => Sold

\* A sale is not forgotten: its transaction is finished only once an account has
\* premium, or the server has refused to store it (PremiumAnswered).
FinishedIsDelivered ==
    payment = "finished" => Refused # {} \/ \E u \in Users : HasPremium(u)

\* Premium goes to the account that paid, unless the user changed while something
\* was outstanding: then an observer left over serves the next user.
PremiumIsThePayers ==
    ~mixed => \A u \in Users : HasPremium(u) => u = payer

\* The device believes it is premium only when the account is, unless a refused
\* write was seen by a read while it was queued, or the user changed too soon.
FlagIsTheAccounts ==
    flag = "1" /\ ~mixed =>
        Refused # {} \/ (user # None /\ \E id \in Users : Visible(user, id) = "premium")

\* A sale settles: once its write is handed over, the transaction is finished and not
\* announced again, unless the process or the session ends first (PremiumAnswered).
Unsettled(i) == i \in DOMAIN writes /\ writes[i].doc = "premium" /\ writes[i].answer = "waiting"
Abandoned(i) == i \in DOMAIN writes /\ (writes[i].answer = "lost" \/ user # writes[i].user)
SaleSettles  == \A i \in 1..MaxWrites : Unsettled(i) ~> (payment = "finished" \/ Abandoned(i))
=============================================================================
