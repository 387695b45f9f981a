---------------------------- MODULE DogDocuments ----------------------------
(***************************************************************************)
(* The papers of a dog: PremImgViewController, the images of one of the    *)
(* categories vet, docu, insu, pedi.  A screen shows one category and each *)
(* category has its own key, so one of them is modelled.                   *)
(*                                                                         *)
(* The premium menu opens a screen over itself and Save opens a new menu   *)
(* over the screen.  All of them are sheets, and swiping them down is the  *)
(* only way back: older screens come up again with what they held.         *)
(*                                                                         *)
(* Unlike the images of a walk nothing is locked during an upload, and the *)
(* indicator covers no button.  removeImage is empty in the code.          *)
(* Storage, Kingfisher and the picker are external; an image and its link  *)
(* are one value, and every pick is a new one, under a fresh UUID.         *)
(***************************************************************************)
EXTENDS Naturals, Sequences, FiniteSets, SequencesExt

CONSTANTS
    Images,     \* images the user may pick; also a bound: each once
    MaxScreens  \* bound: screens on top of each other

VARIABLES
    saved,   \* the key of the category in UserDefaults; empty when it is missing
    pile,    \* the screens, the last one on top
    menu,    \* a PremiumViewController covers the last screen
    picker,  \* the image picker covers the last screen
    picked   \* history: images that were picked

vars == <<saved, pile, menu, picker, picked>>

Screen == [links    : Seq(Images),      \* downloadVet, ...
           shown    : Seq(Images),      \* vetCertArray, ...
           fetching : SUBSET Images,    \* links whose image is not there yet
           uploads  : SUBSET Images,    \* uploads that are not answered
           failed   : SUBSET Images,    \* history: refused, or had no PNG form
           covered  : BOOLEAN]          \* history: Save was tapped on it before

TypeOK ==
    /\ saved \in Seq(Images)
    /\ pile \in Seq(Screen) /\ Len(pile) <= MaxScreens
    /\ {menu, picker} \subseteq BOOLEAN
    /\ ~menu => pile # <<>>
    /\ picker => ~menu
    /\ picked \subseteq Images

Top    == Len(pile)
OnTop  == ~menu /\ ~picker /\ pile # <<>>

\* (mutant: the screen does not begin with the links of the key)
OpenedEmpty ==
    [links |-> <<>>, shown |-> <<>>, fetching |-> ToSet(saved), uploads |-> {},
     failed |-> {}, covered |-> FALSE]

\* viewDidLoad, getValues.
Opened ==
    [links |-> saved, shown |-> <<>>, fetching |-> ToSet(saved), uploads |-> {},
     failed |-> {}, covered |-> FALSE]

Init ==
    /\ saved = <<>> /\ pile = <<>>
    /\ menu = TRUE /\ picker = FALSE
    /\ picked = {}

-----------------------------------------------------------------------------
(* The user *)

RowSelected ==
    /\ menu /\ Top < MaxScreens
    /\ pile' = Append(pile, Opened)
    /\ menu' = FALSE
    /\ UNCHANGED <<saved, picker, picked>>

PickerOpened ==
    /\ OnTop
    /\ picker' = TRUE
    /\ UNCHANGED <<saved, pile, menu, picked>>

PickerCancelled ==
    /\ picker
    /\ picker' = FALSE
    /\ UNCHANGED <<saved, pile, menu, picked>>

\* didFinishPickingMediaWithInfo: shown at once, and uploaded if it has a PNG form.
ImagePicked(x) ==
    /\ picker /\ x \notin picked
    /\ picked' = picked \cup {x}
    /\ picker' = FALSE
    /\ \E png \in BOOLEAN :
          pile' = [pile EXCEPT ![Top].shown = Append(@, x),
                               ![Top].uploads = IF png THEN @ \cup {x} ELSE @,
                               ![Top].failed = IF png THEN @ ELSE @ \cup {x}]
    /\ UNCHANGED <<saved, menu>>

\* chooseButtonTapped, titled Save.
ChooseTapped ==
    /\ OnTop
    /\ saved' = IF pile[Top].links # <<>> THEN pile[Top].links ELSE saved
    /\ pile' = [pile EXCEPT ![Top].covered = TRUE]
    /\ menu' = TRUE
    /\ UNCHANGED <<picker, picked>>

\* The menu on top is swiped down, and the screen under it is back; or the screen
\* is, and what still arrives for it changes nothing that is ever seen.
SheetClosed ==
    /\ pile # <<>> /\ ~picker
    /\ menu' = ~menu
    /\ pile' = IF menu THEN pile ELSE Front(pile)
    /\ UNCHANGED <<saved, picker, picked>>

\* MoreViewController, far below: all of UserDefaults goes.
LoggedOut ==
    /\ menu /\ pile = <<>>
    /\ saved' = <<>>
    /\ UNCHANGED <<pile, menu, picker, picked>>

Relaunch ==
    /\ pile' = <<>> /\ menu' = TRUE /\ picker' = FALSE
    /\ UNCHANGED <<saved, picked>>

-----------------------------------------------------------------------------
(* The handlers, of any screen that is still there *)

\* retrieveImage: the image, or nothing.
Retrieved(i, l) ==
    /\ l \in pile[i].fetching
    /\ \/ pile' = [pile EXCEPT ![i].fetching = @ \ {l},
                               ![i].shown = Append(@, l)]
       \/ pile' = [pile EXCEPT ![i].fetching = @ \ {l}]
    /\ UNCHANGED <<saved, menu, picker, picked>>

\* (mutant: a screen that is covered drops the answer)
StoredOnTop(i, x) ==
    /\ x \in pile[i].uploads
    /\ pile' = [pile EXCEPT ![i].uploads = @ \ {x},
                            ![i].links = IF i = Top /\ ~menu THEN Append(@, x) ELSE @]
    /\ UNCHANGED <<saved, menu, picker, picked>>

\* putData and downloadURL have both succeeded.
UploadStored(i, x) ==
    /\ x \in pile[i].uploads
    /\ pile' = [pile EXCEPT ![i].uploads = @ \ {x},
                            ![i].links = Append(@, x)]
    /\ UNCHANGED <<saved, menu, picker, picked>>

\* One of them has failed.
UploadRefused(i, x) ==
    /\ x \in pile[i].uploads
    /\ pile' = [pile EXCEPT ![i].uploads = @ \ {x}, ![i].failed = @ \cup {x}]
    /\ UNCHANGED <<saved, menu, picker, picked>>

-----------------------------------------------------------------------------
User ==
    \/ RowSelected \/ PickerOpened \/ PickerCancelled \/ ChooseTapped
    \/ SheetClosed \/ LoggedOut
    \/ \E x \in Images : ImagePicked(x)

Handler ==
    \E i \in DOMAIN pile :
       \/ \E l \in pile[i].fetching : Retrieved(i, l)
       \/ \E x \in pile[i].uploads : UploadStored(i, x) \/ UploadRefused(i, x)

Next == User \/ Handler \/ Relaunch

Spec == Init /\ [][Next]_vars

-----------------------------------------------------------------------------
(* Properties *)

\* An image saved leaves the key by logging out, or by a Save on a screen on which
\* Save was tapped before and to which the user has come back
\* (chooseButtonTapped writes the links of its own screen over the key).
LossNeedsReturn ==
    [][~(ToSet(saved) \subseteq ToSet(saved')) => saved' = <<>> \/ pile[Top].covered]_vars

\* An image on a screen that its Save leaves out is one whose upload is not
\* answered or has failed: no answer is lost on the way, also not one that comes
\* while the screen is covered (didFinishPickingMediaWithInfo).
ShownIsKnown ==
    \A i \in DOMAIN pile :
       ToSet(pile[i].shown) \subseteq ToSet(pile[i].links) \cup pile[i].uploads \cup pile[i].failed
=============================================================================
