------------------------------ MODULE MCScreens ------------------------------
(***************************************************************************)
(* Three screens that have nothing to do with each other, side by side for *)
(* TLC: the wheel of the reminder interval (TimerWheel), the images of a   *)
(* walk (ImageUpload) and the papers of a dog (DogDocuments).  No two of   *)
(* them share a key or a step, so each behaviour is about one of them and  *)
(* the others rest: what holds of all these behaviours holds of each       *)
(* screen.                                                                 *)
(***************************************************************************)
EXTENDS TimerWheel, Sequences, TLC

CONSTANTS Images, MaxScreens

ASSUME ScreensBound == MaxScreens \in Nat

VARIABLES
    part,                                                \* what this behaviour is about
    premium, link, open, links, shown, fetching,         \* of ImageUpload
    selected, uploadNew, choose, add, upload, modal,
    opened, chosen, cleared, under,
    saved, pile, menu, picker, picked                    \* of DogDocuments

Upload == INSTANCE ImageUpload WITH draft <- link, picked <- chosen, saved <- cleared
Papers == INSTANCE DogDocuments

uploadVars == <<premium, link, open, links, shown, fetching, selected, uploadNew, choose,
                add, upload, modal, opened, chosen, cleared, under>>
paperVars  == <<saved, pile, menu, picker, picked>>
allVars    == <<part, vars, uploadVars, paperVars>>

ScreensInit ==
    /\ part \in {"wheel", "upload", "papers"}
    /\ Init /\ Upload!Init /\ Papers!Init
    /\ premium => part = "upload"

ScreensNext ==
    \/ part = "wheel"  /\ Next /\ UNCHANGED <<part, uploadVars, paperVars>>
    \/ part = "upload" /\ Upload!Next /\ UNCHANGED <<part, vars, paperVars>>
    \/ part = "papers" /\ Papers!Next /\ UNCHANGED <<part, vars, uploadVars>>

ScreensSpec == ScreensInit /\ [][ScreensNext]_allVars

\* The images of a walk: Choose writes what is shown, no row is removed that is not
\* there, and stored images stay away.
ShownIsChosen       == Upload!ShownIsChosen
SelectionIsAnImage  == Upload!SelectionIsAnImage
SavedImagesStayAway == Upload!SavedImagesStayAway

\* The papers of a dog: none that is shown is forgotten, and none is lost but by a screen
\* the user came back to.
ShownIsKnown    == Papers!ShownIsKnown
LossNeedsReturn == Papers!LossNeedsReturn

\* Images are interchangeable.
ImageSymmetry == Permutations(Images)
=============================================================================
