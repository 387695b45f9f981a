---------------------------- MODULE ImageUpload ----------------------------
(***************************************************************************)
(* The images of a walk: ImageViewController, opened from the walk form.   *)
(*                                                                         *)
(* A picked image is shown at once and uploaded; its link joins            *)
(* downloadURL when the upload has succeeded.  Meanwhile uploadNew keeps   *)
(* further images out and Choose is disabled.  Choose writes downloadURL   *)
(* into the draft of the walk and opens a new form over the screen, which  *)
(* is never seen again: what still arrives for it changes nothing that     *)
(* matters, so one screen at a time is modelled.  A screen starts with the *)
(* links of the draft and fetches their images one by one.                 *)
(*                                                                         *)
(* Firebase Storage, Kingfisher and the image picker are external.  An     *)
(* image and its link are one value; every pick is a new one, as the code  *)
(* names each upload by a fresh UUID.                                      *)
(***************************************************************************)
EXTENDS Naturals, Sequences, FiniteSets, SequencesExt

CONSTANTS
    Images,    \* images the user may pick; also a bound: each once
    None       \* no upload; not an image

VARIABLES
    premium,    \* what the key premium says
    draft,      \* dl-url-key of UserDefaults; empty when the key is missing
    open,       \* the screen is shown
    links,      \* downloadURL
    shown,      \* imgArray
    fetching,   \* links whose image Kingfisher has not delivered
    selected,   \* deletePathFromArray; 0 is nil
    uploadNew,  \* the lock: no image was accepted, or its upload succeeded
    choose,     \* the Choose button is enabled
    add,        \* the camera and library buttons are enabled
    upload,     \* the image being uploaded
    modal,      \* what is presented over the screen
    opened,     \* history: the draft the screen started with
    picked,     \* history: images that were picked
    saved,      \* history: links in a draft that a stored walk has cleared
    under       \* history: a stored walk cleared the draft under the screen

screen == <<links, shown, fetching, selected, uploadNew, choose, add, upload>>
vars   == <<premium, draft, open, screen, modal, opened, picked, saved, under>>

TypeOK ==
    /\ draft \in Seq(Images) /\ links \in Seq(Images) /\ shown \in Seq(Images)
    /\ opened \in Seq(Images)
    /\ fetching \subseteq Range(opened)
    /\ selected \in Nat
    /\ upload \in Images \cup {None}
    /\ {premium, open, uploadNew, choose, add, under} \subseteq BOOLEAN
    /\ modal \in {"none", "picker", "alert"}
    /\ picked \subseteq Images /\ saved \subseteq Images

-----------------------------------------------------------------------------
\* Cells are drawn when the table reloads with at least one row; each sets
\* the buttons by the number of images.
ReloadData(rows, before) ==
    /\ shown' = rows
    /\ add' = IF rows = <<>> THEN before ELSE premium

Init ==
    /\ premium \in BOOLEAN
    /\ draft = <<>> /\ open = FALSE
    /\ links = <<>> /\ shown = <<>> /\ fetching = {} /\ selected = 0
    /\ uploadNew = TRUE /\ choose = FALSE /\ add = TRUE /\ upload = None
    /\ modal = "none" /\ opened = <<>>
    /\ picked = {} /\ saved = {} /\ under = FALSE

\* cameraView of the form, then viewDidLoad: the links come from the draft,
\* whatever the form has handed over.
\* (mutant: the screen is not a new instance)
CameraViewKeeps ==
    /\ ~open
    /\ open' = TRUE /\ links' = links \o draft /\ shown' = <<>>
    /\ fetching' = Range(draft) /\ selected' = 0
    /\ uploadNew' = TRUE /\ choose' = FALSE /\ add' = TRUE /\ upload' = None
    /\ modal' = "none" /\ opened' = draft
    /\ UNCHANGED <<draft, picked, saved, under, premium>>

CameraView ==
    /\ ~open
    /\ open' = TRUE /\ links' = draft /\ shown' = <<>>
    /\ fetching' = Range(draft) /\ selected' = 0
    /\ uploadNew' = TRUE /\ choose' = FALSE /\ add' = TRUE /\ upload' = None
    /\ modal' = "none" /\ opened' = draft
    /\ UNCHANGED <<draft, picked, saved, under, premium>>

\* Kingfisher delivers the image of a link, or fails; images are shown in
\* the order they come in.
Retrieved(l) ==
    /\ open /\ l \in fetching
    /\ fetching' = fetching \ {l}
    /\ \/ ReloadData(Append(shown, l), add)
       \/ UNCHANGED <<shown, add>>
    /\ UNCHANGED <<draft, open, links, selected, uploadNew, choose, upload, modal,
                   opened, picked, saved, under, premium>>

RowSelected(i) ==
    /\ open /\ modal = "none" /\ i \in DOMAIN shown
    /\ selected' = i
    /\ UNCHANGED <<draft, open, links, shown, fetching, uploadNew, choose, add,
                   upload, modal, opened, picked, saved, under, premium>>

PickerOpened ==
    /\ open /\ modal = "none" /\ add
    /\ modal' = "picker"
    /\ UNCHANGED <<draft, open, screen, opened, picked, saved, under, premium>>

\* The user gives up picking.  An image picked while uploadNew is FALSE is
\* ignored and leaves the picker where it is.
PickerCancelled ==
    /\ open /\ modal = "picker"
    /\ modal' = "none"
    /\ UNCHANGED <<draft, open, screen, opened, picked, saved, under, premium>>

\* didFinishPickingMediaWithInfo: the image is shown and its upload begins,
\* unless it has no PNG form.
\* (mutant: Choose is left enabled)
ImagePickedChoose(x) ==
    /\ open /\ modal = "picker" /\ uploadNew /\ x \notin picked
    /\ uploadNew' = FALSE /\ UNCHANGED choose
    /\ ReloadData(Append(shown, x), add)
    /\ picked' = picked \cup {x}
    /\ upload' \in {x, None}
    /\ modal' = "none"
    /\ UNCHANGED <<draft, open, links, fetching, selected, opened, saved, under, premium>>

ImagePicked(x) ==
    /\ open /\ modal = "picker" /\ uploadNew /\ x \notin picked
    /\ uploadNew' = FALSE /\ choose' = FALSE
    /\ ReloadData(Append(shown, x), add)
    /\ picked' = picked \cup {x}
    /\ upload' \in {x, None}
    /\ modal' = "none"
    /\ UNCHANGED <<draft, open, links, fetching, selected, opened, saved, under, premium>>

UploadStored ==
    /\ open /\ upload # None
    /\ links' = Append(links, upload)
    /\ choose' = TRUE /\ uploadNew' = TRUE /\ upload' = None
    /\ UNCHANGED <<draft, open, shown, fetching, selected, add, modal,
                   opened, picked, saved, under, premium>>

\* One of them has failed: the handler returns.
UploadRefused ==
    /\ open /\ upload # None
    /\ upload' = None
    /\ UNCHANGED <<draft, open, links, shown, fetching, selected, uploadNew,
                   choose, add, modal, opened, picked, saved, under, premium>>

RemoveTapped ==
    /\ open /\ modal = "none" /\ selected # 0
    /\ modal' = "alert"
    /\ UNCHANGED <<draft, open, screen, opened, picked, saved, under, premium>>

\* The alert's action: the image leaves the table, the draft loses all its
\* links, downloadURL none.
\* (mutant: the path of the deleted row is kept)
RemoveConfirmedKeepsPath ==
    /\ open /\ modal = "alert"
    /\ ReloadData(RemoveAt(shown, selected), TRUE)
    /\ draft' = <<>> /\ selected' = selected /\ choose' = FALSE
    /\ modal' = "none"
    /\ UNCHANGED <<open, links, fetching, uploadNew, upload, opened, picked, saved, under, premium>>

RemoveConfirmed ==
    /\ open /\ modal = "alert"
    /\ ReloadData(RemoveAt(shown, selected), TRUE)
    /\ draft' = <<>> /\ selected' = 0 /\ choose' = FALSE
    /\ modal' = "none"
    /\ UNCHANGED <<open, links, fetching, uploadNew, upload, opened, picked, saved, under, premium>>

RemoveCancelled ==
    /\ open /\ modal = "alert"
    /\ modal' = "none"
    /\ UNCHANGED <<draft, open, screen, opened, picked, saved, under, premium>>

ChooseTapped ==
    /\ open /\ modal = "none" /\ choose
    /\ draft' = IF links = <<>> THEN draft ELSE links
    /\ open' = FALSE
    /\ UNCHANGED <<screen, modal, opened, picked, saved, under, premium>>

\* The sheet is swiped down; or the back button, whose action dismissView:
\* the class does not have, ends the process, as the user may.  The draft
\* stays.
ScreenLeft ==
    /\ open /\ modal = "none"
    /\ open' = FALSE
    /\ UNCHANGED <<draft, screen, modal, opened, picked, saved, under, premium>>

\* removeAllUserDefaults of the form, when the server has stored its walk:
\* the form may be under this screen.
WalkStored ==
    /\ draft # <<>>
    /\ draft' = <<>>
    /\ saved' = saved \cup Range(draft)
    /\ under' = (under \/ open)
    /\ UNCHANGED <<open, screen, modal, opened, picked, premium>>

Next ==
    \/ CameraView
    \/ \E l \in fetching : Retrieved(l)
    \/ \E i \in DOMAIN shown : RowSelected(i)
    \/ PickerOpened \/ PickerCancelled
    \/ \E x \in Images : ImagePicked(x)
    \/ UploadStored \/ UploadRefused
    \/ RemoveTapped \/ RemoveConfirmed \/ RemoveCancelled
    \/ ChooseTapped \/ ScreenLeft
    \/ WalkStored

Spec == Init /\ [][Next]_vars

-----------------------------------------------------------------------------
(* Properties.                                                             *)

\* Whenever Choose can be tapped, the link of every image on the screen is
\* among the links it writes: neither an image whose upload is unanswered
\* nor one that was refused is silently left out of the walk.
ShownIsChosen == open /\ choose => Range(shown) \subseteq Range(links)

\* The row to remove exists whenever the alert is confirmed: images come and
\* go, the path is an index kept from an earlier tap, and remove(at:) traps.
SelectionIsAnImage == selected <= Len(shown)

\* A stored walk's images come back into the draft, and so into the next
\* walk, only if its handler ran while the image screen was open.
SavedImagesStayAway == Range(draft) \cap saved # {} => under
=============================================================================
