----------------------------- MODULE MCWalkForm -----------------------------
(* Instances of WalkForm for TLC. *)
EXTENDS WalkForm

\* The drafts the first form may find: a complete walk, and one that lacks its dog.
MCReady == {Required, Required \ {"dog"}}

\* Nothing, what a save needs, that but for the person, or everything.
MCDrafts == {{}, Required \ {"person"}, Required, Keys}
=============================================================================
