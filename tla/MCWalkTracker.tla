---------------------------- MODULE MCWalkTracker ----------------------------
(* Instances of WalkTracker for TLC. *)
EXTENDS WalkTracker

\* Two places, ten metres apart.
MCPlaces == {0, 10}
=============================================================================
