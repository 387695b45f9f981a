---------------------------- MODULE MCHistory ----------------------------
(* A small instance of History for TLC: two walks and a bath. *)
EXTENDS History

CONSTANTS w1, w2, b1
=============================================================================
