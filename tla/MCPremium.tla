------------------------------ MODULE MCPremium ------------------------------
(* Instances of Premium for TLC. *)
EXTENDS Premium, TLC

\* Users are told apart only by which of them acts.
MCSymmetry == Permutations(Users)

\* Who may have an account: any users, or at least one.
MCAnybody  == SUBSET Users
MCSomebody == SUBSET Users \ {{}}
=============================================================================
