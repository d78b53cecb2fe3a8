--------------------------- MODULE MCBoardMembers ---------------------------
(* Instances of BoardMembers for TLC: requests are interchangeable. *)
EXTENDS BoardMembers, TLC

MCSymmetry == Permutations(Requests)
=============================================================================
