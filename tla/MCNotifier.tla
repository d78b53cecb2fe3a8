----------------------------- MODULE MCNotifier -----------------------------
(* Instances of Notifier for TLC. *)
EXTENDS Notifier, TLC

MCSymmetry == Permutations(Cards) \cup Permutations(Users) \cup Permutations(Nodes)
=============================================================================
