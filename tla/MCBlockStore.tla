---------------------------- MODULE MCBlockStore ----------------------------
(* Instances of BlockStore for TLC. *)
EXTENDS BlockStore, TLC

CONSTANTS card1, card2, text

\* Two cards of the board; a text that may be moved from one to the other.
MCTwoCards ==
  (card1 :> {Board}) @@ (card2 :> {Board}) @@ (text :> {card1, card2})

MCSymmetry == Permutations(Requests)
=============================================================================
