--------------------------- MODULE MCUndoManager ----------------------------
(* Instances of UndoManager for TLC. *)
EXTENDS UndoManager, TLC

CONSTANTS add, edit, move1, move2, drag, drop

\* A card is added, and edited in a group of its own; two cards are moved as
\* a group, which the other one may overlap.
MCOn == [o \in Ops |-> IF o = edit THEN add ELSE None]
MCGroupOf ==
  [o \in Ops |-> IF o \in {move1, move2} THEN drag ELSE IF o = edit THEN drop ELSE None]
=============================================================================
