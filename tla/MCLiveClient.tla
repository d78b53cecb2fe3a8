---------------------------- MODULE MCLiveClient ----------------------------
(* Instances of LiveClient for TLC. *)
EXTENDS LiveClient

CONSTANTS page, rhs, card, comment1, comment2, text

MCHandles == [c \in Comps |-> IF c = page THEN {"block", "board"} ELSE {"board"}]
MCKindOf == [b \in Blocks |-> IF b = text THEN "text" ELSE "comment"]
MCParentOf == [b \in Blocks |-> card]
=============================================================================
