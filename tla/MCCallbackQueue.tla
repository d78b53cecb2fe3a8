-------------------------- MODULE MCCallbackQueue --------------------------
(* Instances of CallbackQueue for TLC. *)
EXTENDS CallbackQueue, TLC

CONSTANTS c1, c2, n1, s1, s2

\* The execution of c1 enqueues n1, as the mention of a user who is not a
\* member of the board does (mentions_backend.go, AddMemberToBoard).
MCSpawns == (c1 :> n1) @@ [f \in Callbacks |-> NoCallback]
============================================================================
