---------------------------- MODULE MCChatTurns ----------------------------
(* Instances of ChatTurns for TLC. *)
EXTENDS ChatTurns, TLC

CONSTANTS t1, t2, t3, a, b

\* Requests and conversation ids are interchangeable.
Symmetry == Permutations(Turns) \cup Permutations(Conversations)
=============================================================================
