--------------------------- MODULE MCAgentSettings ---------------------------
(* Instances of AgentSettings for TLC. *)
EXTENDS AgentSettings, TLC

CONSTANTS s1, s2, r1, r2, r3, o

\* Saves and requests are interchangeable.
Symmetry == Permutations(Saves) \cup Permutations(Requests)
=============================================================================
