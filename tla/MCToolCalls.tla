---------------------------- MODULE MCToolCalls ----------------------------
(* An instance of ToolCalls for TLC. *)
EXTENDS ToolCalls

CONSTANTS c1, c2
=============================================================================
