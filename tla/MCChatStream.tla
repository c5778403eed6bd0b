---------------------------- MODULE MCChatStream ----------------------------
(* ChatStream has no data to instantiate: the cfg bounds its counters. *)
EXTENDS ChatStream
=============================================================================
