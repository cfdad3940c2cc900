-------------------------- MODULE MCBridgeMessages --------------------------
(***************************************************************************)
(* Constants for model checking BridgeMessages: a call that reads one file *)
(* and a call that edits it and another one.                               *)
(***************************************************************************)
EXTENDS BridgeMessages

FilesOf == [i \in Inputs |-> IF i = "read" THEN {"a"} ELSE {"a", "b"}]
============================================================================
