--------------------------- MODULE MCToolPruning ---------------------------
(***************************************************************************)
(* Constants for model checking ToolPruning: a call that reads one file, a *)
(* call that edits it and another one, and a call whose tool no strategy   *)
(* tracks the paths of.                                                    *)
(***************************************************************************)
EXTENDS ToolPruning

FilesOf == [i \in Inputs |->
  CASE i = "read" -> {"a"} [] i = "edit" -> {"a", "b"} [] OTHER -> {}]
============================================================================
