-------------------------- MODULE MCPluginPruning --------------------------
(***************************************************************************)
(* Constants for model checking PluginPruning: the lists of protected      *)
(* tools the plugin has by default, for the tools of the instance.         *)
(***************************************************************************)
EXTENDS PluginPruning

MCKinds == { << "task", "p" >>, << "read", "q" >> }

DefaultLists == [cause \in Causes |-> IF cause = "sweep" THEN {"task"} ELSE {}]
============================================================================
