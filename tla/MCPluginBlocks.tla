--------------------------- MODULE MCPluginBlocks ---------------------------
(***************************************************************************)
(* Constants for model checking PluginBlocks: the calls of one assistant   *)
(* message are interchangeable.                                            *)
(***************************************************************************)
EXTENDS PluginBlocks

CallSymmetry == Permutations(Calls)
============================================================================
