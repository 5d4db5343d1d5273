----------------------------- MODULE MCPfsFiles -----------------------------
(***************************************************************************)
(* PfsFiles for TLC: two files in the root directory, one in a directory.   *)
(***************************************************************************)
EXTENDS PfsFiles

CONSTANTS readme, data, docs

MCPaths == {<<readme>>, <<data>>, <<docs>>, <<docs, readme>>}
Symmetry == Permutations(Handles)
=============================================================================
