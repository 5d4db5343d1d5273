----------------------------- MODULE MCFatFiles -----------------------------
(***************************************************************************)
(* FatFiles for TLC: files with a long name in the root directory and in two *)
(* directories.                                                             *)
(***************************************************************************)
EXTENDS FatFiles

CONSTANTS readme, docs, data

MCLfnParts == [n \in Names |-> IF n = readme THEN 1 ELSE 0]
MCPaths == {<<readme>>, <<docs>>, <<data>>, <<docs, readme>>, <<data, readme>>}
Symmetry == Permutations(Objects) \cup Permutations(Folders)
=============================================================================
