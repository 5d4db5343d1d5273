---------------------------- MODULE MCPfsBlocks ----------------------------
(***************************************************************************)
(* PfsBlocks for TLC: neither blocks nor files differ from one another.     *)
(***************************************************************************)
EXTENDS PfsBlocks

Symmetry == Permutations(Blocks) \cup Permutations(Files)
=============================================================================
