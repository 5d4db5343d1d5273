---------------------------- MODULE MCAmigaFiles ----------------------------
(***************************************************************************)
(* AmigaFiles for TLC.  No definition tells blocks or file objects apart.   *)
(***************************************************************************)
EXTENDS AmigaFiles, TLC

Symmetry == Permutations(Blocks) \cup Permutations(Objects)
=============================================================================
