---------------------------- MODULE MCPfsCommit ----------------------------
(***************************************************************************)
(* PfsCommit for TLC.  What is left in a place that neither the root leads  *)
(* to nor the program has a block in is written over before it is read, so  *)
(* that states that differ in nothing else are one to TLC.                  *)
(***************************************************************************)
EXTENDS PfsCommit

InUse ==
  {PlaceOf[k] : k \in Kinds} \cup (IF Running THEN {vol.nr[k] : k \in {c \in Kinds : ~vol.dirty[c]}} ELSE {})
View == <<vol, root, failed, lost, updates, [p \in InUse \ {Nowhere} |-> disk[p]]>>
=============================================================================
