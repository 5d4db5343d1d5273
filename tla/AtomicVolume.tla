---------------------------- MODULE AtomicVolume ----------------------------
(***************************************************************************)
(* What PFS3 promises of the structure of a volume: whatever is lost, the   *)
(* disk has a version of it that was whole at one time.                     *)
(***************************************************************************)
CONSTANT Versions

VARIABLES now,   \* the volume as the program sees it
          saved  \* the version that a mount would find

Init == now \in Versions /\ saved = now

Change == now' \in Versions /\ UNCHANGED saved
Commit == saved' = now /\ UNCHANGED now
Crash == now' = saved /\ UNCHANGED saved

Next == Change \/ Commit \/ Crash
Spec == Init /\ [][Next]_<<now, saved>>
=============================================================================
