------------------------------ MODULE Volumes ------------------------------
(***************************************************************************)
(* The volumes of a floppy drive: the message window that mounts and       *)
(* unmounts them (VolumeManager), the volumes (MountedVolume), the dialogs *)
(* that read and write the whole disk on threads of their own, the timer   *)
(* of the drive that sees a disk come and go, and the programs that call   *)
(* through Dokan.  One message, one call and one step of a dialog is one   *)
(* action; raw reading and writing is the time a dialog is at "raw".       *)
(***************************************************************************)
EXTENDS Naturals, FiniteSets, Sequences

CONSTANTS Handles,      \* what programs open
          Jobs,         \* what the dialogs do, of AllJobs
          MaxInserts,   \* disks put in
          MaxRequests,  \* dialogs opened
          Allow         \* what is not excluded of "swaps", "hasty", "aborts", "late"

AllJobs == {"format", "toDisk", "backup", "clean", "message"}
Options == {"swaps", "hasty", "aborts", "late"}
ASSUME VolumesAssumption ==
  /\ IsFiniteSet(Handles)
  /\ Jobs \subseteq AllJobs /\ Allow \subseteq Options
  /\ MaxInserts \in Nat \ {0} /\ MaxRequests \in Nat

Kinds == {"amiga", "ibm", "hybrid", "ndos"}
VARIABLES drive,     \* the disk in the drive: a number for what it holds, and the kind
          io,        \* m_diskInDrive, m_isLocked, m_fileSystemID
          inbox,     \* the posted WM_DISKCHANGE
          pump,      \* the thread of the message window
          mgr,       \* m_adfDevice, m_fatDevice
          vols,      \* m_volumes
          stopping,  \* threads that stop a removed volume, before its new title
          dialog,    \* threads of dialogs
          count,     \* how many contents of disks and dialogs there have been
          ctx        \* what each handle was opened on, and whether that was late:
                     \* after a dialog had asked for open files, before it locked
vars == <<drive, io, inbox, pump, mgr, vols, stopping, dialog, count, ctx>>

NoDisk == [n |-> 0, kind |-> "none"]
\* A device: which one, the disk it was opened for, whether a file system was
\* found there.
NoDevice == [id |-> 0, disk |-> 0, found |-> FALSE]
NoDevices == [adf |-> NoDevice, fat |-> NoDevice]
NewVolume == [adf |-> NoDevice, fat |-> NoDevice, fs |-> "none", temp |-> FALSE, inUse |-> {}]
NoContext == [vol |-> 0, dev |-> NoDevice, late |-> FALSE]
Dialogs == 1 .. MaxRequests
Closed == [job |-> "message", vol |-> 1, at |-> "closed"]
Alive == {d \in Dialogs : dialog[d].at # "closed"}
Running == pump # "ended"

\* The device behind the file system of a volume.
DeviceOf(vol) == IF vol.fs = "fat" THEN vol.fat ELSE vol.adf
Ready(vol) == vol.fs \in {"amiga", "fat"}
\* fs_checkVolume lets a call through.
Passes(v) == ~io.locked /\ io.present /\ Ready(vols[v])
InUse(vol) == vol.fs # "none" /\ vol.inUse # {}
-----------------------------------------------------------------------------
(* Volumes *)

\* A mutant: the files of the old file system stay in m_inUse.
UnmountKeepingFiles(vol) == [vol EXCEPT !.adf = NoDevice, !.fat = NoDevice, !.fs = "none"]
\* unmountFileSystem
Unmount(vol) == [vol EXCEPT !.adf = NoDevice, !.fat = NoDevice, !.fs = "none", !.inUse = {}]
TemporaryUnmount(vol) ==
  IF vol.temp THEN vol ELSE [vol EXCEPT !.fs = "none", !.inUse = {}, !.temp = TRUE]
MountAmiga(vol, dev) ==
  [vol EXCEPT !.adf = dev, !.fs = IF dev.found THEN "amiga" ELSE "ndos", !.inUse = {}, !.temp = FALSE]
MountFat(vol, dev) == [vol EXCEPT !.fat = dev, !.fs = "fat", !.inUse = {}, !.temp = FALSE]
\* What is on the disk in the drive now.
HasAmiga == drive.kind \in {"amiga", "hybrid"}
HasFat == drive.kind \in {"ibm", "hybrid"}
\* restoreUnmountedDrive(true)
Remount(vol) ==
  LET a == IF vol.adf = NoDevice THEN vol ELSE MountAmiga(vol, vol.adf)
      f == IF vol.fat = NoDevice THEN a ELSE MountFat(a, vol.fat)
  IN  [f EXCEPT !.temp = FALSE]
UnmountAll == [v \in DOMAIN vols |-> Unmount(vols[v])]

Fresh == CHOOSE id \in 1 .. Cardinality(Handles) + 1 : \A h \in Handles : ctx[h].dev.id # id
\* The devices diskChanged opens for a disk of that format; a FATFS that does
\* not mount is freed again.
Opened(format) ==
  LET dev(found) == [id |-> Fresh, disk |-> drive.n, found |-> found]
  IN  [adf |-> IF format \in {"amiga", "ndos", "hybrid"} THEN dev(HasAmiga) ELSE NoDevice,
       fat |-> IF format \in {"ibm", "hybrid"} /\ HasFat THEN dev(TRUE) ELSE NoDevice]
\* mountAmigaVolumes(0) and mountIBMVolumes after it, on volumes that are
\* unmounted; a new volume is made when there is none left.
MountedOn(vs, m, format) ==
  LET a == IF m.adf.found \/ (m.adf # NoDevice /\ format # "hybrid")
             THEN [vs EXCEPT ![1] = MountAmiga(@, m.adf)] ELSE vs
  IN  IF m.fat = NoDevice THEN a
      ELSE IF ~m.adf.found THEN [a EXCEPT ![1] = MountFat(@, m.fat)]
      ELSE <<a[1], MountFat(IF Len(a) > 1 THEN a[2] ELSE NewVolume, m.fat)>>
Needed(m) == IF m.adf # NoDevice /\ m.fat # NoDevice THEN 2 ELSE 1
Kept(vs, n) == SubSeq(vs, 1, IF Len(vs) < n THEN Len(vs) ELSE n)
-----------------------------------------------------------------------------
(* The drive *)

\* Nobody takes a disk out that the timer has not seen, nor puts another in
\* before the removal has been dealt with.
Seen == "swaps" \in Allow \/ io.present
Unhurried == "swaps" \in Allow \/ (pump = "idle" /\ inbox = <<>>)
InsertDisk ==
  /\ Running /\ drive = NoDisk /\ ~io.present /\ Unhurried
  /\ count.inserts < MaxInserts
  /\ \E k \in Kinds : drive' = [n |-> count.disks + 1, kind |-> k]
  /\ count' = [count EXCEPT !.disks = @ + 1, !.inserts = @ + 1]
  /\ UNCHANGED <<io, inbox, pump, mgr, vols, stopping, dialog, ctx>>

RemoveDisk ==
  /\ Running /\ drive # NoDisk /\ Seen /\ drive' = NoDisk
  /\ UNCHANGED <<io, inbox, pump, mgr, vols, stopping, dialog, count, ctx>>

\* A mutant: only a disk that came is reported.
TriggerWhenThere == IF io.present THEN inbox ELSE Append(inbox, [present |-> TRUE, type |-> drive.kind])
\* triggerRemount, the callback of mountDrive
TriggerRemount == Append(inbox, [present |-> ~io.present, type |-> drive.kind])
\* motorMonitor
NoticeDisk ==
  /\ Running /\ io.present # (drive # NoDisk)
  /\ io' = [io EXCEPT !.present = ~@]
  /\ inbox' = IF io.fsid THEN TriggerRemount ELSE inbox
  /\ UNCHANGED <<drive, pump, mgr, vols, stopping, dialog, count, ctx>>
-----------------------------------------------------------------------------
(* The message window *)

\* The timer comes every 200 ms and a dialog takes longer: the message that
\* follows a request is the timer's.
Takes == pump = "idle" /\ ("hasty" \in Allow \/ Alive = {})
\* diskChanged
DiskGone ==
  /\ Takes /\ inbox # <<>> /\ ~Head(inbox).present
  /\ inbox' = Tail(inbox)
  /\ vols' = Kept(UnmountAll, 1)
  /\ stopping' = stopping + Len(vols) - 1
  /\ mgr' = NoDevices
  /\ UNCHANGED <<drive, io, pump, dialog, count, ctx>>
DiskCame ==
  /\ Takes /\ inbox # <<>> /\ Head(inbox).present
  /\ inbox' = Tail(inbox)
  /\ mgr' = Opened(Head(inbox).type)
  /\ LET left == Kept(UnmountAll, Needed(mgr'))
     IN  /\ stopping' = stopping + Len(vols) - Len(left)
         /\ vols' = MountedOn(left, mgr', Head(inbox).type)
  /\ UNCHANGED <<drive, io, pump, dialog, count, ctx>>

\* handleRemoteRequest, handleCopyToDiskRequest: a dialog on a new thread.
Request(job, v) ==
  /\ Takes /\ v \in DOMAIN vols /\ count.dialogs < MaxRequests
  /\ count' = [count EXCEPT !.dialogs = @ + 1]
  /\ dialog' = [dialog EXCEPT ![count.dialogs + 1] = [job |-> job, vol |-> v, at |-> "open"]]
  /\ UNCHANGED <<drive, io, inbox, pump, mgr, vols, stopping, ctx>>

\* The other way REMOTECTRL_EJECT ends: with the process.
Eject ==
  /\ Takes /\ ~io.locked /\ \A v \in DOMAIN vols : ~InUse(vols[v])
  /\ vols' = UnmountAll /\ pump' = "ended"
  /\ UNCHANGED <<drive, io, inbox, mgr, stopping, dialog, count, ctx>>

\* WM_TIMER: checkRunningFileSystems waits for every thread there is.
Tick ==
  /\ pump = "idle" /\ (Alive # {} \/ stopping > 0)
  /\ "hasty" \in Allow \/ stopping = 0
  /\ pump' = "joins"
  /\ UNCHANGED <<drive, io, inbox, mgr, vols, stopping, dialog, count, ctx>>
Joined ==
  /\ pump = "joins" /\ Alive = {} /\ stopping = 0
  /\ pump' = "idle"
  /\ UNCHANGED <<drive, io, inbox, mgr, vols, stopping, dialog, count, ctx>>

\* stop on its thread: SetWindowText waits until the window takes messages.
StopVolume ==
  /\ pump = "idle" /\ stopping > 0
  /\ stopping' = stopping - 1
  /\ UNCHANGED <<drive, io, inbox, pump, mgr, vols, dialog, count, ctx>>
-----------------------------------------------------------------------------
(* The dialogs *)

\* What a dialog does with a volume that was deleted is not modelled.
At(d, place) == Running /\ dialog[d].at = place /\ dialog[d].vol \in DOMAIN vols
Closes(d) == dialog' = [dialog EXCEPT ![d] = Closed]
Goes(d, place) == dialog' = [dialog EXCEPT ![d].at = place]
Close(d) ==
  /\ At(d, "open") /\ Closes(d)
  /\ UNCHANGED <<drive, io, inbox, pump, mgr, vols, stopping, count, ctx>>

\* A mutant: nobody asks for open files.
MayLockAnyhow(vol) == TRUE
\* isDriveInUse, which setLocked asks first: FALSE if files are open.
MayLock(vol) == ~InUse(vol)
\* The dialog begins, unless the drive is in use: setLocked(true) flushes what
\* is pending, which takes seconds, and programs are let through meanwhile.
Start(d) ==
  /\ At(d, "open") /\ dialog[d].job # "message"
  /\ "hasty" \in Allow \/ pump = "joins"
  /\ MayLock(vols[dialog[d].vol])
  /\ Goes(d, "flush")
  /\ UNCHANGED <<drive, io, inbox, pump, mgr, vols, stopping, count, ctx>>
\* setLocked of the drive, without a second look at the open files.
Lock(d) ==
  /\ At(d, "flush")
  /\ io' = [io EXCEPT !.locked = TRUE] /\ Goes(d, "locked")
  /\ UNCHANGED <<drive, inbox, pump, mgr, vols, stopping, count, ctx>>

\* runFormatCommand returns at once without a disk.
NothingToFormat(d) ==
  /\ At(d, "locked") /\ dialog[d].job = "format" /\ ~io.present
  /\ Goes(d, "unlock")
  /\ UNCHANGED <<drive, io, inbox, pump, mgr, vols, stopping, count, ctx>>
TakeAway(d) ==
  /\ At(d, "locked") /\ (dialog[d].job = "format" => io.present)
  /\ vols' = [vols EXCEPT ![dialog[d].vol] = TemporaryUnmount(@)]
  /\ io' = [io EXCEPT !.fsid = dialog[d].job # "clean"]
  /\ Goes(d, "raw")
  /\ UNCHANGED <<drive, inbox, pump, mgr, stopping, count, ctx>>

\* A mutant: the drive is not told to look at the disk again.
TriggerNothing(x) == x
TriggerNewDiskMount(x) == [x EXCEPT !.present = FALSE]
\* The disk is written from end to end and is another one then.
Written(d) ==
  /\ At(d, "raw") /\ dialog[d].job \in {"format", "toDisk"} /\ drive # NoDisk
  /\ \E k \in Kinds \ (IF dialog[d].job = "format" THEN {"hybrid"} ELSE {}) :
       drive' = [n |-> count.disks + 1, kind |-> k]
  /\ count' = [count EXCEPT !.disks = @ + 1]
  /\ io' = TriggerNewDiskMount(io)
  /\ Goes(d, "unlock")
  /\ UNCHANGED <<inbox, pump, mgr, vols, stopping, ctx>>
\* Reading or cleaning is done, or writing failed.
Ended(d) ==
  /\ At(d, "raw")
  /\ dialog[d].job \in {"format", "toDisk"} => "aborts" \in Allow \/ drive = NoDisk
  /\ io' = [io EXCEPT !.fsid = TRUE]
  /\ Goes(d, "unlock")
  /\ UNCHANGED <<drive, inbox, pump, mgr, vols, stopping, count, ctx>>

\* setLocked(false), which does nothing if files are open.
Unlock(d) ==
  /\ At(d, "unlock")
  /\ io' = [io EXCEPT !.locked = @ /\ InUse(vols[dialog[d].vol])]
  /\ Goes(d, "restore")
  /\ UNCHANGED <<drive, inbox, pump, mgr, vols, stopping, count, ctx>>

\* restoreUnmountedDrive; the window of the format stays until it is closed.
Restore(d) ==
  LET v == dialog[d].vol IN
  /\ At(d, "restore")
  /\ IF ~vols[v].temp THEN UNCHANGED <<vols, mgr>>
     ELSE IF dialog[d].job = "backup" THEN vols' = [vols EXCEPT ![v] = Remount(@)] /\ UNCHANGED mgr
     ELSE /\ vols' = [UnmountAll EXCEPT ![v].temp = FALSE]
          /\ mgr' = NoDevices
  /\ io' = IF dialog[d].job = "clean" THEN TriggerNewDiskMount(io) ELSE io
  /\ dialog' = [dialog EXCEPT ![d] = IF @.job = "format" THEN [@ EXCEPT !.job = "message", !.at = "open"]
                                                       ELSE Closed]
  /\ UNCHANGED <<drive, inbox, pump, stopping, count, ctx>>
-----------------------------------------------------------------------------
(* Programs *)

\* A dialog has found no open file on the volume and has not locked it yet.
Late(v) == \E d \in Dialogs : dialog[d].at = "flush" /\ dialog[d].vol = v
OpenFile(h, v) ==
  /\ Running /\ ctx[h] = NoContext /\ v \in DOMAIN vols /\ Passes(v)
  /\ "late" \in Allow \/ ~Late(v)
  /\ vols' = [vols EXCEPT ![v].inUse = @ \cup {h}]
  /\ ctx' = [ctx EXCEPT ![h] = [vol |-> v, dev |-> DeviceOf(vols[v]), late |-> Late(v)]]
  /\ UNCHANGED <<drive, io, inbox, pump, mgr, stopping, dialog, count>>

\* fs_cleanup and fs_closeFile are not checked.
CloseFile(h) ==
  /\ Running /\ ctx[h] # NoContext
  /\ vols' = [v \in DOMAIN vols |-> [vols[v] EXCEPT !.inUse = @ \ {h}]]
  /\ ctx' = [ctx EXCEPT ![h] = NoContext]
  /\ UNCHANGED <<drive, io, inbox, pump, mgr, stopping, dialog, count>>
-----------------------------------------------------------------------------
Init ==
  /\ drive = NoDisk /\ io = [present |-> FALSE, locked |-> FALSE, fsid |-> TRUE]
  /\ inbox = <<>> /\ pump = "idle"
  /\ mgr = NoDevices
  /\ vols = <<NewVolume>> /\ stopping = 0
  /\ dialog = [d \in Dialogs |-> Closed]
  /\ count = [disks |-> 0, inserts |-> 0, dialogs |-> 0]
  /\ ctx = [h \in Handles |-> NoContext]

Window == DiskGone \/ DiskCame \/ Joined \/ Tick
Works(d) == Lock(d) \/ NothingToFormat(d) \/ TakeAway(d) \/ Written(d) \/ Ended(d) \/ Unlock(d) \/ Restore(d)
Next ==
  \/ InsertDisk \/ RemoveDisk \/ NoticeDisk
  \/ Window \/ StopVolume \/ Eject
  \/ \E job \in Jobs, v \in 1 .. 2 : Request(job, v)
  \/ \E d \in Dialogs : Start(d) \/ Close(d) \/ Works(d)
  \/ \E h \in Handles : CloseFile(h) \/ \E v \in 1 .. 2 : OpenFile(h, v)

Spec == Init /\ [][Next]_vars
\* The timer of the drive, the message loop and the threads go on; whoever
\* opened a dialog closes it some day.
LiveSpec ==
  /\ Spec /\ WF_vars(NoticeDisk) /\ WF_vars(Window) /\ WF_vars(StopVolume)
  /\ \A d \in Dialogs : WF_vars(Works(d)) /\ WF_vars(Close(d))
-----------------------------------------------------------------------------
(* No volume has a pointer to a device that was closed or freed, and what it *)
(* counts as in use was opened on the file system it has now; and no dialog   *)
(* has a volume that was deleted: m_ADFdevice and m_FatFS, which a dialog    *)
(* keeps while the volume is away, go with m_adfDevice and m_fatDevice,      *)
(* m_inUse with the volume.                                                 *)
DevicesLive ==
  /\ \A d \in Alive : dialog[d].vol \in DOMAIN vols
  /\ \A v \in DOMAIN vols :
       /\ vols[v].adf \in {NoDevice, mgr.adf} /\ vols[v].fat \in {NoDevice, mgr.fat}
       /\ vols[v].fs # "none" => DeviceOf(vols[v]) # NoDevice
       /\ \A h \in vols[v].inUse : ctx[h].vol = v /\ ctx[h].dev = DeviceOf(vols[v])

(* While a dialog reads or writes the disk as a whole, Dokan is locked out   *)
(* (sectorCache.h:65), the volume has no file system that keeps things in    *)
(* memory, and nobody has a file open on it, but what was opened after a     *)
(* dialog asked for open files and before it locked them out: setLocked does *)
(* not ask again after its flush (MountedVolume.cpp:164-166).                *)
RawAlone ==
  \A d \in Dialogs : dialog[d].at = "raw" =>
    /\ io.locked /\ vols[dialog[d].vol].fs = "none"
    /\ \A h \in Handles :
         ctx[h].vol = dialog[d].vol /\ ctx[h].dev \in {mgr.adf, mgr.fat} => ctx[h].late

(* setLocked locks a volume that has no open files, "Returns FALSE if files  *)
(* are open" (MountedVolume.h:75).  The code does not keep this: a file that *)
(* is opened while setLocked flushes is open when the volume is locked.      *)
LockRefused ==
  \A d \in Dialogs : dialog[d].at = "locked" => ~InUse(vols[dialog[d].vol])

(* A call that is let through meets the file system of the disk that is in   *)
(* the drive, never one with the bitmap of the disk before it: after a       *)
(* change, and after a dialog wrote the disk.  The statement between Unlock  *)
(* and Restore is left out: the other volume of a hybrid disk passes there.  *)
CallsGoHome ==
  \A v \in DOMAIN vols :
    Passes(v) /\ drive # NoDisk /\ (\A d \in Dialogs : dialog[d].at # "restore")
      => DeviceOf(vols[v]).disk = drive.n

Shown ==
  LET Has(v, fs) == v \in DOMAIN vols /\ vols[v].fs = fs /\ DeviceOf(vols[v]).disk = drive.n
  IN  CASE drive.kind = "hybrid" -> Has(1, "amiga") /\ Has(2, "fat") /\ Passes(1) /\ Passes(2)
        [] drive.kind = "ibm" -> Has(1, "fat") /\ Passes(1)
        [] drive.kind = "amiga" -> Has(1, "amiga") /\ Passes(1)
        [] OTHER -> Has(1, "ndos")
\* setLocked(false) has refused, as a file was open, and nobody will ask again.
LeftLocked == io.locked /\ Alive = {}
(* A disk that stays in the drive is mounted in the end, also one that came  *)
(* or was written while a dialog was open and the window took no messages;   *)
(* unless the last dialog has left the drive locked, which takes a file that *)
(* was opened while setLocked flushed (MountedVolume.cpp:164).              *)
EventuallyShown ==
  \A n \in 1 .. MaxInserts + MaxRequests :
    (drive.n = n) ~> (Shown \/ drive.n # n \/ ~Running \/ LeftLocked)
=============================================================================
