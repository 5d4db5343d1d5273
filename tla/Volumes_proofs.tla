-------------------------- MODULE Volumes_proofs --------------------------
(***************************************************************************)
(* What TLC checks of Volumes with one handle and two dialogs, for any      *)
(* number of handles, disks and dialogs: no volume has a device that is     *)
(* closed, a dialog that reads or writes the whole disk is alone with it    *)
(* but for what was opened before it locked the others out, and a call      *)
(* meets the file system of the disk in the drive.                          *)
(***************************************************************************)
EXTENDS Volumes, FiniteSetTheorems, TLAPS

Device == [id : Nat, disk : Nat, found : BOOLEAN]
Volume == [adf : Device, fat : Device, fs : {"none", "amiga", "ndos", "fat"},
           temp : BOOLEAN, inUse : SUBSET Handles]
Message == [present : BOOLEAN, type : Kinds \cup {"none"}]
Places == {"closed", "open", "flush", "locked", "raw", "unlock", "restore"}
Context == [vol : 0 .. 2, dev : Device, late : BOOLEAN]

TypeOK ==
  /\ drive \in [n : Nat, kind : Kinds \cup {"none"}]
  /\ io \in [present : BOOLEAN, locked : BOOLEAN, fsid : BOOLEAN]
  /\ inbox \in Seq(Message)
  /\ pump \in {"idle", "joins", "ended"}
  /\ mgr \in [adf : Device, fat : Device]
  /\ vols \in Seq(Volume) /\ Len(vols) \in 1 .. 2
  /\ stopping \in Nat
  /\ dialog \in [Dialogs -> [job : AllJobs, vol : 1 .. 2, at : Places]]
  /\ count \in [disks : Nat, inserts : Nat, dialogs : 0 .. MaxRequests]
  /\ ctx \in [Handles -> Context]
-----------------------------------------------------------------------------
(***************************************************************************)
(* Lemmas on devices and volumes.                                           *)
(***************************************************************************)
LEMMA NoDeviceTyped ==
  NoDevice \in Device /\ NoDevices \in [adf : Device, fat : Device] /\ ~NoDevice.found
  BY DEF NoDevice, NoDevices, Device

(* There are more numbers to choose from than handles, so a device that is    *)
(* opened is a new one to every handle.                                     *)
LEMMA FreshIsNew ==
  ASSUME TypeOK
  PROVE  Fresh \in Nat /\ Fresh # 0 /\ \A h \in Handles : ctx[h].dev.id # Fresh
<1>  DEFINE n == Cardinality(Handles)
            ids == {ctx[h].dev.id : h \in Handles}
            f == [h \in Handles |-> ctx[h].dev.id]
<1>1. IsFiniteSet(Handles) /\ n \in Nat
  BY VolumesAssumption, FS_CardinalityType
<1>2. IsFiniteSet(ids) /\ Cardinality(ids) <= n
  <2>1. f \in Surjection(Handles, ids)
    BY DEF Surjection
  <2>2. QED
    BY <1>1, <2>1, FS_Surjection
<1>3. IsFiniteSet(1 .. n + 1) /\ Cardinality(1 .. n + 1) = n + 1
  BY SMTT(60), <1>1, FS_Interval
<1>4. ~(1 .. n + 1 \subseteq ids)
  <2>1. 1 .. n + 1 \subseteq ids => Cardinality(1 .. n + 1) <= Cardinality(ids)
    BY <1>2, FS_Subset
  <2>2. Cardinality(ids) \in Nat
    BY <1>2, FS_CardinalityType
  <2>3. QED
    BY <1>1, <1>2, <1>3, <2>1, <2>2
<1>5. \E id \in 1 .. n + 1 : \A h \in Handles : ctx[h].dev.id # id
  BY <1>4
<1>6. Fresh \in 1 .. n + 1 /\ \A h \in Handles : ctx[h].dev.id # Fresh
  BY <1>5, Zenon DEF Fresh
<1>7. QED
  BY <1>1, <1>6

LEMMA VolumeTyped ==
  ASSUME NEW vol \in Volume, NEW dev \in Device
  PROVE  /\ Unmount(vol) \in Volume /\ TemporaryUnmount(vol) \in Volume
         /\ MountAmiga(vol, dev) \in Volume /\ MountFat(vol, dev) \in Volume
         /\ Remount(vol) \in Volume 
  BY ZenonT(60), NoDeviceTyped DEF Volume, Unmount, TemporaryUnmount, MountAmiga, MountFat, Remount

LEMMA CountTyped ==
  ASSUME NEW D, NEW c \in [disks : Nat, inserts : Nat, dialogs : D]
  PROVE  [c EXCEPT !.disks = @ + 1, !.inserts = @ + 1] \in [disks : Nat, inserts : Nat, dialogs : D]
<1>  DEFINE one == [c EXCEPT !.disks = @ + 1]
<1>1. one \in [disks : Nat, inserts : Nat, dialogs : D] /\ one.inserts = c.inserts
  OBVIOUS
<1>2. [one EXCEPT !.inserts = c.inserts + 1] \in [disks : Nat, inserts : Nat, dialogs : D]
  <2>  HIDE DEF one
  <2>1. c.inserts + 1 \in Nat
    BY <1>1
  <2>2. QED
    BY <1>1, <2>1
<1>3. QED
  BY <1>2

LEMMA NewVolumeTyped == NewVolume \in Volume
  BY NoDeviceTyped DEF Volume, NewVolume

LEMMA InUseSet ==
  ASSUME NEW vol \in Volume, NEW S
  PROVE  /\ [vol EXCEPT !.inUse = S].inUse = S /\ [vol EXCEPT !.inUse = S].fs = vol.fs
         /\ [vol EXCEPT !.inUse = S].temp = vol.temp
  BY DEF Volume

LEMMA UnmountAllEffect ==
  ASSUME TypeOK
  PROVE  /\ UnmountAll \in Seq(Volume) /\ Len(UnmountAll) = Len(vols)
         /\ DOMAIN vols = 1 .. Len(vols)
         /\ \A v \in DOMAIN vols : UnmountAll[v] = Unmount(vols[v]) /\ vols[v] \in Volume
<1>1. DOMAIN vols = 1 .. Len(vols) /\ \A v \in DOMAIN vols : vols[v] \in Volume
  BY DEF TypeOK
<1>2. \A v \in DOMAIN vols : Unmount(vols[v]) \in Volume
  BY <1>1, NoDeviceTyped, VolumeTyped
<1>3. QED
  BY <1>1, <1>2 DEF UnmountAll, TypeOK

LEMMA KeptEffect ==
  ASSUME NEW S, NEW vs \in Seq(S), Len(vs) \in 1 .. 2, NEW n \in 1 .. 2
  PROVE  /\ Kept(vs, n) \in Seq(S)
         /\ Len(Kept(vs, n)) = IF Len(vs) < n THEN Len(vs) ELSE n
         /\ Len(Kept(vs, n)) \in 1 .. 2
         /\ \A v \in DOMAIN Kept(vs, n) : v \in DOMAIN vs /\ Kept(vs, n)[v] = vs[v]
<1>  DEFINE m == IF Len(vs) < n THEN Len(vs) ELSE n
<1>1. m \in 1 .. 2 /\ m <= Len(vs) /\ DOMAIN vs = 1 .. Len(vs)
  OBVIOUS
<1>2. /\ SubSeq(vs, 1, m) \in Seq(S) /\ Len(SubSeq(vs, 1, m)) = m
      /\ DOMAIN SubSeq(vs, 1, m) = 1 .. m
      /\ \A v \in 1 .. m : SubSeq(vs, 1, m)[v] = vs[v]
  BY <1>1
<1>3. Kept(vs, n) = SubSeq(vs, 1, m)
  BY DEF Kept
<1>4. Len(Kept(vs, n)) = m /\ Kept(vs, n) \in Seq(S)
  BY <1>2, <1>3
<1>5. \A v \in DOMAIN Kept(vs, n) : v \in DOMAIN vs /\ Kept(vs, n)[v] = vs[v]
  <2>  HIDE DEF m
  <2>  QED
    BY <1>1, <1>2, <1>3
<1>6. QED
  BY <1>1, <1>4, <1>5

(* A volume has no device but the manager's, and a file system only on one    *)
(* where it was found.                                                      *)
Sound(vol, m) ==
  /\ vol.adf \in {NoDevice, m.adf} /\ vol.fat \in {NoDevice, m.fat}
  /\ vol.fs # "none" => DeviceOf(vol) # NoDevice
  /\ Ready(vol) => DeviceOf(vol).found
Managers == {m \in [adf : Device, fat : Device] : m.fat = NoDevice \/ m.fat.found}

LEMMA SoundMounts ==
  ASSUME NEW vol \in Volume, NEW m \in Managers
  PROVE  /\ Sound(Unmount(vol), m) /\ Unmount(vol).inUse = {} /\ Unmount(vol).fs = "none"
         /\ Unmount(vol).temp = vol.temp
         /\ Unmount(vol).adf = NoDevice /\ Unmount(vol).fat = NoDevice
         /\ m.adf # NoDevice /\ vol.fat \in {NoDevice, m.fat} =>
              /\ Sound(MountAmiga(vol, m.adf), m) /\ MountAmiga(vol, m.adf).inUse = {}
              /\ ~MountAmiga(vol, m.adf).temp
         /\ m.fat # NoDevice /\ vol.adf \in {NoDevice, m.adf} =>
              /\ Sound(MountFat(vol, m.fat), m) /\ MountFat(vol, m.fat).inUse = {}
              /\ ~MountFat(vol, m.fat).temp
  BY NoDeviceTyped
     DEF Volume, Managers, Sound, Unmount, MountAmiga, MountFat, DeviceOf, Ready

LEMMA SoundRemount ==
  ASSUME NEW vol \in Volume, NEW m \in Managers, Sound(vol, m)
  PROVE  /\ TemporaryUnmount(vol) \in Volume /\ Remount(vol) \in Volume
         /\ Sound(TemporaryUnmount(vol), m)
         /\ TemporaryUnmount(vol).temp
         /\ IF vol.temp THEN TemporaryUnmount(vol) = vol
            ELSE TemporaryUnmount(vol).fs = "none" /\ TemporaryUnmount(vol).inUse = {}
         /\ Sound(Remount(vol), m) /\ ~Remount(vol).temp
         /\ \/ Remount(vol).inUse = {}
            \/ Remount(vol).inUse = vol.inUse /\ DeviceOf(Remount(vol)) = DeviceOf(vol)
<1>1. TemporaryUnmount(vol) \in Volume /\ Remount(vol) \in Volume
  BY NoDeviceTyped, VolumeTyped
<1>2. QED
  BY <1>1, NoDeviceTyped
     DEF Volume, Managers, Sound, TemporaryUnmount, Remount, MountAmiga, MountFat, DeviceOf, Ready

(* mountAmigaVolumes and mountIBMVolumes on volumes that are unmounted.      *)
LEMMA MountedEffect ==
  ASSUME NEW vs \in Seq(Volume), Len(vs) \in 1 .. 2, NEW m \in Managers, NEW format,
         \A v \in DOMAIN vs : /\ vs[v].adf = NoDevice /\ vs[v].fat = NoDevice
                              /\ vs[v].inUse = {} /\ Sound(vs[v], m)
  PROVE  /\ MountedOn(vs, m, format) \in Seq(Volume)
         /\ Len(MountedOn(vs, m, format)) \in 1 .. 2
         /\ \A v \in DOMAIN MountedOn(vs, m, format) :
              /\ MountedOn(vs, m, format)[v].inUse = {}
              /\ MountedOn(vs, m, format)[v].temp => v \in DOMAIN vs /\ vs[v].temp
              /\ Sound(MountedOn(vs, m, format)[v], m)
<1>  DEFINE Ok(w) == w \in Volume /\ w.inUse = {} /\ Sound(w, m)
            a == IF m.adf.found \/ (m.adf # NoDevice /\ format # "hybrid")
                   THEN [vs EXCEPT ![1] = MountAmiga(vs[1], m.adf)] ELSE vs
<1>1. \A v \in DOMAIN vs : vs[v] \in Volume
  OBVIOUS
<1>2. /\ a \in Seq(Volume) /\ Len(a) = Len(vs) /\ 1 \in DOMAIN a
      /\ \A v \in DOMAIN a : Ok(a[v]) /\ (a[v].temp => vs[v].temp)
      /\ a[1].fat = NoDevice
      /\ ~m.adf.found => a[1].adf \in {NoDevice, m.adf}
      /\ 2 \in DOMAIN a => a[2].adf = NoDevice
  <2>1. CASE a = vs
    BY SMTT(60), <1>1, <2>1
  <2>2. CASE a = [vs EXCEPT ![1] = MountAmiga(vs[1], m.adf)] /\ m.adf # NoDevice
    <3>1. m.adf \in Device /\ vs[1] \in Volume /\ vs[1].fat = NoDevice
      BY <1>1 DEF Managers
    <3>2. Ok(MountAmiga(vs[1], m.adf)) /\ ~MountAmiga(vs[1], m.adf).temp
      BY <3>1, <2>2, VolumeTyped, SoundMounts
    <3>3. MountAmiga(vs[1], m.adf).fat = NoDevice /\ MountAmiga(vs[1], m.adf).adf = m.adf
      BY <3>1 DEF MountAmiga, Volume
    <3>4. QED
      BY <1>1, <2>2, <3>2, <3>3
  <2>3. QED
    BY <2>1, <2>2, NoDeviceTyped
<1>  DEFINE second == IF Len(a) > 1 THEN a[2] ELSE NewVolume
<1>3. second \in Volume /\ second.adf = NoDevice
  BY <1>2, NewVolumeTyped DEF NewVolume
<1>4. CASE m.fat = NoDevice
  BY <1>2, <1>4 DEF MountedOn
<1>5. CASE m.fat # NoDevice
  <2>1. m.fat \in Device
    BY DEF Managers
  <2>2. ~m.adf.found => Ok(MountFat(a[1], m.fat)) /\ ~MountFat(a[1], m.fat).temp
    <3>  HIDE DEF a
    <3>  QED
      BY <1>2, <1>5, <2>1, VolumeTyped, SoundMounts
  <2>3. Ok(MountFat(second, m.fat)) /\ ~MountFat(second, m.fat).temp
    <3>  HIDE DEF second
    <3>  QED
      BY <1>3, <1>5, <2>1, VolumeTyped, SoundMounts
  <2>4. CASE ~m.adf.found
    <3>1. MountedOn(vs, m, format) = [a EXCEPT ![1] = MountFat(a[1], m.fat)]
      BY <1>5, <2>4 DEF MountedOn
    <3>2. QED
      BY <1>2, <2>2, <2>4, <3>1
  <2>5. CASE m.adf.found
    <3>1. MountedOn(vs, m, format) = <<a[1], MountFat(second, m.fat)>>
      BY <1>5, <2>5 DEF MountedOn
    <3>2. QED
      BY <1>2, <2>3, <3>1
  <2>6. QED
    BY <2>4, <2>5
<1>6. QED
  BY <1>4, <1>5

(* The devices that diskChanged opens.                                       *)
LEMMA OpenedEffect ==
  ASSUME TypeOK, NEW format
  PROVE  /\ Opened(format) \in Managers
         /\ \A h \in Handles : ctx[h].dev # NoDevice =>
                                ctx[h].dev \notin {Opened(format).adf, Opened(format).fat}
         /\ drive.kind = "none" => ~Opened(format).adf.found /\ ~Opened(format).fat.found
         /\ Opened(format).adf.found => Opened(format).adf.disk = drive.n
         /\ Opened(format).fat.found => Opened(format).fat.disk = drive.n
<1>  DEFINE dev(found) == [id |-> Fresh, disk |-> drive.n, found |-> found]
<1>1. Fresh \in Nat /\ drive.n \in Nat /\ HasAmiga \in BOOLEAN
  BY FreshIsNew DEF TypeOK, HasAmiga
<1>2. \A b \in BOOLEAN : dev(b) \in Device /\ dev(b).id = Fresh /\ dev(b).disk = drive.n
                         /\ dev(b).found = b
  BY <1>1 DEF Device
<1>3. /\ Opened(format).adf \in {dev(HasAmiga), NoDevice}
      /\ Opened(format).fat = NoDevice \/ (HasFat /\ Opened(format).fat = dev(TRUE))
      /\ Opened(format) = [adf |-> Opened(format).adf, fat |-> Opened(format).fat]
  BY DEF Opened
<1>4. Opened(format) \in Managers
  BY <1>1, <1>2, <1>3, NoDeviceTyped DEF Managers
<1>5. \A h \in Handles, b \in BOOLEAN : ctx[h].dev # dev(b)
  BY <1>2, FreshIsNew
<1>6. QED
  BY ZenonT(60), <1>1, <1>2, <1>3, <1>4, <1>5, NoDeviceTyped DEF HasAmiga, HasFat

-----------------------------------------------------------------------------
(***************************************************************************)
(* Devices.  This part holds whatever the user does.                        *)
(***************************************************************************)
VolumesOK == \A v \in DOMAIN vols : Sound(vols[v], mgr)
UseOK ==
  \A v \in DOMAIN vols : \A h \in vols[v].inUse :
    ctx[h].vol = v /\ ctx[h].dev = DeviceOf(vols[v])
ContextOK == \A h \in Handles : IF ctx[h].vol = 0 THEN ctx[h] = NoContext
                                ELSE ctx[h].dev # NoDevice
DeviceInv == TypeOK /\ VolumesOK /\ UseOK /\ ContextOK /\ mgr \in Managers

LEMMA DeviceInvInit == Init => DeviceInv
<1>  SUFFICES ASSUME Init PROVE DeviceInv
  OBVIOUS
<1>1. TypeOK
  <2>1. vols \in Seq(Volume) /\ Len(vols) = 1
    BY NewVolumeTyped DEF Init
  <2>2. ctx \in [Handles -> Context]
    BY NoDeviceTyped DEF Init, NoContext, Context
  <2>3. dialog \in [Dialogs -> [job : AllJobs, vol : 1 .. 2, at : Places]]
    BY DEF Init, Closed, AllJobs, Places
  <2>4. inbox \in Seq(Message)
    BY DEF Init
  <2>5. QED
    BY <2>1, <2>2, <2>3, <2>4, NoDeviceTyped, VolumesAssumption DEF Init, TypeOK, NoDisk
<1>2. VolumesOK /\ UseOK
  BY NoDeviceTyped DEF Init, VolumesOK, UseOK, Sound, NewVolume, NoDevices, Ready
<1>3. ContextOK /\ mgr \in Managers
  BY NoDeviceTyped DEF Init, ContextOK, NoContext, NoDevices, Managers
<1>4. QED
  BY <1>1, <1>2, <1>3 DEF DeviceInv

(* A step that leaves volumes, devices and handles alone.                    *)
LEMMA PlainStep ==
  ASSUME DeviceInv,
         \/ InsertDisk \/ RemoveDisk \/ NoticeDisk \/ Joined \/ Tick \/ StopVolume
         \/ \E job \in Jobs, v \in 1 .. 2 : Request(job, v)
         \/ \E d \in Dialogs : Start(d) \/ Lock(d) \/ Close(d) \/ NothingToFormat(d) \/ Written(d)
                                 \/ Ended(d) \/ Unlock(d)
  PROVE  DeviceInv' /\ UNCHANGED <<vols, mgr, ctx>>
<1>1. UNCHANGED <<vols, mgr, ctx>>
  BY DEF InsertDisk, RemoveDisk, NoticeDisk, Joined, Tick, StopVolume, Request, Start, Lock, Close,
     NothingToFormat, Written, Ended, Unlock
<1>2. VolumesOK' /\ UseOK' /\ ContextOK' /\ mgr' \in Managers
  BY <1>1 DEF DeviceInv, VolumesOK, UseOK, ContextOK
<1>3. TypeOK
  BY DEF DeviceInv
<1>4. TypeOK'
  <2>1. CASE InsertDisk \/ RemoveDisk \/ Joined \/ Tick \/ StopVolume
    <3>1. drive' \in [n : Nat, kind : Kinds \cup {"none"}]
      BY <1>3, <2>1 DEF TypeOK, InsertDisk, RemoveDisk, Joined, Tick, StopVolume, NoDisk
    <3>2. count' \in [disks : Nat, inserts : Nat, dialogs : 0 .. MaxRequests]
      <4>1. UNCHANGED count \/ count' = [count EXCEPT !.disks = @ + 1, !.inserts = @ + 1]
        BY <2>1 DEF InsertDisk, RemoveDisk, Joined, Tick, StopVolume
      <4>2. count \in [disks : Nat, inserts : Nat, dialogs : 0 .. MaxRequests]
        BY <1>3 DEF TypeOK
      <4>3. QED
        BY ZenonT(60), <4>1, <4>2, CountTyped
    <3>3. pump' \in {"idle", "joins", "ended"} /\ stopping' \in Nat
      BY <1>3, <2>1 DEF TypeOK, InsertDisk, RemoveDisk, Joined, Tick, StopVolume
    <3>4. UNCHANGED <<io, inbox, dialog>>
      BY <2>1 DEF InsertDisk, RemoveDisk, Joined, Tick, StopVolume
    <3>5. QED
      BY SMTT(60), <1>1, <1>3, <3>1, <3>2, <3>3, <3>4 DEF TypeOK
  <2>2. CASE NoticeDisk
    <3>1. inbox' \in Seq(Message)
      <4>1. [present |-> ~io.present, type |-> drive.kind] \in Message
        BY <1>3 DEF TypeOK, Message
      <4>2. QED
        BY <1>3, <2>2, <4>1 DEF NoticeDisk, TriggerRemount, TypeOK
    <3>2. QED
      BY ZenonT(60), <1>1, <1>3, <2>2, <3>1 DEF TypeOK, NoticeDisk
  <2>3. ASSUME NEW job \in Jobs, NEW v \in 1 .. 2, Request(job, v)
        PROVE  TypeOK'
    <3>1. job \in AllJobs
      BY VolumesAssumption
    <3>2. dialog' \in [Dialogs -> [job : AllJobs, vol : 1 .. 2, at : Places]]
      BY <1>3, <2>3, <3>1 DEF TypeOK, Request, Places
    <3>3. count' \in [disks : Nat, inserts : Nat, dialogs : 0 .. MaxRequests]
      BY SMTT(60), <1>3, <2>3, VolumesAssumption DEF TypeOK, Request
    <3>4. QED
      BY SMTT(60), <1>1, <1>3, <2>3, <3>2, <3>3 DEF TypeOK, Request
  <2>4. ASSUME NEW d \in Dialogs,
               Start(d) \/ Lock(d) \/ Close(d) \/ NothingToFormat(d) \/ Written(d) \/ Ended(d) \/ Unlock(d)
        PROVE  TypeOK'
    <3>1. dialog' \in [Dialogs -> [job : AllJobs, vol : 1 .. 2, at : Places]]
      <4>1. \/ dialog' = [dialog EXCEPT ![d] = Closed]
            \/ \E place \in Places : dialog' = [dialog EXCEPT ![d].at = place]
        BY <2>4 DEF Start, Lock, Close, NothingToFormat, Written, Ended, Unlock, Goes, Closes, Places
      <4>2. Closed \in [job : AllJobs, vol : 1 .. 2, at : Places]
        BY DEF Closed, AllJobs, Places
      <4>3. ASSUME NEW place \in Places
            PROVE  [dialog[d] EXCEPT !.at = place] \in [job : AllJobs, vol : 1 .. 2, at : Places]
        <5>1. dialog[d] \in [job : AllJobs, vol : 1 .. 2, at : Places]
          BY <1>3 DEF TypeOK
        <5>2. QED
          BY <5>1
      <4>4. PICK r \in [job : AllJobs, vol : 1 .. 2, at : Places] : dialog' = [dialog EXCEPT ![d] = r]
        <5>1. CASE dialog' = [dialog EXCEPT ![d] = Closed]
          BY <4>2, <5>1
        <5>2. ASSUME NEW place \in Places, dialog' = [dialog EXCEPT ![d].at = place]
              PROVE  dialog' = [dialog EXCEPT ![d] = [dialog[d] EXCEPT !.at = place]]
          BY <5>2
        <5>3. QED
          BY <4>1, <4>3, <5>1, <5>2
      <4>5. QED
        BY <1>3, <4>4 DEF TypeOK
    <3>2. io' \in [present : BOOLEAN, locked : BOOLEAN, fsid : BOOLEAN]
      BY ZenonT(60), <1>3, <2>4 DEF TypeOK, Start, Lock, Close, NothingToFormat, Written, Ended, Unlock,
         TriggerNewDiskMount, InUse
    <3>3. drive' \in [n : Nat, kind : Kinds \cup {"none"}] /\ count'.dialogs = count.dialogs
          /\ count' \in [disks : Nat, inserts : Nat, dialogs : 0 .. MaxRequests]
      BY SMTT(60), <1>3, <2>4 DEF TypeOK, Start, Lock, Close, NothingToFormat, Written, Ended, Unlock
    <3>4. UNCHANGED <<inbox, pump, stopping>>
      BY <2>4 DEF Start, Lock, Close, NothingToFormat, Written, Ended, Unlock
    <3>5. QED
      BY <1>1, <1>3, <3>1, <3>2, <3>3, <3>4 DEF TypeOK
  <2>5. QED
    BY <2>1, <2>2, <2>3, <2>4
<1>5. QED
  BY <1>1, <1>2, <1>4 DEF DeviceInv

(* A step that unmounts all volumes, or mounts them on other devices.        *)
LEMMA Cleared ==
  ASSUME DeviceInv, vols' \in Seq(Volume), Len(vols') \in 1 .. 2, mgr' \in Managers,
         UNCHANGED ctx, \A v \in DOMAIN vols' : vols'[v].inUse = {} /\ Sound(vols'[v], mgr')
  PROVE  VolumesOK' /\ UseOK' /\ ContextOK'
  BY DEF DeviceInv, VolumesOK, UseOK, ContextOK

LEMMA UnmountAllSound ==
  ASSUME DeviceInv, NEW m \in Managers
  PROVE  \A v \in DOMAIN UnmountAll :
           /\ v \in DOMAIN vols /\ vols[v] \in Volume
           /\ UnmountAll[v].adf = NoDevice /\ UnmountAll[v].fat = NoDevice
           /\ UnmountAll[v].inUse = {} /\ UnmountAll[v].fs = "none"
           /\ UnmountAll[v].temp = vols[v].temp
           /\ Sound(UnmountAll[v], m)
<1>1. TypeOK
  BY DEF DeviceInv
<1>2. DOMAIN UnmountAll = DOMAIN vols
  BY <1>1, UnmountAllEffect
<1>3. QED
  BY <1>1, <1>2, UnmountAllEffect, SoundMounts

LEMMA NoManager == NoDevices \in Managers
  BY NoDeviceTyped DEF Managers, NoDevices

LEMMA DiskGoneStep ==
  ASSUME DeviceInv, DiskGone
  PROVE  /\ DeviceInv'
         /\ \A v \in DOMAIN vols' : v \in DOMAIN vols /\ vols'[v].temp = vols[v].temp
                                    /\ vols'[v].inUse = {} /\ vols'[v].fs = "none"
<1>1. TypeOK /\ mgr' = NoDevices /\ vols' = Kept(UnmountAll, 1)
      /\ UNCHANGED <<drive, io, pump, dialog, count, ctx>>
  BY DEF DiskGone, DeviceInv
<1>2. /\ vols' \in Seq(Volume) /\ Len(vols') \in 1 .. 2
      /\ \A v \in DOMAIN vols' : v \in DOMAIN UnmountAll /\ vols'[v] = UnmountAll[v]
  <2>1. UnmountAll \in Seq(Volume) /\ Len(UnmountAll) \in 1 .. 2
    BY <1>1, UnmountAllEffect DEF TypeOK
  <2>2. QED
    BY <1>1, <2>1, KeptEffect
<1>3. \A v \in DOMAIN vols' : /\ vols'[v].inUse = {} /\ vols'[v].fs = "none"
                              /\ Sound(vols'[v], mgr')
                              /\ v \in DOMAIN vols /\ vols'[v].temp = vols[v].temp
  BY <1>1, <1>2, UnmountAllSound, NoManager
<1>4. inbox' \in Seq(Message) /\ stopping' \in Nat
  <2>1. inbox \in Seq(Message) /\ inbox # <<>> /\ inbox' = Tail(inbox)
    BY <1>1 DEF DiskGone, TypeOK
  <2>2. stopping \in Nat /\ Len(vols) \in 1 .. 2 /\ stopping' = stopping + Len(vols) - 1
    BY <1>1 DEF DiskGone, TypeOK
  <2>3. inbox' \in Seq(Message)
    BY <2>1
  <2>4. stopping' \in Nat
    BY <2>2
  <2>5. QED
    BY <2>3, <2>4
<1>5. TypeOK'
  BY <1>1, <1>2, <1>4, NoDeviceTyped DEF TypeOK
<1>6. VolumesOK' /\ UseOK' /\ ContextOK' /\ mgr' \in Managers
  BY <1>1, <1>2, <1>3, Cleared, NoManager
<1>7. QED
  BY <1>3, <1>5, <1>6 DEF DeviceInv

LEMMA DiskCameStep ==
  ASSUME DeviceInv, DiskCame
  PROVE  /\ DeviceInv'
         /\ \A v \in DOMAIN vols' : /\ vols'[v].inUse = {}
                                    /\ vols'[v].temp => v \in DOMAIN vols /\ vols[v].temp
         /\ \A h \in Handles : ctx[h].vol # 0 => ctx'[h].dev \notin {mgr'.adf, mgr'.fat}
<1>  DEFINE type == Head(inbox).type
            n == Needed(mgr')
            left == Kept(UnmountAll, n)
<1>1. /\ TypeOK /\ mgr' = Opened(type) /\ vols' = MountedOn(left, mgr', type)
      /\ UNCHANGED <<drive, io, pump, dialog, count, ctx>>
      /\ inbox' = Tail(inbox) /\ inbox # <<>>
      /\ stopping' = stopping + Len(vols) - Len(left)
  BY DEF DiskCame, DeviceInv
<1>2. mgr' \in Managers
  BY <1>1, OpenedEffect
<1>3. /\ left \in Seq(Volume) /\ Len(left) \in 1 .. 2 /\ Len(left) <= Len(vols)
      /\ \A v \in DOMAIN left : v \in DOMAIN UnmountAll /\ left[v] = UnmountAll[v]
  <2>1. UnmountAll \in Seq(Volume) /\ Len(UnmountAll) \in 1 .. 2 /\ Len(UnmountAll) = Len(vols)
    BY SMTT(60), <1>1, UnmountAllEffect DEF TypeOK
  <2>2. n \in 1 .. 2
    BY DEF Needed
  <2>  HIDE DEF n
  <2>3. /\ left \in Seq(Volume) /\ Len(left) \in 1 .. 2
        /\ Len(left) = IF Len(UnmountAll) < n THEN Len(UnmountAll) ELSE n
        /\ \A v \in DOMAIN left : v \in DOMAIN UnmountAll /\ left[v] = UnmountAll[v]
    BY ZenonT(60), <2>1, <2>2, KeptEffect
  <2>  HIDE DEF left
  <2>4. QED
    BY <2>1, <2>2, <2>3
<1>4. \A v \in DOMAIN left : /\ left[v].adf = NoDevice /\ left[v].fat = NoDevice
                             /\ left[v].inUse = {} /\ Sound(left[v], mgr')
                             /\ v \in DOMAIN vols /\ left[v].temp = vols[v].temp
  BY <1>2, <1>3, UnmountAllSound
<1>5. /\ vols' \in Seq(Volume) /\ Len(vols') \in 1 .. 2
      /\ \A v \in DOMAIN vols' :
           /\ vols'[v].inUse = {} /\ Sound(vols'[v], mgr')
           /\ vols'[v].temp => v \in DOMAIN vols /\ vols[v].temp
  <2>  HIDE DEF left, type
  <2>  QED
    BY SMTT(60), <1>1, <1>2, <1>3, <1>4, MountedEffect
<1>6. inbox' \in Seq(Message) /\ stopping' \in Nat
  <2>  HIDE DEF left
  <2>  QED
    BY <1>1, <1>3 DEF TypeOK
<1>7. TypeOK'
  <2>1. mgr' \in [adf : Device, fat : Device]
    BY <1>2 DEF Managers
  <2>2. QED
    BY <1>1, <1>5, <1>6, <2>1 DEF TypeOK
<1>8. VolumesOK' /\ UseOK' /\ ContextOK'
  BY <1>1, <1>2, <1>5, Cleared
<1>9. \A h \in Handles : ctx[h].vol # 0 => ctx'[h].dev \notin {mgr'.adf, mgr'.fat}
  BY <1>1, OpenedEffect DEF DeviceInv, ContextOK
<1>10. QED
  BY <1>2, <1>5, <1>7, <1>8, <1>9 DEF DeviceInv

LEMMA EjectStep ==
  ASSUME DeviceInv, Eject
  PROVE  DeviceInv'
<1>1. TypeOK /\ vols' = UnmountAll /\ UNCHANGED <<drive, io, inbox, mgr, stopping, dialog, count, ctx>>
      /\ pump' = "ended" /\ mgr \in Managers
  BY DEF Eject, DeviceInv
<1>2. vols' \in Seq(Volume) /\ Len(vols') \in 1 .. 2
  BY <1>1, UnmountAllEffect DEF TypeOK
<1>3. VolumesOK' /\ UseOK' /\ ContextOK'
  BY <1>1, <1>2, UnmountAllSound, Cleared
<1>4. QED
  BY <1>1, <1>2, <1>3 DEF DeviceInv, TypeOK

(* A volume is put in the place of another.                                  *)
LEMMA Replaced ==
  ASSUME DeviceInv, NEW v \in DOMAIN vols, NEW w \in Volume, vols' = [vols EXCEPT ![v] = w],
         Sound(w, mgr), UNCHANGED <<mgr, ctx>>,
         \A h \in w.inUse : ctx[h].vol = v /\ ctx[h].dev = DeviceOf(w)
  PROVE  /\ vols' \in Seq(Volume) /\ Len(vols') \in 1 .. 2 /\ DOMAIN vols' = DOMAIN vols
         /\ vols'[v] = w /\ \A u \in DOMAIN vols : u # v => vols'[u] = vols[u]
         /\ VolumesOK' /\ UseOK' /\ ContextOK' /\ mgr' \in Managers
<1>1. /\ vols' \in Seq(Volume) /\ Len(vols') \in 1 .. 2 /\ DOMAIN vols' = DOMAIN vols
      /\ vols'[v] = w /\ \A u \in DOMAIN vols : u # v => vols'[u] = vols[u]
  BY DEF DeviceInv, TypeOK
<1>2. QED
  BY <1>1 DEF DeviceInv, VolumesOK, UseOK, ContextOK

LEMMA TakeAwayStep ==
  ASSUME DeviceInv, NEW d \in Dialogs, TakeAway(d)
  PROVE  /\ DeviceInv'
         /\ DOMAIN vols' = DOMAIN vols
         /\ vols'[dialog[d].vol] = TemporaryUnmount(vols[dialog[d].vol])
         /\ \A u \in DOMAIN vols : u # dialog[d].vol => vols'[u] = vols[u]
<1>  DEFINE v == dialog[d].vol
            w == TemporaryUnmount(vols[v])
<1>1. /\ TypeOK /\ v \in DOMAIN vols /\ vols' = [vols EXCEPT ![v] = w]
      /\ UNCHANGED <<drive, inbox, pump, mgr, stopping, count, ctx>>
      /\ dialog' = [dialog EXCEPT ![d].at = "raw"]
      /\ io' = [io EXCEPT !.fsid = dialog[d].job # "clean"]
  BY DEF TakeAway, At, Goes, DeviceInv
<1>2. vols[v] \in Volume /\ Sound(vols[v], mgr) /\ mgr \in Managers
  BY <1>1 DEF DeviceInv, VolumesOK, TypeOK
<1>3. w \in Volume /\ Sound(w, mgr) /\ (w.inUse = {} \/ w = vols[v])
  BY <1>2, SoundRemount
<1>4. \A h \in w.inUse : ctx[h].vol = v /\ ctx[h].dev = DeviceOf(w)
  BY <1>1, <1>3 DEF DeviceInv, UseOK
<1>  HIDE DEF w
<1>5. /\ vols' \in Seq(Volume) /\ Len(vols') \in 1 .. 2 /\ DOMAIN vols' = DOMAIN vols
      /\ vols'[v] = w /\ \A u \in DOMAIN vols : u # v => vols'[u] = vols[u]
      /\ VolumesOK' /\ UseOK' /\ ContextOK' /\ mgr' \in Managers
  BY <1>1, <1>3, <1>4, Replaced
<1>6. dialog' \in [Dialogs -> [job : AllJobs, vol : 1 .. 2, at : Places]]
      /\ io' \in [present : BOOLEAN, locked : BOOLEAN, fsid : BOOLEAN]
  BY ZenonT(60), <1>1 DEF TypeOK, Places
<1>7. TypeOK'
  BY <1>1, <1>5, <1>6 DEF TypeOK
<1>8. QED
  BY <1>5, <1>7 DEF DeviceInv, w

LEMMA RestoreStep ==
  ASSUME DeviceInv, NEW d \in Dialogs, Restore(d)
  PROVE  /\ DeviceInv' /\ UNCHANGED ctx
         /\ DOMAIN vols' = DOMAIN vols
         /\ \/ ~vols[dialog[d].vol].temp /\ UNCHANGED <<vols, mgr>>
            \/ /\ dialog[d].job = "backup" /\ UNCHANGED mgr
               /\ vols'[dialog[d].vol] = Remount(vols[dialog[d].vol])
               /\ \A u \in DOMAIN vols : u # dialog[d].vol => vols'[u] = vols[u]
            \/ /\ mgr' = NoDevices
               /\ \A u \in DOMAIN vols :
                    /\ vols'[u].inUse = {} /\ vols'[u].fs = "none"
                    /\ vols'[u].temp => u # dialog[d].vol /\ vols[u].temp
<1>  DEFINE v == dialog[d].vol
            w == Remount(vols[v])
            z == [UnmountAll[v] EXCEPT !.temp = FALSE]
<1>1. /\ TypeOK /\ v \in DOMAIN vols
      /\ UNCHANGED <<drive, inbox, pump, stopping, count, ctx>>
      /\ mgr \in Managers /\ VolumesOK /\ UseOK /\ ContextOK
  BY DEF Restore, At, DeviceInv
<1>2. vols[v] \in Volume /\ Sound(vols[v], mgr)
  BY <1>1 DEF VolumesOK, TypeOK
<1>3. /\ dialog' \in [Dialogs -> [job : AllJobs, vol : 1 .. 2, at : Places]]
      /\ io' \in [present : BOOLEAN, locked : BOOLEAN, fsid : BOOLEAN]
  <2>1. dialog[d] \in [job : AllJobs, vol : 1 .. 2, at : Places]
    BY <1>1 DEF TypeOK
  <2>2. /\ [dialog[d] EXCEPT !.job = "message", !.at = "open"]
             \in [job : AllJobs, vol : 1 .. 2, at : Places]
        /\ Closed \in [job : AllJobs, vol : 1 .. 2, at : Places]
    <3>  DEFINE message == [dialog[d] EXCEPT !.job = "message"]
    <3>1. message \in [job : AllJobs, vol : 1 .. 2, at : Places]
      BY <2>1 DEF AllJobs
    <3>2. [message EXCEPT !.at = "open"] \in [job : AllJobs, vol : 1 .. 2, at : Places]
      <4>  HIDE DEF message
      <4>  QED
        BY <3>1 DEF Places
    <3>3. Closed \in [job : AllJobs, vol : 1 .. 2, at : Places]
      BY DEF Closed, Places, AllJobs
    <3>4. QED
      BY <3>2, <3>3
  <2>3. dialog' = [dialog EXCEPT ![d] =
                     IF dialog[d].job = "format"
                       THEN [dialog[d] EXCEPT !.job = "message", !.at = "open"] ELSE Closed]
    BY DEF Restore
  <2>4. io' \in [present : BOOLEAN, locked : BOOLEAN, fsid : BOOLEAN]
    BY <1>1 DEF Restore, TypeOK, TriggerNewDiskMount
  <2>5. QED
    BY <1>1, <2>2, <2>3, <2>4 DEF TypeOK
<1>4. CASE ~vols[v].temp
  <2>1. UNCHANGED <<vols, mgr>>
    BY <1>4 DEF Restore
  <2>2. QED
    BY <1>1, <1>3, <1>4, <2>1 DEF DeviceInv, TypeOK, VolumesOK, UseOK, ContextOK
<1>5. CASE vols[v].temp /\ dialog[d].job = "backup"
  <2>1. vols' = [vols EXCEPT ![v] = w] /\ UNCHANGED mgr
    BY <1>5 DEF Restore
  <2>2. w \in Volume /\ Sound(w, mgr)
        /\ (w.inUse = {} \/ (w.inUse = vols[v].inUse /\ DeviceOf(w) = DeviceOf(vols[v])))
    BY <1>1, <1>2, SoundRemount
  <2>3. \A h \in w.inUse : ctx[h].vol = v /\ ctx[h].dev = DeviceOf(w)
    BY <1>1, <2>2 DEF UseOK
  <2>  HIDE DEF w
  <2>4. /\ vols' \in Seq(Volume) /\ Len(vols') \in 1 .. 2 /\ DOMAIN vols' = DOMAIN vols
        /\ vols'[v] = w /\ \A u \in DOMAIN vols : u # v => vols'[u] = vols[u]
        /\ VolumesOK' /\ UseOK' /\ ContextOK' /\ mgr' \in Managers
    BY <1>1, <2>1, <2>2, <2>3, Replaced
  <2>5. TypeOK'
    BY <1>1, <1>3, <2>1, <2>4 DEF TypeOK
  <2>6. QED
    BY <1>1, <1>5, <2>1, <2>4, <2>5 DEF DeviceInv, w
<1>6. CASE vols[v].temp /\ dialog[d].job # "backup"
  <2>1. vols' = [UnmountAll EXCEPT ![v].temp = FALSE] /\ mgr' = NoDevices
    BY <1>6 DEF Restore
  <2>2. UnmountAll \in Seq(Volume) /\ Len(UnmountAll) = Len(vols) /\ DOMAIN UnmountAll = DOMAIN vols
    BY <1>1, UnmountAllEffect DEF TypeOK
  <2>3. UnmountAll[v] \in Volume
    BY <1>1, <2>2
  <2>4. z \in Volume /\ z.inUse = {} /\ z.fs = "none" /\ ~z.temp /\ Sound(z, NoDevices)
    <3>1. /\ UnmountAll[v].inUse = {} /\ UnmountAll[v].fs = "none"
          /\ UnmountAll[v].adf = NoDevice /\ UnmountAll[v].fat = NoDevice
      BY <1>1, <2>2, UnmountAllSound, NoManager
    <3>2. z \in Volume /\ z.inUse = {} /\ z.fs = "none" /\ ~z.temp
          /\ z.adf = NoDevice /\ z.fat = NoDevice
      BY <2>3, <3>1 DEF Volume
    <3>  HIDE DEF z
    <3>3. QED
      BY <3>2 DEF Sound, Ready
  <2>5. vols' = [UnmountAll EXCEPT ![v] = z]
    BY <2>1
  <2>  HIDE DEF z
  <2>6. /\ vols' \in Seq(Volume) /\ Len(vols') = Len(vols) /\ DOMAIN vols' = DOMAIN vols
        /\ vols'[v] = z /\ \A u \in DOMAIN vols : u # v => vols'[u] = UnmountAll[u]
    BY <1>1, <2>2, <2>4, <2>5
  <2>7. \A u \in DOMAIN vols : /\ vols'[u].inUse = {} /\ vols'[u].fs = "none"
                               /\ vols'[u].temp => u # v /\ vols[u].temp
                               /\ Sound(vols'[u], NoDevices)
    BY <2>2, <2>4, <2>6, UnmountAllSound, NoManager
  <2>8. Len(vols') \in 1 .. 2
    BY SMTT(60), <1>1, <2>6 DEF TypeOK
  <2>9. VolumesOK' /\ UseOK' /\ ContextOK' /\ mgr' \in Managers
    BY <1>1, <2>1, <2>6, <2>7, <2>8, Cleared, NoManager
  <2>10. TypeOK'
    BY SMTT(60), <1>1, <1>3, <2>1, <2>6, <2>8, NoDeviceTyped DEF TypeOK
  <2>11. QED
    BY <1>1, <2>1, <2>6, <2>7, <2>9, <2>10 DEF DeviceInv
<1>7. QED
  BY <1>4, <1>5, <1>6

LEMMA OpenFileStep ==
  ASSUME DeviceInv, NEW h \in Handles, NEW v \in 1 .. 2, OpenFile(h, v)
  PROVE  /\ DeviceInv'
         /\ DOMAIN vols' = DOMAIN vols
         /\ vols'[v] = [vols[v] EXCEPT !.inUse = @ \cup {h}]
         /\ \A u \in DOMAIN vols : u # v => vols'[u] = vols[u]
<1>  DEFINE w == [vols[v] EXCEPT !.inUse = @ \cup {h}]
            c == [vol |-> v, dev |-> DeviceOf(vols[v]), late |-> Late(v)]
<1>1. /\ TypeOK /\ v \in DOMAIN vols /\ ctx[h] = NoContext /\ Passes(v)
      /\ vols' = [vols EXCEPT ![v] = w] /\ ctx' = [ctx EXCEPT ![h] = c]
      /\ UNCHANGED <<drive, io, inbox, pump, mgr, stopping, dialog, count>>
      /\ mgr \in Managers /\ VolumesOK /\ UseOK /\ ContextOK
  BY DEF OpenFile, DeviceInv
<1>2. vols[v] \in Volume /\ Sound(vols[v], mgr)
  BY <1>1 DEF VolumesOK, TypeOK
<1>3. /\ w \in Volume /\ w.inUse = vols[v].inUse \cup {h}
      /\ w.adf = vols[v].adf /\ w.fat = vols[v].fat /\ w.fs = vols[v].fs
  BY <1>2 DEF Volume
<1>4. DeviceOf(w) = DeviceOf(vols[v]) /\ Sound(w, mgr) /\ DeviceOf(w) # NoDevice
      /\ DeviceOf(w) \in Device
  <2>  HIDE DEF w
  <2>  QED
    BY <1>1, <1>2, <1>3 DEF DeviceOf, Sound, Ready, Passes, Volume
<1>5. c \in Context /\ c.vol = v /\ c.dev # NoDevice
  <2>1. Late(v) \in BOOLEAN
    BY DEF Late
  <2>2. QED
    BY <1>2, <1>4, <2>1 DEF Context
<1>6. ctx' \in [Handles -> Context] /\ ctx'[h] = c /\ \A g \in Handles : g # h => ctx'[g] = ctx[g]
  <2>  HIDE DEF c
  <2>  QED
    BY <1>1, <1>5 DEF TypeOK
<1>7. /\ vols' \in Seq(Volume) /\ Len(vols') \in 1 .. 2 /\ DOMAIN vols' = DOMAIN vols
      /\ vols'[v] = w /\ \A u \in DOMAIN vols : u # v => vols'[u] = vols[u]
      /\ \A u \in DOMAIN vols : vols[u] \in Volume
  <2>  HIDE DEF w
  <2>  QED
    BY <1>1, <1>3 DEF TypeOK
<1>8. \A u \in DOMAIN vols : h \notin vols[u].inUse
  <2>1. ASSUME NEW u \in DOMAIN vols, h \in vols[u].inUse PROVE FALSE
    <3>1. ctx[h].vol = u /\ ctx[h].vol = 0
      <4>1. ctx[h].vol = u
        BY <1>1, <2>1 DEF UseOK
      <4>2. NoContext.vol = 0
        BY DEF NoContext
      <4>3. QED
        BY <1>1, <4>1, <4>2
    <3>2. u # 0
      BY <1>1 DEF TypeOK
    <3>3. QED
      BY <3>1, <3>2
  <2>2. QED
    BY <2>1
<1>9. UseOK'
  <2>1. ASSUME NEW u \in DOMAIN vols, NEW g \in vols'[u].inUse
        PROVE  ctx'[g].vol = u /\ ctx'[g].dev = DeviceOf(vols'[u])
    <3>1. g \in Handles
      BY <1>3, <1>7 DEF Volume
    <3>2. CASE g = h
      BY <1>3, <1>4, <1>6, <1>7, <1>8, <2>1, <3>2
    <3>3. CASE g # h
      <4>1. g \in vols[u].inUse /\ DeviceOf(vols'[u]) = DeviceOf(vols[u])
        <5>  HIDE DEF w
        <5>  QED
          BY <1>3, <1>4, <1>7, <2>1, <3>3
      <4>2. QED
        BY ZenonT(60), <1>1, <1>6, <3>1, <3>3, <4>1 DEF UseOK
    <3>4. QED
      BY <3>2, <3>3
  <2>2. QED
    BY <1>7, <2>1 DEF UseOK
<1>10. VolumesOK'
  <2>  HIDE DEF w
  <2>  QED
    BY <1>1, <1>4, <1>7 DEF VolumesOK
<1>11. ContextOK'
  <2>  HIDE DEF c
  <2>1. v # 0
    OBVIOUS
  <2>2. QED
    BY <1>1, <1>5, <1>6, <2>1 DEF ContextOK
<1>12. TypeOK'
  BY <1>1, <1>6, <1>7 DEF TypeOK
<1>13. QED
  BY <1>1, <1>7, <1>9, <1>10, <1>11, <1>12 DEF DeviceInv

LEMMA CloseFileStep ==
  ASSUME DeviceInv, NEW h \in Handles, CloseFile(h)
  PROVE  /\ DeviceInv'
         /\ DOMAIN vols' = DOMAIN vols
         /\ \A u \in DOMAIN vols : vols'[u] = [vols[u] EXCEPT !.inUse = @ \ {h}]
<1>1. /\ TypeOK /\ ctx' = [ctx EXCEPT ![h] = NoContext]
      /\ vols' = [v \in DOMAIN vols |-> [vols[v] EXCEPT !.inUse = @ \ {h}]]
      /\ UNCHANGED <<drive, io, inbox, pump, mgr, stopping, dialog, count>>
      /\ mgr \in Managers /\ VolumesOK /\ UseOK /\ ContextOK
  BY DEF CloseFile, DeviceInv
<1>2. \A u \in DOMAIN vols : vols[u] \in Volume
  BY <1>1 DEF TypeOK
<1>3. DOMAIN vols' = DOMAIN vols /\ \A u \in DOMAIN vols : vols'[u] = [vols[u] EXCEPT !.inUse = @ \ {h}]
  BY <1>1
<1>4. \A u \in DOMAIN vols :
        /\ vols'[u] \in Volume /\ vols'[u].inUse = vols[u].inUse \ {h}
        /\ vols'[u].adf = vols[u].adf /\ vols'[u].fat = vols[u].fat /\ vols'[u].fs = vols[u].fs
  BY <1>2, <1>3 DEF Volume
<1>5. NoContext \in Context /\ NoContext.vol = 0
  BY NoDeviceTyped DEF NoContext, Context
<1>6. ctx' \in [Handles -> Context] /\ ctx'[h] = NoContext /\ \A g \in Handles : g # h => ctx'[g] = ctx[g]
  BY <1>1, <1>5 DEF TypeOK
<1>7. vols' \in Seq(Volume) /\ Len(vols') \in 1 .. 2
  <2>1. DOMAIN vols = 1 .. Len(vols) /\ Len(vols) \in 1 .. 2
    BY <1>1 DEF TypeOK
  <2>2. vols' \in [1 .. Len(vols) -> Volume]
    BY <1>1, <1>3, <1>4, <2>1
  <2>3. QED
    BY <2>1, <2>2
<1>8. VolumesOK' /\ UseOK'
  BY SMTT(60), <1>1, <1>2, <1>3, <1>4, <1>6 DEF VolumesOK, UseOK, Sound, DeviceOf, Ready, Volume
<1>9. ContextOK'
  BY <1>1, <1>5, <1>6 DEF ContextOK
<1>10. TypeOK'
  BY <1>1, <1>6, <1>7 DEF TypeOK
<1>11. QED
  BY <1>1, <1>3, <1>8, <1>9, <1>10 DEF DeviceInv

LEMMA DeviceInvStep == DeviceInv /\ [Next]_vars => DeviceInv'
<1>  SUFFICES ASSUME DeviceInv, [Next]_vars PROVE DeviceInv'
  OBVIOUS
<1>1. CASE UNCHANGED vars
  BY <1>1 DEF vars, DeviceInv, TypeOK, VolumesOK, UseOK, ContextOK
<1>2. CASE Next
  BY <1>2, PlainStep, DiskGoneStep, DiskCameStep, EjectStep, TakeAwayStep, RestoreStep,
     OpenFileStep, CloseFileStep DEF Next, Window, Works
<1>3. QED
  BY <1>1, <1>2
-----------------------------------------------------------------------------
(***************************************************************************)
(* Dialogs.  A dialog at work keeps the message window waiting, so nothing  *)
(* is mounted meanwhile, and what it took away stays away until it restores *)
(* it.                                                                     *)
(***************************************************************************)
Patient == "hasty" \notin Allow

Working(d) == dialog[d].at \in {"flush", "locked", "raw", "unlock", "restore"}
Holding(d) == dialog[d].at \in {"locked", "raw", "unlock"}
Took(d) == dialog[d].at \in {"raw", "unlock", "restore"}
LateOnly(vol, c) == vol.fs # "none" => \A h \in vol.inUse : c[h].late

DialogOK ==
  /\ \A d, e \in Dialogs : d \in Alive /\ e \in Alive => d = e
  /\ \A d \in Alive : dialog[d].vol \in DOMAIN vols
  /\ \A d \in Dialogs : Working(d) => pump = "joins"
(* From the look at the open files on, what is opened is opened late.         *)
LockOK ==
  /\ \A d \in Dialogs : Holding(d) => io.locked
  /\ \A d \in Dialogs : Holding(d) \/ dialog[d].at = "flush" =>
       LateOnly(vols[dialog[d].vol], ctx)
AwayOK ==
  /\ \A v \in DOMAIN vols : vols[v].temp =>
       vols[v].fs = "none" /\ \E d \in Dialogs : dialog[d].vol = v /\ Took(d)
  /\ \A d \in Dialogs : Took(d) => \/ vols[dialog[d].vol].temp
                                   \/ dialog[d].job = "format" /\ dialog[d].at # "raw"
(* What was opened on a device that is still there counts as in use, but what *)
(* was opened late.                                                         *)
OpenOK ==
  \A h \in Handles : ctx[h].vol # 0 /\ ctx[h].dev \in {mgr.adf, mgr.fat} /\ ~ctx[h].late =>
    /\ ctx[h].vol \in DOMAIN vols
    /\ h \in vols[ctx[h].vol].inUse /\ vols[ctx[h].vol].fs # "none"
DialogInv == DeviceInv /\ DialogOK /\ LockOK /\ AwayOK /\ OpenOK

LEMMA DialogInvInit == Init => DialogInv
  BY DeviceInvInit DEF Init, DialogInv, DialogOK, LockOK, AwayOK, OpenOK, Alive, Closed,
     Working, Holding, Took, NewVolume, NoContext

LEMMA AloneWorks ==
  ASSUME DialogInv, NEW d \in Dialogs, dialog[d].at # "closed"
  PROVE  /\ \A e \in Dialogs : e # d => dialog[e].at = "closed"
         /\ dialog[d].vol \in DOMAIN vols
         /\ d \in Alive
  BY DEF DialogInv, DialogOK, Alive

LEMMA DialogEnvironment ==
  ASSUME DialogInv,
         \/ InsertDisk \/ RemoveDisk \/ NoticeDisk \/ Joined \/ Tick \/ StopVolume
         \/ UNCHANGED vars
  PROVE  DialogOK' /\ LockOK' /\ AwayOK' /\ OpenOK'
<1>1. UNCHANGED <<vols, mgr, ctx, dialog>> /\ io'.locked = io.locked
  BY DEF InsertDisk, RemoveDisk, NoticeDisk, Joined, Tick, StopVolume, vars, DialogInv, DeviceInv, TypeOK
<1>2. \A d \in Dialogs : Working(d) => pump' = "joins"
  BY DEF InsertDisk, RemoveDisk, NoticeDisk, Joined, Tick, StopVolume, vars, DialogInv, DialogOK,
     Working, Alive
<1>3. QED
  BY <1>1, <1>2 DEF DialogInv, DialogOK, LockOK, AwayOK, OpenOK, Alive, Working, Holding, Took

LEMMA DialogRequest ==
  ASSUME Patient, DialogInv, NEW job \in Jobs, NEW v \in 1 .. 2, Request(job, v)
  PROVE  DialogOK' /\ LockOK' /\ AwayOK' /\ OpenOK'
<1>  DEFINE n == count.dialogs + 1
<1>1. /\ TypeOK /\ Alive = {} /\ UNCHANGED <<vols, mgr, ctx, io, pump>> /\ v \in DOMAIN vols
      /\ dialog' = [dialog EXCEPT ![n] = [job |-> job, vol |-> v, at |-> "open"]]
      /\ \A d \in Dialogs : dialog[d].at = "closed"
  BY DEF Request, Takes, Patient, Alive, DialogInv, DeviceInv
<1>2. \A d \in Dialogs : dialog'[d].at = "closed" \/ (d = n /\ dialog'[d].at = "open" /\ dialog'[d].vol = v)
  BY <1>1 DEF TypeOK
<1>3. QED
  BY <1>1, <1>2 DEF DialogInv, DialogOK, LockOK, AwayOK, OpenOK, Alive, Working, Holding, Took

LEMMA DialogMoves ==
  ASSUME Patient, DialogInv, NEW d \in Dialogs,
         Start(d) \/ Lock(d) \/ Close(d) \/ NothingToFormat(d) \/ Written(d) \/ Ended(d) \/ Unlock(d)
  PROVE  DialogOK' /\ LockOK' /\ AwayOK' /\ OpenOK'
<1>1. TypeOK /\ UNCHANGED <<vols, mgr, ctx, pump>> /\ dialog[d].at # "closed"
  BY DEF Start, Lock, Close, NothingToFormat, Written, Ended, Unlock, At, DialogInv, DeviceInv
<1>2. /\ \A e \in Dialogs : e # d => dialog[e].at = "closed"
      /\ dialog[d].vol \in DOMAIN vols
  BY <1>1, AloneWorks
<1>3. /\ \A e \in Dialogs : e # d => dialog'[e] = dialog[e]
      /\ \/ dialog'[d].at = "closed" /\ dialog[d].at = "open"
         \/ dialog'[d].vol = dialog[d].vol /\ dialog'[d].job = dialog[d].job
      /\ dialog'[d].at \in {"closed", "flush", "locked", "unlock", "restore"}
  BY SMTT(60), <1>1 DEF TypeOK, Start, Lock, Close, NothingToFormat, Written, Ended, Unlock, At, Closes, Goes, Closed
<1>4. dialog'[d].at # "closed" => pump = "joins"
  BY <1>1, <1>3 DEF Start, Lock, Close, NothingToFormat, Written, Ended, Unlock, At, Closes, Goes, Closed, Patient,
     DialogInv, DialogOK, Working, TypeOK
<1>5. DialogOK'
  BY <1>1, <1>2, <1>3, <1>4 DEF DialogOK, Alive, Working
<1>6. LockOK'
  <2>1. dialog'[d].at \in {"locked", "unlock"} => io'.locked
    BY SMTT(60), <1>1, <1>2, <1>3 DEF Start, Lock, Close, NothingToFormat, Written, Ended, Unlock, At, Closes, Goes,
       Closed, TriggerNewDiskMount, TypeOK, DialogInv, LockOK, Holding
  <2>2. dialog'[d].at \in {"flush", "locked", "unlock"} => LateOnly(vols[dialog[d].vol], ctx)
    <3>1. CASE Start(d)
      BY <1>1, <3>1 DEF Start, MayLock, InUse, LateOnly
    <3>2. CASE Lock(d) \/ NothingToFormat(d) \/ Written(d) \/ Ended(d)
      BY <1>1, <3>2 DEF Lock, NothingToFormat, Written, Ended, At, DialogInv, LockOK, Holding
    <3>3. CASE Close(d) \/ Unlock(d)
      BY <1>1, <3>3 DEF Close, Unlock, Closes, Goes, Closed, TypeOK
    <3>4. QED
      BY <3>1, <3>2, <3>3
  <2>3. /\ dialog'[d].at \in {"flush", "locked", "unlock"} => dialog'[d].vol = dialog[d].vol
        /\ dialog'[d].at # "raw"
    BY <1>3
  <2>4. QED
    BY <1>1, <1>2, <1>3, <2>1, <2>2, <2>3 DEF LockOK, Holding
<1>7. AwayOK'
  <2>1. Took(d) => Took(d)' /\ UNCHANGED dialog[d].vol /\ UNCHANGED dialog[d].job
    BY <1>1, <1>3 DEF Start, Lock, Close, NothingToFormat, Written, Ended, Unlock, At, Goes, Took, TypeOK
  <2>2. Took(d)' => Took(d) \/ (dialog[d].job = "format" /\ dialog'[d].job = "format" /\ dialog'[d].at # "raw")
    BY <1>1, <1>3 DEF Start, Lock, Close, NothingToFormat, Written, Ended, Unlock, At, Closes, Goes, Closed,
       Took, TypeOK
  <2>3. QED
    BY <1>1, <1>2, <1>3, <2>1, <2>2 DEF DialogInv, AwayOK, Took
<1>8. OpenOK'
  BY <1>1 DEF DialogInv, OpenOK
<1>9. QED
  BY <1>5, <1>6, <1>7, <1>8

LEMMA DialogWindow ==
  ASSUME Patient, DialogInv, DiskGone \/ DiskCame \/ Eject
  PROVE  DialogOK' /\ LockOK' /\ AwayOK' /\ OpenOK'
<1>1. /\ TypeOK /\ DeviceInv /\ ContextOK
      /\ \A d \in Dialogs : dialog[d].at = "closed"
      /\ UNCHANGED <<dialog, ctx>>
  BY DEF DiskGone, DiskCame, Eject, Takes, Patient, Alive, DialogInv, DeviceInv
<1>2. \A v \in DOMAIN vols : ~vols[v].temp
  BY <1>1 DEF DialogInv, AwayOK, Took
<1>3. \A v \in DOMAIN vols' : ~vols'[v].temp
  <2>1. CASE Eject
    BY <1>1, <1>2, <2>1, UnmountAllSound, NoManager DEF Eject
  <2>2. QED
    BY <1>1, <1>2, <2>1, DiskGoneStep, DiskCameStep
<1>4. OpenOK'
  <2>1. CASE DiskGone
    BY <1>1, <2>1 DEF DiskGone, NoDevices, ContextOK, OpenOK
  <2>2. CASE DiskCame
    BY <1>1, <2>2, DiskCameStep DEF OpenOK
  <2>3. CASE Eject
    BY <1>1, <2>3 DEF Eject, InUse, DialogInv, OpenOK
  <2>4. QED
    BY <2>1, <2>2, <2>3
<1>5. QED
  BY <1>1, <1>3, <1>4 DEF DialogOK, LockOK, AwayOK, Alive, Working, Holding, Took

LEMMA DialogTakesAway ==
  ASSUME Patient, DialogInv, NEW d \in Dialogs, TakeAway(d)
  PROVE  DialogOK' /\ LockOK' /\ AwayOK' /\ OpenOK'
<1>  DEFINE v == dialog[d].vol
<1>1. /\ TypeOK /\ DeviceInv /\ dialog[d].at = "locked" /\ UNCHANGED <<mgr, ctx, pump>>
      /\ dialog' = [dialog EXCEPT ![d].at = "raw"] /\ io'.locked = io.locked
  BY DEF TakeAway, At, Goes, DialogInv, DeviceInv, TypeOK
<1>2. /\ \A e \in Dialogs : e # d => dialog[e].at = "closed"
      /\ v \in DOMAIN vols
  BY <1>1, AloneWorks
<1>3. /\ dialog'[d].at = "raw" /\ dialog'[d].vol = v
      /\ \A e \in Dialogs : e # d => dialog'[e] = dialog[e]
  BY <1>1 DEF TypeOK
<1>4. io.locked /\ LateOnly(vols[v], ctx) /\ ~vols[v].temp /\ pump = "joins"
  BY <1>1, <1>2 DEF DialogInv, DialogOK, LockOK, AwayOK, Working, Holding, Took
<1>5. vols[v] \in Volume /\ Sound(vols[v], mgr) /\ mgr \in Managers
  BY <1>1, <1>2 DEF DeviceInv, VolumesOK, TypeOK
<1>6. /\ DOMAIN vols' = DOMAIN vols
      /\ vols'[v].fs = "none" /\ vols'[v].inUse = {} /\ vols'[v].temp
      /\ \A u \in DOMAIN vols : u # v => vols'[u] = vols[u]
  BY SMTT(60), <1>1, <1>4, <1>5, TakeAwayStep, SoundRemount
<1>7. DialogOK' /\ LockOK'
  BY <1>1, <1>2, <1>3, <1>4, <1>6 DEF DialogOK, LockOK, LateOnly, Alive, Working, Holding
<1>8. AwayOK'
  BY <1>1, <1>2, <1>3, <1>6 DEF DialogInv, AwayOK, Took
<1>9. OpenOK'
  BY <1>1, <1>2, <1>4, <1>6 DEF DialogInv, OpenOK, LateOnly
<1>10. QED
  BY <1>7, <1>8, <1>9

LEMMA DialogRestores ==
  ASSUME Patient, DialogInv, NEW d \in Dialogs, Restore(d)
  PROVE  DialogOK' /\ LockOK' /\ AwayOK' /\ OpenOK'
<1>  DEFINE v == dialog[d].vol
<1>1. /\ TypeOK /\ DeviceInv /\ ContextOK /\ dialog[d].at = "restore" /\ UNCHANGED <<ctx, pump>>
  BY DEF Restore, At, DialogInv, DeviceInv
<1>2. /\ \A e \in Dialogs : e # d => dialog[e].at = "closed"
      /\ v \in DOMAIN vols
  BY <1>1, AloneWorks
<1>3. /\ dialog'[d].at = "closed" \/ (dialog'[d].at = "open" /\ dialog'[d].vol = v)
      /\ \A e \in Dialogs : e # d => dialog'[e] = dialog[e]
  BY <1>1 DEF TypeOK, Restore, Closed
<1>4. \A u \in DOMAIN vols : vols[u].temp => u = v /\ vols[u].fs = "none"
  BY <1>2 DEF DialogInv, AwayOK, Took
<1>5. vols[v] \in Volume /\ Sound(vols[v], mgr) /\ mgr \in Managers
  BY <1>1, <1>2 DEF DeviceInv, VolumesOK, TypeOK
<1>6. DOMAIN vols' = DOMAIN vols
  BY <1>1, RestoreStep
<1>7. \A u \in DOMAIN vols' : ~vols'[u].temp
  BY SMTT(60), <1>1, <1>4, <1>5, <1>6, RestoreStep, SoundRemount
<1>8. OpenOK'
  <2>1. CASE UNCHANGED <<vols, mgr>>
    BY <1>1, <2>1 DEF DialogInv, OpenOK
  <2>2. CASE mgr' = NoDevices
    BY <1>1, <2>2 DEF ContextOK, OpenOK, NoDevices
  <2>3. CASE /\ vols[v].temp /\ UNCHANGED mgr
             /\ \A u \in DOMAIN vols : u # v => vols'[u] = vols[u]
    BY <1>1, <1>2, <1>4, <1>6, <2>3 DEF DialogInv, OpenOK
  <2>4. QED
    BY ZenonT(60), <1>1, <2>1, <2>2, <2>3, RestoreStep DEF Restore
<1>9. DialogOK' /\ LockOK' /\ AwayOK'
  BY <1>1, <1>2, <1>3, <1>6, <1>7 DEF DialogOK, LockOK, AwayOK, Alive, Working, Holding, Took
<1>10. QED
  BY <1>8, <1>9

LEMMA DialogOpens ==
  ASSUME Patient, DialogInv, NEW h \in Handles, NEW v \in 1 .. 2, OpenFile(h, v)
  PROVE  DialogOK' /\ LockOK' /\ AwayOK' /\ OpenOK'
<1>1. /\ TypeOK /\ DeviceInv /\ UNCHANGED <<mgr, dialog, io, pump>> /\ v \in DOMAIN vols
      /\ ~io.locked /\ vols[v].fs # "none"
      /\ ctx' = [ctx EXCEPT ![h] = [vol |-> v, dev |-> DeviceOf(vols[v]), late |-> Late(v)]]
  BY DEF OpenFile, Passes, Ready, DialogInv, DeviceInv
<1>2. vols[v] \in Volume
  BY <1>1 DEF TypeOK
<1>3. /\ DOMAIN vols' = DOMAIN vols
      /\ vols'[v].inUse = vols[v].inUse \cup {h} /\ vols'[v].fs = vols[v].fs
      /\ vols'[v].temp = vols[v].temp
      /\ \A u \in DOMAIN vols : u # v => vols'[u] = vols[u]
  <2>1. /\ DOMAIN vols' = DOMAIN vols
        /\ vols'[v] = [vols[v] EXCEPT !.inUse = @ \cup {h}]
        /\ \A u \in DOMAIN vols : u # v => vols'[u] = vols[u]
    BY <1>1, OpenFileStep
  <2>2. QED
    BY <1>2, <2>1, InUseSet
<1>4. /\ \A g \in Handles : g # h => ctx'[g] = ctx[g]
      /\ ctx'[h].vol = v /\ ctx'[h].late = Late(v)
  BY <1>1 DEF TypeOK
<1>5. DialogOK' /\ LockOK'
  <2>1. DialogOK'
    BY <1>1, <1>3 DEF DialogInv, DialogOK, Alive, Working
  <2>2. \A d \in Dialogs : ~Holding(d)
    BY <1>1 DEF DialogInv, LockOK
  <2>3. ASSUME NEW d \in Dialogs, dialog[d].at = "flush"
        PROVE  LateOnly(vols'[dialog[d].vol], ctx')
    <3>1. dialog[d].vol \in DOMAIN vols /\ LateOnly(vols[dialog[d].vol], ctx)
      BY <2>3 DEF DialogInv, DialogOK, LockOK, Alive
    <3>2. \A g \in vols[dialog[d].vol].inUse : g \in Handles
      <4>1. vols[dialog[d].vol] \in Volume
        BY <1>1, <3>1 DEF TypeOK
      <4>2. QED
        BY <4>1 DEF Volume
    <3>3. CASE dialog[d].vol = v
      <4>1. Late(v)
        BY <2>3, <3>3 DEF Late
      <4>2. QED
        BY <1>3, <1>4, <3>1, <3>2, <3>3, <4>1 DEF LateOnly
    <3>4. CASE dialog[d].vol # v
      <4>1. vols'[dialog[d].vol] = vols[dialog[d].vol]
        BY <1>3, <3>1, <3>4
      <4>2. h \notin vols[dialog[d].vol].inUse
        <5>1. UseOK'
          BY <1>1, OpenFileStep DEF DeviceInv
        <5>2. dialog[d].vol \in DOMAIN vols'
          BY <1>3, <3>1
        <5>3. QED
          BY <1>4, <3>4, <4>1, <5>1, <5>2 DEF UseOK
      <4>3. QED
        BY <1>4, <3>1, <3>2, <4>1, <4>2 DEF LateOnly
    <3>5. QED
      BY <3>3, <3>4
  <2>4. QED
    BY <1>1, <2>1, <2>2, <2>3 DEF LockOK, Holding
<1>6. AwayOK'
  <2>1. \A u \in DOMAIN vols : vols'[u].temp = vols[u].temp /\ vols'[u].fs = vols[u].fs
    BY <1>1, <1>3
  <2>2. \A d \in Dialogs : Took(d)' = Took(d)
    BY <1>1 DEF Took
  <2>3. \A d \in Dialogs : Took(d) => dialog[d].vol \in DOMAIN vols
    BY DEF DialogInv, DialogOK, Alive, Took
  <2>4. QED
    BY <1>1, <1>3, <2>1, <2>2, <2>3 DEF DialogInv, AwayOK
<1>7. OpenOK'
  BY <1>1, <1>3, <1>4 DEF DialogInv, OpenOK
<1>8. QED
  BY <1>5, <1>6, <1>7

LEMMA DialogCloses ==
  ASSUME Patient, DialogInv, NEW h \in Handles, CloseFile(h)
  PROVE  DialogOK' /\ LockOK' /\ AwayOK' /\ OpenOK'
<1>1. /\ TypeOK /\ DeviceInv /\ UNCHANGED <<mgr, dialog, io, pump>>
      /\ ctx' = [ctx EXCEPT ![h] = NoContext]
  BY DEF CloseFile, DialogInv, DeviceInv
<1>2. \A u \in DOMAIN vols : vols[u] \in Volume
  BY <1>1 DEF TypeOK
<1>3. /\ DOMAIN vols' = DOMAIN vols
      /\ \A u \in DOMAIN vols :
           /\ vols'[u].inUse = vols[u].inUse \ {h} /\ vols'[u].fs = vols[u].fs
           /\ vols'[u].temp = vols[u].temp
  <2>1. /\ DOMAIN vols' = DOMAIN vols
        /\ \A u \in DOMAIN vols : vols'[u] = [vols[u] EXCEPT !.inUse = @ \ {h}]
    BY <1>1, CloseFileStep
  <2>2. ASSUME NEW u \in DOMAIN vols
        PROVE  /\ vols'[u].inUse = vols[u].inUse \ {h} /\ vols'[u].fs = vols[u].fs
               /\ vols'[u].temp = vols[u].temp
    <3>1. vols[u] \in Volume /\ vols'[u] = [vols[u] EXCEPT !.inUse = vols[u].inUse \ {h}]
      BY <1>2, <2>1
    <3>2. QED
      BY <3>1, InUseSet
  <2>3. QED
    BY <2>1, <2>2
<1>4. /\ \A g \in Handles : g # h => ctx'[g] = ctx[g]
      /\ ctx'[h].vol = 0
  BY <1>1 DEF TypeOK, NoContext
<1>5. DialogOK' /\ LockOK'
  <2>1. DialogOK'
    BY <1>1, <1>3 DEF DialogInv, DialogOK, Alive, Working
  <2>2. \A u \in DOMAIN vols : LateOnly(vols[u], ctx) => LateOnly(vols'[u], ctx')
    BY <1>2, <1>3, <1>4 DEF LateOnly, Volume
  <2>3. \A d \in Dialogs : dialog[d].at # "closed" => dialog[d].vol \in DOMAIN vols
    BY DEF DialogInv, DialogOK, Alive
  <2>4. QED
    BY <1>1, <2>1, <2>2, <2>3 DEF DialogInv, LockOK, Holding
<1>6. AwayOK'
  <2>1. \A u \in DOMAIN vols : vols'[u].temp = vols[u].temp /\ vols'[u].fs = vols[u].fs
    BY <1>1, <1>3
  <2>2. \A d \in Dialogs : Took(d)' = Took(d)
    BY <1>1 DEF Took
  <2>3. \A d \in Dialogs : Took(d) => dialog[d].vol \in DOMAIN vols
    BY DEF DialogInv, DialogOK, Alive, Took
  <2>4. QED
    BY <1>1, <1>3, <2>1, <2>2, <2>3 DEF DialogInv, AwayOK
<1>7. OpenOK'
  BY <1>1, <1>3, <1>4 DEF DialogInv, OpenOK
<1>8. QED
  BY <1>5, <1>6, <1>7

LEMMA DialogInvStep ==
  ASSUME Patient
  PROVE  DialogInv /\ [Next]_vars => DialogInv'
<1>  SUFFICES ASSUME DialogInv, [Next]_vars PROVE DialogInv'
  OBVIOUS
<1>1. DeviceInv'
  BY DeviceInvStep DEF DialogInv
<1>2. DialogOK' /\ LockOK' /\ AwayOK' /\ OpenOK'
  BY DialogEnvironment, DialogRequest, DialogMoves, DialogWindow, DialogTakesAway,
     DialogRestores, DialogOpens, DialogCloses DEF Next, Window, Works
<1>3. QED
  BY <1>1, <1>2 DEF DialogInv

LEMMA DialogInvAlways ==
  ASSUME Patient
  PROVE  Spec => []DialogInv
<1>1. DialogInv /\ [Next]_vars => DialogInv'
  BY DialogInvStep
<1>2. QED
  BY <1>1, DialogInvInit, PTL DEF Spec

(* Devices are closed only once no volume has them, if no message comes       *)
(* between the request of a dialog and the timer that waits for it.         *)
THEOREM DevicesStayLive ==
  ASSUME Patient
  PROVE  Spec => []DevicesLive
<1>1. DialogInv => DevicesLive
  BY DEF DialogInv, DeviceInv, DialogOK, VolumesOK, UseOK, Sound, DevicesLive
<1>2. QED
  BY <1>1, DialogInvAlways, PTL

(* Whoever reads or writes the disk as a whole is alone with it but for what  *)
(* was opened in the flush of setLocked, under the same condition and also  *)
(* when disks are swapped.                                                  *)
THEOREM RawIsAlone ==
  ASSUME Patient
  PROVE  Spec => []RawAlone
<1>1. DialogInv => RawAlone
  <2>  SUFFICES ASSUME DialogInv, NEW d \in Dialogs, dialog[d].at = "raw"
                PROVE  /\ io.locked /\ vols[dialog[d].vol].fs = "none"
                       /\ \A h \in Handles :
                            ctx[h].vol = dialog[d].vol /\ ctx[h].dev \in {mgr.adf, mgr.fat}
                              => ctx[h].late
    BY DEF RawAlone
  <2>1. dialog[d].vol \in DOMAIN vols /\ dialog[d].vol # 0
    BY AloneWorks DEF DialogInv, DeviceInv, TypeOK
  <2>2. io.locked /\ vols[dialog[d].vol].fs = "none"
    BY <2>1 DEF DialogInv, LockOK, AwayOK, Holding, Took
  <2>3. QED
    BY <2>1, <2>2 DEF DialogInv, OpenOK
<1>2. QED
  BY <1>1, DialogInvAlways, PTL
-----------------------------------------------------------------------------
(***************************************************************************)
(* The disk in the drive.  If no disk is taken out before the timer has seen *)
(* it, nor another put in before the removal was dealt with, the devices    *)
(* that have a file system are for the disk in the drive.                   *)
(***************************************************************************)
Orderly == Patient /\ "swaps" \notin Allow

Wrote == \E d \in Dialogs : /\ dialog[d].at \in {"unlock", "restore"}
                            /\ dialog[d].job \in {"format", "toDisk"}
                            /\ vols[dialog[d].vol].temp
Cleaning == \E d \in Dialogs : dialog[d].job = "clean" /\ Took(d)
DriveOK ==
  /\ drive.kind = "none" <=> drive = NoDisk
  /\ drive # NoDisk /\ ~Wrote =>
       \A dev \in {mgr.adf, mgr.fat} : dev.found => dev.disk = drive.n
  /\ drive = NoDisk /\ ~io.present /\ inbox = <<>> /\ ~Cleaning =>
       ~mgr.adf.found /\ ~mgr.fat.found
  /\ ~io.fsid => \E d \in Dialogs : dialog[d].job = "clean" /\ dialog[d].at = "raw"
DriveInv == DialogInv /\ DriveOK

LEMMA DriveInvInit == Init => DriveInv
<1>  SUFFICES ASSUME Init PROVE DriveInv
  OBVIOUS
<1>1. DialogInv /\ drive = NoDisk /\ mgr = NoDevices /\ io.fsid
  BY DialogInvInit DEF Init
<1>2. NoDisk.kind = "none" /\ ~mgr.adf.found /\ ~mgr.fat.found
  BY <1>1, NoDeviceTyped DEF NoDisk, NoDevices
<1>3. QED
  BY <1>1, <1>2 DEF DriveInv, DriveOK

(* The steps of nobody's dialog.                                             *)
LEMMA DriveEnvironment ==
  ASSUME Orderly, DriveInv,
         \/ InsertDisk \/ RemoveDisk \/ NoticeDisk \/ Joined \/ Tick \/ StopVolume
         \/ UNCHANGED vars
  PROVE  DriveOK'
<1>1. TypeOK /\ DialogInv /\ DriveOK /\ NoDisk.kind = "none"
  BY DEF DriveInv, DialogInv, DeviceInv, NoDisk
<1>2. UNCHANGED <<mgr, dialog, vols>> /\ io'.fsid = io.fsid
  BY <1>1 DEF InsertDisk, RemoveDisk, NoticeDisk, Joined, Tick, StopVolume, vars, TypeOK
<1>3. Wrote' = Wrote /\ Cleaning' = Cleaning
  BY <1>2 DEF Wrote, Cleaning, Took
<1>4. CASE InsertDisk
  <2>1. pump = "idle" /\ inbox = <<>> /\ drive = NoDisk /\ ~io.present /\ drive'.kind \in Kinds
    BY <1>4 DEF InsertDisk, Unhurried, Orderly
  <2>2. ~Cleaning
    BY <1>1, <2>1 DEF DialogInv, DialogOK, Working, Took, Cleaning
  <2>3. ~mgr.adf.found /\ ~mgr.fat.found /\ drive'.kind # "none"
    BY <1>1, <2>1, <2>2 DEF DriveOK, Kinds
  <2>4. drive' # NoDisk
    BY <1>1, <2>3
  <2>5. QED
    BY <1>1, <1>2, <1>3, <2>3, <2>4 DEF DriveOK
<1>5. CASE RemoveDisk
  BY <1>1, <1>2, <1>3, <1>5 DEF RemoveDisk, Seen, Orderly, DriveOK
<1>6. CASE NoticeDisk
  <2>1. drive = NoDisk /\ inbox' = <<>> => ~io.fsid
    BY SMTT(60), <1>1, <1>6 DEF NoticeDisk, TriggerRemount, TypeOK
  <2>2. ~io.fsid => Cleaning
    BY <1>1 DEF DriveOK, Cleaning, Took
  <2>3. UNCHANGED drive
    BY <1>6 DEF NoticeDisk
  <2>4. QED
    BY <1>1, <1>2, <1>3, <2>1, <2>2, <2>3 DEF DriveOK
<1>7. CASE Joined \/ Tick \/ StopVolume \/ UNCHANGED vars
  BY <1>1, <1>2, <1>3, <1>7 DEF Joined, Tick, StopVolume, vars, DriveOK
<1>8. QED
  BY <1>4, <1>5, <1>6, <1>7

LEMMA DriveWindow ==
  ASSUME Orderly, DriveInv,
         \/ DiskGone \/ DiskCame \/ Eject
         \/ \E job \in Jobs, v \in 1 .. 2 : Request(job, v)
  PROVE  DriveOK'
<1>1. /\ TypeOK /\ DialogInv /\ DriveOK /\ UNCHANGED <<drive, io>>
      /\ \A d \in Dialogs : dialog[d].at = "closed"
  BY DEF DriveInv, DialogInv, DeviceInv, DiskGone, DiskCame, Eject, Request, Takes, Orderly, Patient,
     Alive
<1>2. io.fsid /\ ~Wrote /\ ~Cleaning
  BY <1>1 DEF DriveOK, Wrote, Cleaning, Took
<1>3. CASE DiskGone
  BY <1>1, <1>2, <1>3, NoDeviceTyped DEF DiskGone, NoDevices, DriveOK
<1>4. CASE DiskCame
  <2>1. mgr' = Opened(Head(inbox).type)
    BY <1>4 DEF DiskCame
  <2>2. /\ mgr'.adf.found => mgr'.adf.disk = drive.n
        /\ mgr'.fat.found => mgr'.fat.disk = drive.n
        /\ drive = NoDisk => ~mgr'.adf.found /\ ~mgr'.fat.found
    BY <1>1, <2>1, OpenedEffect DEF DriveOK
  <2>3. QED
    BY <1>1, <1>2, <2>2 DEF DriveOK
<1>5. CASE Eject \/ \E job \in Jobs, v \in 1 .. 2 : Request(job, v)
  BY ZenonT(60), <1>1, <1>2, <1>5 DEF Eject, Request, DriveOK
<1>6. QED
  BY <1>3, <1>4, <1>5

LEMMA DriveDialog ==
  ASSUME Orderly, DriveInv, NEW d \in Dialogs, Start(d) \/ Close(d) \/ Works(d)
  PROVE  DriveOK'
<1>  DEFINE v == dialog[d].vol
<1>1. /\ TypeOK /\ DialogInv /\ DriveOK /\ DeviceInv /\ dialog[d].at # "closed"
      /\ UNCHANGED inbox
  BY DEF DriveInv, DialogInv, DeviceInv, Start, Lock, Close, Works, NothingToFormat, TakeAway, Written,
     Ended, Unlock, Restore, At
<1>2. /\ \A e \in Dialogs : e # d => dialog[e].at = "closed"
      /\ v \in DOMAIN vols
  BY <1>1, AloneWorks
<1>3. /\ \A e \in Dialogs : e # d => dialog'[e] = dialog[e]
      /\ io.fsid \/ (dialog[d].job = "clean" /\ dialog[d].at = "raw")
  <2>1. \A e \in Dialogs : e # d => dialog'[e] = dialog[e]
    BY <1>1 DEF TypeOK, Start, Lock, Close, Works, NothingToFormat, TakeAway, Written, Ended, Unlock,
       Restore, Closes, Goes
  <2>2. QED
    BY <1>1, <1>2, <2>1 DEF DriveOK
<1>4. /\ Wrote <=> /\ dialog[d].at \in {"unlock", "restore"}
                   /\ dialog[d].job \in {"format", "toDisk"} /\ vols[v].temp
      /\ Cleaning <=> dialog[d].job = "clean" /\ Took(d)
  BY <1>2 DEF Wrote, Cleaning, Took
<1>5. /\ Wrote' <=> /\ dialog'[d].at \in {"unlock", "restore"}
                    /\ dialog'[d].job \in {"format", "toDisk"} /\ vols'[dialog'[d].vol].temp
      /\ Cleaning' <=> dialog'[d].job = "clean" /\ Took(d)'
  BY <1>2, <1>3 DEF Wrote, Cleaning, Took
<1>6. CASE Start(d) \/ Lock(d) \/ Close(d)
  <2>1. dialog[d].at \in {"open", "flush"} /\ dialog'[d].at \in {"flush", "locked", "closed"}
        /\ io'.fsid = io.fsid /\ io'.present = io.present /\ UNCHANGED <<drive, mgr>>
    BY SMTT(60), <1>1, <1>6 DEF Start, Lock, Close, At, Closes, Goes, Closed, TypeOK
  <2>2. QED
    BY <1>1, <1>3, <1>4, <1>5, <2>1 DEF DriveOK, Took
<1>7. CASE NothingToFormat(d)
  <2>1. /\ dialog[d].at = "locked" /\ dialog[d].job = "format"
        /\ dialog'[d].at = "unlock" /\ dialog'[d].job = "format" /\ dialog'[d].vol = v
        /\ UNCHANGED <<drive, io, mgr, vols>>
    BY <1>1, <1>7 DEF NothingToFormat, At, Goes, TypeOK
  <2>2. ~vols[v].temp
    BY <1>1, <1>2, <2>1 DEF DialogInv, AwayOK, Took
  <2>3. QED
    BY <1>1, <1>3, <1>4, <1>5, <2>1, <2>2 DEF DriveOK, Took
<1>8. CASE TakeAway(d)
  <2>1. /\ dialog[d].at = "locked" /\ dialog'[d].at = "raw" /\ dialog'[d].job = dialog[d].job
        /\ UNCHANGED <<drive, mgr>> /\ io'.present = io.present
        /\ io'.fsid = (dialog[d].job # "clean")
    BY <1>1, <1>8 DEF TakeAway, At, Goes, TypeOK
  <2>2. QED
    BY <1>1, <1>4, <1>5, <2>1 DEF DriveOK, Took
<1>9. CASE Written(d)
  <2>1. /\ dialog[d].at = "raw" /\ dialog'[d].at = "unlock" /\ dialog'[d].job = dialog[d].job
        /\ dialog[d].job \in {"format", "toDisk"} /\ dialog'[d].vol = v
        /\ drive'.kind \in Kinds /\ UNCHANGED <<mgr, vols>> /\ io'.fsid = io.fsid
    BY <1>1, <1>9 DEF Written, At, Goes, TriggerNewDiskMount, TypeOK
  <2>2. vols[v].temp
    BY <1>1, <2>1 DEF DialogInv, AwayOK, Took
  <2>3. drive'.kind # "none" /\ drive' # NoDisk
    BY <2>1 DEF Kinds, NoDisk
  <2>4. QED
    BY <1>3, <1>5, <2>1, <2>2, <2>3 DEF DriveOK
<1>10. CASE Ended(d)
  <2>1. /\ dialog[d].at = "raw" /\ dialog'[d].at = "unlock" /\ dialog'[d].job = dialog[d].job
        /\ UNCHANGED <<drive, mgr>> /\ io'.present = io.present /\ io'.fsid
    BY <1>1, <1>10 DEF Ended, At, Goes, TypeOK
  <2>2. QED
    BY <1>1, <1>4, <1>5, <2>1 DEF DriveOK, Took
<1>11. CASE Unlock(d)
  <2>1. /\ dialog[d].at = "unlock" /\ dialog'[d].at = "restore" /\ dialog'[d].job = dialog[d].job
        /\ UNCHANGED <<drive, mgr, vols>> /\ io'.present = io.present /\ io'.fsid = io.fsid
        /\ dialog'[d].vol = v
    BY <1>1, <1>11 DEF Unlock, At, Goes, TypeOK
  <2>2. QED
    BY <1>1, <1>3, <1>4, <1>5, <2>1 DEF DriveOK, Took
<1>12. CASE Restore(d)
  <2>1. /\ dialog[d].at = "restore" /\ dialog'[d].at \in {"open", "closed"}
        /\ UNCHANGED drive /\ io'.fsid = io.fsid
        /\ dialog[d].job # "clean" => UNCHANGED io
    BY <1>1, <1>12 DEF Restore, At, Closed, TriggerNewDiskMount, TypeOK
  <2>2. ~vols[v].temp => dialog[d].job = "format"
    BY <1>1, <2>1 DEF DialogInv, AwayOK, Took
  <2>3. CASE mgr' = NoDevices
    BY <1>1, <1>3, <2>1, <2>3, NoDeviceTyped DEF DriveOK, NoDevices
  <2>4. CASE UNCHANGED mgr /\ (~vols[v].temp \/ dialog[d].job = "backup")
    BY <1>1, <1>3, <1>4, <1>5, <2>1, <2>2, <2>4 DEF DriveOK, Took
  <2>5. QED
    BY <1>1, <1>12, <2>3, <2>4, RestoreStep
<1>13. QED
  BY <1>6, <1>7, <1>8, <1>9, <1>10, <1>11, <1>12 DEF Works

LEMMA DriveHandle ==
  ASSUME Orderly, DriveInv, NEW h \in Handles,
         CloseFile(h) \/ \E v \in 1 .. 2 : OpenFile(h, v)
  PROVE  DriveOK'
<1>1. TypeOK /\ DialogInv /\ DriveOK /\ UNCHANGED <<drive, io, inbox, mgr, dialog>>
  BY DEF DriveInv, DialogInv, DeviceInv, CloseFile, OpenFile
<1>2. \A u \in DOMAIN vols : vols[u] \in Volume
  BY <1>1 DEF TypeOK
<1>3. \A u \in DOMAIN vols : vols'[u].temp = vols[u].temp
  <2>1. ASSUME NEW u \in DOMAIN vols PROVE vols'[u].temp = vols[u].temp
    <3>1. vols'[u] = vols[u] \/ \E S : vols'[u] = [vols[u] EXCEPT !.inUse = S]
      BY <1>1, OpenFileStep, CloseFileStep DEF DialogInv
    <3>2. vols[u] \in Volume
      BY <1>2
    <3>3. CASE \E S : vols'[u] = [vols[u] EXCEPT !.inUse = S]
      <4>1. PICK S : vols'[u] = [vols[u] EXCEPT !.inUse = S]
        BY <3>3
      <4>2. QED
        BY <3>2, <4>1, InUseSet
    <3>4. QED
      BY <3>1, <3>3
  <2>2. QED
    BY <2>1
<1>4. \A d \in Dialogs : dialog[d].at # "closed" => dialog[d].vol \in DOMAIN vols
  BY <1>1 DEF DialogInv, DialogOK, Alive
<1>5. Wrote' = Wrote /\ Cleaning' = Cleaning
  BY <1>1, <1>3, <1>4 DEF Wrote, Cleaning, Took
<1>6. QED
  BY <1>1, <1>5 DEF DriveOK

LEMMA DriveInvAlways ==
  ASSUME Orderly
  PROVE  Spec => []DriveInv
<1>1. DriveInv /\ [Next]_vars => DriveInv'
  <2>  SUFFICES ASSUME DriveInv, [Next]_vars PROVE DriveInv'
    OBVIOUS
  <2>1. DialogInv'
    BY DialogInvStep DEF DriveInv, Orderly
  <2>2. DriveOK'
    BY DriveEnvironment, DriveWindow, DriveDialog, DriveHandle DEF Next, Window
  <2>3. QED
    BY <2>1, <2>2 DEF DriveInv
<1>2. QED
  BY <1>1, DriveInvInit, PTL DEF Spec

(* A call that is let through meets the file system of the disk in the drive, *)
(* if disks are changed no faster than the changes are dealt with.          *)
THEOREM CallsReachHome ==
  ASSUME Orderly
  PROVE  Spec => []CallsGoHome
<1>1. DriveInv => CallsGoHome
  <2>  SUFFICES ASSUME DriveInv, NEW v \in DOMAIN vols, Passes(v), drive # NoDisk,
                       \A d \in Dialogs : dialog[d].at # "restore"
                PROVE  DeviceOf(vols[v]).disk = drive.n
    BY DEF CallsGoHome
  <2>1. DialogInv /\ DeviceInv /\ DriveOK /\ Ready(vols[v]) /\ ~io.locked
    BY DEF DriveInv, DialogInv, Passes
  <2>2. ~Wrote
    BY <2>1 DEF Wrote, DialogInv, LockOK, Holding
  <2>3. DeviceOf(vols[v]).found /\ DeviceOf(vols[v]) \in {NoDevice, mgr.adf, mgr.fat}
    BY <2>1 DEF DeviceInv, VolumesOK, Sound, DeviceOf
  <2>4. QED
    BY <2>1, <2>2, <2>3, NoDeviceTyped DEF DriveOK
<1>2. QED
  BY <1>1, DriveInvAlways, PTL

=============================================================================
