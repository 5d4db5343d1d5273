# DiskFlashback, modelled

DiskFlashback mounts Amiga, Atari ST and PC floppy disks, and images of floppy and hard disks, as
Windows drives. This directory holds TLA+ models of the parts of it where the order of events
matters, the TLC configurations that check them, and TLAPS proofs about seven of the models. All
paths below are relative to `src/`.

Contents: [the system](#1-the-system) · [the modules](#2-the-modules) ·
[what the runs show](#3-what-the-runs-show) · [bounds](#4-bounds) · [fairness](#5-fairness) ·
[proofs](#6-proofs) · [where the code goes wrong](#7-where-the-code-goes-wrong) ·
[not modelled](#8-what-is-not-modelled) · [plan](#9-plan)

## 1. The system

```
 programs ──> Dokan driver ──> DokanInterface ──> Amiga | FAT | PFS3 operations ──> ADFlib | FatFs | PFS3lib
                                 (gate)              (open-file tables)                     │ sectors
 tray menu, dialogs ──> VolumeManager ──> MountedVolume ─────────────────────────> SectorCacheEngine
                        (disk changes,     (lock, mount)                        ┌──────────┴──────────┐
                         eject, requests)                                 image files           SectorCacheMFM
                                                                      (raw, MSA, DMS, SCP)    (tracks) ──> FloppyBridge
```

| Component | State it keeps | Operations | Reached through |
|---|---|---|---|
| `SectorCacheEngine` (adf/sectorCache.cpp) and raw images (adf/readwrite_file.cpp) | `m_cache`: sector → buffer and time of use; the image file | `readData`, `hybridReadData`, `writeData`, `resetCache`, `closeSectorFile` | calls of the file systems and of `MountedVolume` |
| `SectorCacheMFM` (adf/mfminterface.cpp) | `m_trackCache`, `m_tracksToFlush`, `m_mfmBuffer`, `m_diskType`, `m_diskInDrive`, `m_motorTurnOnTime`, `m_blockWriting`, `m_ignoreErrors`, `m_alwaysIgnore`, `m_writeOnly`, two locks | `internalReadData`, `internalWriteData`, `flushPendingWrites`, `motorMonitor` (timer), `identifyFileSystem`, `overwriteSectorSettings`, `createBlankSectors` | base class; timer queue; callback `m_diskChangeCallback` |
| FloppyBridge drive (adf/readwrite_floppybridge.cpp) | the bridge object, the disk in it | present?, read, write, motor | `SectorCacheMFM` |
| Volumes and drive manager (adf/MountedVolume.cpp, MountedVolumes.cpp) | mounted volumes and the devices behind them, lock flag, message queue, threads | `diskChanged`, mount, unmount, `setLocked`, eject, remote requests, `checkRunningFileSystems` | windows messages, callbacks |
| Format, copy and clean dialogs (adf/dlg*.cpp) | progress, abort flag, worker thread | lock, take the volume away, write the whole disk, unlock, restore | `MountedVolume`, `SectorCacheMFM` |
| Dokan interface (adf/dokaninterface.cpp) | `m_activeFileSystem`, use count | dispatch, `fs_checkVolume`, `stop` | Dokan driver |
| Amiga, FAT and PFS3 operations (adf/\*_operations.cpp) | `m_inUse`: the open files | create, open, read, write, resize, delete, move, attributes, cleanup | Dokan interface |
| ADFlib (ADFlib/src) | directories as hash tables, files as lists of blocks; handles with copies of the header, one extension block, one data block | `adfFileRead`, `adfFileWrite`, `adfFileTruncate`, `adfCreateEntry`, … | Amiga operations |
| FatFs (fatfs/source) | allocation table, directory tables, free count; a `FIL` with its copy of the entry | `f_open`, `f_write`, `f_lseek`, `f_unlink`, `f_rename`, … | FAT operations |
| PFS3lib | packed directory blocks, anode chains, bitmap, blocks waiting to be freed, cached blocks with old and new place, list of open files and locks | `Createfile`, `Writefile`, `Movefile`, `FreeBlocksAC`, `UpdateDisk`, … | PFS3 operations |
| Track codecs (adf/amiga_sectors.cpp, adf/ibm_sectors.cpp) | none | decode a pass and keep the better copy of each sector; encode | `SectorCacheMFM` |
| MSA, DMS, SCP images, PLL, xDMS | decoded tracks | decode | `SectorCacheEngine` |
| Tray application, menus, settings, installer | windows | user interface | — |

What is hard about it:

* **Write-back behind the programs' backs.** A write to a real floppy only reaches
  `m_trackCache`; 2 s after the last access a timer thread writes whole tracks, reading first
  what it does not have of each. In between the user may pull the disk out, put in another,
  or start a format; the write may time out or verify wrongly; message boxes stop everything with
  the lock held. A wrong turn loses a file, wipes sectors nobody wrote to, or writes to a disk that
  is not the one the data is for.
* **Caches in front of files.** Every read may come from `m_cache`: each path that changes the file
  or fails to must leave the cache telling the truth.
* **Open files.** Three tables of open files, keyed by block, by path and by lock, over three
  libraries whose handles remember where a file is: header blocks that are written back whole (ADFlib),
  start clusters and sizes (FatFs), addresses in packed blocks (PFS3). Whatever else moves things on
  the disk has to leave those memories true.
* **Space.** Files grow in the middle of a write until the disk is full; what was taken by the call that
  failed must not be lost, and what is freed must not be used again too soon.
* **Crashes.** PFS3 promises that a volume is whole whenever the drive goes away.
* **Lifetimes.** Volumes are mounted, locked, taken away and deleted by the message window, by the
  threads of dialogs and by threads that stop a volume.

## 2. The modules

| Module | Models | State | Actions |
|---|---|---|---|
| `SectorStore` | abstract: what a cached image promises | contents, suspect sectors, last reply | read, write, fail |
| `SectorCache` | `SectorCacheEngine` over `SectorRW_File` | `file`, `cache` (`m_cache`), `now` | one per call and outcome: `ReadHit`, `ReadMiss`, `HybridRead`, `ReadFails`, `Write`, `WriteSeekFails`, `WriteFails`, … |
| `SectorCache_proofs` | its theorems | | |
| `MfmCache` | `SectorCacheMFM` on a drive, with the dialogs, the timer and the user | drive, cache, flags, flush in progress, threads | 50 steps, in the groups below |
| `MfmCache_proofs` | its theorems | | |
| `Volumes` | `VolumeManager`, `MountedVolume`, the gate of `DokanInterface`, the dialogs, on a floppy drive | `drive`, `io`, `inbox`, `pump`, `mgr`, `vols`, `stopping`, `dialog`, `ctx` | one per message, callback, call, and step of a dialog |
| `Volumes_proofs` | its theorems | | |
| `FlatDirectory` | abstract: what a directory promises to programs | `dir`, `opened` | `Open`, `Create`, `Close`, `CloseAndDelete`, `Delete`, `Rename` |
| `AmigaFiles` | `DokanFileSystemAmigaFS` over ADFlib directories and file handles | `disk` (hash table, header blocks, bitmap), `obj` (file objects and their handles) | one per callback |
| `AmigaFiles_proofs` | its theorems | | |
| `AmigaBlocks` | the data of Amiga files: ADFlib's file functions, as the callbacks use them | `disk`, `used`, `head`, `open` (the handles) | one per callback that reads, writes or resizes |
| `FileTable` | abstract: paths, sizes and who has what open | `table`, `own` | open, resize, publish, close, remove, move, make a directory |
| `FatVolume` | FatFs on a volume, as operators | a volume `v`, a `FIL` `f` | — |
| `FatFiles` | `DokanFileSystemFATFS` over `FatVolume` | `vol`, `inUse` (`m_inUse`), `obj` | one per callback |
| `PfsFiles` | `DokanFileSystemAmigaPFS3` over directories, open files and locks of PFS3lib | `g` (the library's globals), `inUse`, `path` | one per callback |
| `PfsFiles_proofs` | its theorems | | |
| `PfsTable_proofs` | that it implements `FileTable` | | |
| `PfsBlocks` | allocation, postponed operations, mounting, crashes | `vol`, `disk` (the committed version) | one per call of the library, `Crash`, `Mount` |
| `PfsBlocks_proofs` | its theorems | | |
| `AtomicVolume` | abstract: a version that changes in one step | `now`, `saved` | `Change`, `Commit`, `Crash` |
| `PfsCommit` | the steps of `UpdateDisk`, and the block cache | `vol`, `disk` (the reserved area), `root` | `Change`, `Evict`, `EvictFails`, `BeginUpdate`, `WriteBlock`, `WriteFails`, `WriteRoot`, `RootFails`, `Crash`, `Mount` |
| `PfsCommit_proofs` | its theorems | | |
| `MC…` | values, symmetries and views for TLC | | |

How they meet: `PfsFiles`, `PfsBlocks` and `PfsCommit` are three levels of one library. `PfsFiles` has
directory entries and counts blocks; in `PfsBlocks` a call takes and frees blocks one by one, and
`UpdateDisk` is a single step; `PfsCommit` takes that step apart and shows that it may be seen as one
(`AtomicVolume`). In the same way `AmigaFiles` has the directory and the headers, `AmigaBlocks` what is
behind a header. `Volumes` is about which file system a call meets, not what it does there.
`FatFiles` and `PfsFiles` implement the same `FileTable`.

**SectorCache.** `writeData` writes the file first and the cache after; `readData` fills the cache on
a miss; `writeCache` evicts when the map is over `m_maxCacheEntries`. `WritePos` is the 32-bit
product with which `internalWriteData` seeks; `Reach` stands for the number of sectors in 2 GiB, so
that 2·`Reach` sectors is where it wraps round. Reads use 64 bits. `SectorStore` is the specification: a
successful read returns what the last successful write stored, except for a sector whose last write
failed.

**MfmCache.** A sector is a cell of data with or without errors; disks come filled with their own
name, so that data on the wrong disk is recognised. `m_multithreadLock` lets one client in, so one
`client` thread stands for all; `timer` is `motorMonitor`; `app` is a dialog. Each has a program
counter, and `lock` is `m_motorTimerProtect`. The groups of actions:

* `DriveStep` — the user removes or inserts a disk;
* `FlushStep` — `flushPendingWrites`, one action for each stretch between points where the drive or
  the user can change something: completing a track, `mfmWrite`, its time-out and the answers to the box,
  verification, giving up, the disk-removed warning;
* `ClientRequest`, `ClientStep` — `internalWriteData` with its checks before the lock, the forced
  flush at `FORCE_FLUSH_AT_TRACKS`; `readDataAllFS` with its retries and its box;
* `TimerStep` — the idle flush, the look at the drive, disk gone or changed, the callback, and
  `identifyFileSystem`;
* `AppStep` — `setLocked` (the flush, and only then the flag: calls get in until it is up), format, copy and clean, finished or aborted,
  `triggerNewDiskMount`.

`Faults` names what may go wrong in a run. `home` (the disk the timer last saw), `owed` (writes
accepted and not yet given up before the user's eyes) and `blanked` (`createBlankSectors` filled the
cache) are history: they are read by properties only. The model assumes
one dialog session at a time, although `setLocked(true)` does not test whether it is locked already.

**Volumes.** A disk is a number and a kind (Amiga, PC, both, unreadable); writing it from end to end
makes it another one. A device (`AdfDevice`, `FATFS`) has an identity and the number of the disk it was
opened for; `mgr` has the manager's two, a volume has pointers to them, and a file object (`ctx`) remembers on
which it was opened. `io` is what the drive's object knows: `m_diskInDrive`, `m_isLocked`,
`m_fileSystemID`. The message window takes one message at a time (`pump`); in `WM_TIMER` it joins the
threads of its dialogs and of volumes that stop, and takes none in the meantime. A dialog goes through
`open`, `flush` (`setLocked` has found no open file, and flushes), `locked`, `raw` (it reads or writes the disk), `unlock`,
`restore`. Programs are let through during the flush: what they open then is `late`, and the run has such
files (`late` in its `Allow`). The rest of `Allow` names orders of events the run leaves out, each of which the code does not survive (§7).

**AmigaFiles.** One directory with its hash table; the entries of a bucket are chained by
`nextSameHash` in their header blocks. `Found` is `adfNameToEntryBlk`, `Linked` the append in
`adfCreateEntry`, `Unlinked` the removal in `adfRemoveEntry` and `adfRenameEntry`, `Flushed` is
`adfFileFlush`. A file object holds what Windows knows (name, DELETE access, delete on close) and the
`AdfFile` handle with its copy of the header. Dokan runs the callbacks of a volume on a single thread,
so each is one action, and a call that is refused is no step. What the driver does before it calls the
program is an assumption, marked external in the map: names with a delete pending cannot be opened,
share modes keep those who delete and those who use a file apart (unless `DeleteOpen`), and a
delete needs DELETE access. `Quiet` says that no bucket changes while another of its files is
open for writing, so that no handle's copy of a header gets stale (§7 has what a stale one does, and what happens with
`DeleteOpen`). Free blocks keep their old headers, as on the disk.

**AmigaBlocks.** A block is a record that can be a header, an extension block or a data block. A
handle has the position in four forms, as `struct AdfFile` does: `pos`, `n` (`nDataBlock`), `inExt`
(`posInExtBlk`) and `inData`, with the two blocks in memory and whether they are changed. A call is an
operator from a record of the blocks, the bitmap and the handle to another, and an action runs one call. Where a
call runs into one of the situations of `Trouble` (the code goes wrong there, §7) or `Undefined`, it notes
so in `hit`, and `Ends` lets it happen only as far as `Allow` does. `file` is history: the contents as
programs know them.

**FatVolume, FatFiles.** The FAT is a function from clusters to the next; the directory entries are
functions of places, the pieces of long names among them; a `FIL` is a record with the start
cluster, the size, the position with its cluster, and the place of its entry. Every FatFs function the callbacks use is
an operator that returns the volume, the `FIL` and a result, with the paths on which it gives up half way
(`f_write` on a full disk, `f_mkdir` without room for the entry, `f_expand` without a gap). In `FatFiles` `inUse`
is `m_inUse`, a map from path to "for writing". `ReadsAlone` is about programs: no second one opens for reading what
one has open for reading. Whatever else they try to open beside each other is for `isFileInUse` to refuse.

**PfsFiles.** A directory is a sequence of entries; removing one moves those behind it, and an open file has
the address of its entry, which `UpdateChangedRef` has to keep right. `locks` are the list entries of
`NewDir`. **PfsBlocks** has `clean_blocksfree`, `alloc_available`, `tobefreed` and the postponed
operation (`tobedone`); `past` is the versions a call has committed so far, any of which a crash in
that call may leave. **PfsCommit** has one block of each kind of the reserved area, its old place and its new one. Every write may fail: one of an update
(`WriteFails`), of the cache (`EvictFails`, which drops the block all the same), of the root (`RootFails`, of which nobody takes
notice). `failed` says which have, and `Allow` after which of them operations go on; `lost` is what the cache has dropped unwritten.

## 3. What the runs show

| Run | States | Shows |
|---|---|---|
| `sector_cache` | 42 816 | With reads, writes and seeks failing at will: a cached sector equals the file unless its last write failed (`Coherent`); at most `m_maxCacheEntries`+1 sectors are cached (`CapacityBound`); only a least recently used one is evicted (`EvictsOldest`); the whole is a plain store (`ImplementsStore`); `TypeOK`. |
| `mfm_stall` | 290 236 | Writes that time out, two disks changing places, one dialog session: `CleanMeansWritten`, `NoWriteLost`, `NeighboursKept`. |
| `mfm_yank` | 82 114 | The disk is pulled out while writes are pending: `OnlyHomeWritten`, and the liveness property `EventuallyFlushed`. |
| `mfm_faults` | 434 708 | Everything that can go wrong together: `TypeOK` (with the lock discipline) and `AbortStopsWriting`. |
| `volumes` | 229 902 | Disks of four kinds come and go, dialogs of all kinds, one program, which may open a file while `setLocked` flushes: `DevicesLive`, `RawAlone`, `CallsGoHome`, and the liveness property `EventuallyShown`. |
| `amiga_files` | 48 735 | Two file objects, chains of up to two entries, delete on close, renames, reused blocks: `TypeOK`, `WritersExclusive`, `OpenFilesKept`, `EntriesReachable`, `ImplementsDirectory`. |
| `amiga_blocks` | 30 925 | A file of up to two extension blocks and a small one, OFS and FFS, until the volume is full: `BlocksAccounted`, `ChainsAgree`, `ContentsKept`. |
| `amiga_truncate` | — | Expected to fail: `NoHoles` is violated by a file that is emptied and written again (§7). |
| `fat_files` | 81 920 | Two file objects, a root directory of three entries, three clusters: `ClustersAccounted`, `LongNamesWhole`, `HandlesCurrent`, `WritersAlone`, `ImplementsFileTable`. |
| `pfs_files` | 17 723 | Two file objects, a directory, three anodes, two blocks: `OneEntryEach`, `ReferencesCurrent`, `OffsetsInside`, `WritersAlone`, `ImplementsFileTable`. |
| `pfs_blocks` | 4 316 | Two files, four blocks, updates in the middle of calls, crashes between calls and in them: `BlocksAccounted`, `CountsExact`, `CommittedIntact`, `ClosedSurvives`. |
| `pfs_commit` | 388 835 | Two updates, two evictions, any write fails, a crash anywhere: `ReservedAccounted`, `ImplementsAtomicVolume`. |

The properties that need a word:

* `CleanMeansWritten` — a sector the cache calls good, on a track that is not pending, is the sector
  on the disk: a later read will not lie.
* `NoWriteLost` — an accepted write is on the disk, or cached with its track pending, until a message
  box has told the user otherwise.
* `NeighboursKept` — rewriting a track leaves its other sectors alone.
* `OnlyHomeWritten` — only the disk the timer last saw is written, and of it only pending tracks with a write
  accepted for them.
* `AbortStopsWriting` — after Abort nothing is written until the motor has stopped.
* `EventuallyFlushed` — what is pending does not stay in memory for ever.
* `DevicesLive` — no volume has a pointer to a device that was closed or freed, and what it counts as in
  use was opened on the file system it has now; no dialog has a volume that was deleted.
* `RawAlone` — while a dialog reads or writes the disk as a whole, programs are locked out, and nobody
  has a file open on it that was open when the dialog asked for open files. One that was opened between that and the lock is excepted:
  the code does not keep it out (`LockRefused`, §7).
* `CallsGoHome` — a call that is let through meets the file system of the disk in the drive.
* `EventuallyShown` — a disk that stays in the drive is mounted in the end, also if it came or was
  written while a dialog was open; unless the last dialog has left the drive locked (`LeftLocked`), as `setLocked(false)` refuses while a
  file is open that was opened during the flush of `setLocked(true)`. Without such files (`Allow` = {}) TLC finds that this never happens.
* `WritersExclusive`, `WritersAlone` — a file open for writing is open nowhere else.
* `OpenFilesKept`, `HandlesCurrent`, `ReferencesCurrent` — what a handle remembers of its file's entry is true:
  the entry is there, under the name the program uses, at the place the handle writes to.
* `EntriesReachable`, `OneEntryEach`, `LongNamesWhole` — directories: every file in use is found, once, by its name. For
  `EntriesReachable` this depends on `Quiet`; `FlushKeepsDirectory` says what is lost without it.
* `ClustersAccounted`, `BlocksAccounted`, `ReservedAccounted` — nothing is used twice, nothing is lost, and
  every file has as many blocks as its size says; after failed calls too.
* `ChainsAgree` — the two ways to the data of an OFS file, from block to block and by the lists, agree.
* `ContentsKept` — what was written is what is read, by the program that has the file open and by one
  that opens it.
* `CommittedIntact` — nothing of the version on the disk is written over before the next one is there.
* `ClosedSurvives` — what a file was when it was closed is what a crash leaves of it.
* `ImplementsDirectory`, `ImplementsFileTable`, `ImplementsAtomicVolume`, `ImplementsStore` — the detailed
  specification, seen through a refinement mapping, takes only steps of the abstract one.

Each property has a mutant, an operator defined next to the one it replaces, that breaks it: the
property would notice that mistake in the code.

## 4. Bounds

* `sector_cache`: 3 sectors, 2 contents, `m_maxCacheEntries` 1, 4 ticks of the clock. With 2 sectors
  cached and a third asked for, eviction, hits, misses and ties of `lastUse` all occur. `Reach` 2 puts
  the third sector beyond the signed 32-bit offset, so seeks fail, without wrapping.
* `MfmCache`: 2 tracks of 2 sectors. Two tracks are needed for a flush that fails half way, two sectors
  for a track that must be completed from the disk and for neighbours. `FORCE_FLUSH_AT_TRACKS` and
  `MAX_RETRIES` are 2 instead of 10; both are compared and counted, never used otherwise. Two disks
  suffice to confuse them. The number of client requests (2 or 3), removals (1 or 2) and dialog
  sessions (0 or 1) is bounded by counters in the guards (`MaxRequests`, `MaxRemovals`, `MaxSessions`). The
  system comes to rest when they are used
  up, so deadlock is not checked in these runs. `mfm_faults` with 2 requests and a session as well
  has 12.7 million states and no error; it is kept smaller for time.
* `volumes`: `MaxInserts` 2 and `MaxRequests` 2 (counters in the guards): a disk after another one, and a
  dialog open while another one works. One handle is enough: a volume is in use or not, and a handle is
  stale or not. At most one FAT and one Amiga partition, as on a floppy disk.
* `AmigaFiles`: 3 names in 2 buckets (0 and 2 collide), 3 blocks, 2 file objects. A chain of two
  entries is what it takes for an entry to have a predecessor and a successor whose link can be stale;
  2 objects are enough for every conflict, as each conflict is between two. Blocks and objects are
  symmetric: no operator chooses among them except through `Chain`, `Hits` and the initial
  assignment, whose choice is unique.
* `AmigaBlocks`: blocks of `B` = 2 units, lists of `M` = 2 blocks (72 in the code), `N` = 8 blocks. The large
  file may have 9 units: five data blocks, so that the header's list is full, a first extension block is full
  and a second one is begun; the small one has at most a block. Together they fill the volume. Calls
  move up to `MaxCall` = 2 units from every position, so that they begin and end within blocks, at their
  ends and across them. The code only moves units and never looks at them; following one marked unit
  at a time tells whether any is lost, doubled or misplaced. `View` identifies states that differ in which
  free blocks they use or in what nobody reads any more (see `MCAmigaBlocks`). `MaxOpen` is 1: handles
  share nothing but the bitmap. With `MaxOpen` 2 and sizes 5 and 3 the same properties hold. Deadlock is checked.
* `FatFiles`: three clusters of 2 sectors, root directory of 3 entries, 3 entries in a cluster, so that
  clusters and entries run out in every operation; `readme` takes two entries (a long name); two
  directories, to move between. `Ends` {0, 3} are the positions and sizes: inside the second cluster. Nobody opens
  for reading what another one reads, programs move with care, and grow by `Grants` {2}, one cluster (§7 has what happens otherwise).
* `PfsFiles`: two files in the root directory and one in `docs`; `Room` 2 blocks, anodes 6 to 8, so that
  both run out. Volumes start with and without the directory.
* `PfsBlocks`: 4 blocks, 2 files, `TbfSize` 3 instead of 256: `tobefreed` fills up in the middle of a
  call. `pressed` are the points in a call at which reserved blocks are few, which `PfsCommit` and not this module
  counts; all subsets of them are tried, also in the undoing of a growth that failed, which runs just when they are few, and in the
  mount that does what was postponed.
* `PfsCommit`: a block of each kind, two updates in a row and a third begun by operations, up to two evictions between
  updates. 14 places are enough, two for each block and one for each eviction, as the proof says (§6), and the run has one
  more; with 13 `ImplementsAtomicVolume` is violated. Which place is found follows the code's rover. `Changing` a directory block and a bitmap block changes, by way of their parents, every kind.

## 5. Fairness

`EventuallyFlushed` (`LiveSpec` of `MfmCache`): weak fairness of `FlushStep`, `ClientStep` and
`TimerStep`: threads that can run do run, the periodic timer of `CreateTimerQueueTimer` fires, and
a box that is shown is answered. Strong fairness of `ReadAborted`: the user who is asked again and
again whether to retry a read does not say Retry for ever; the box is closed and reopened between
answers, so weak fairness would not do. No fairness is assumed of the environment: nobody has to
put in a disk, ask for anything, or open a dialog. `FlushStep` includes the answers to its own boxes
under weak fairness only; that a write can be retried without end with the disk stalling
each time is why `mfm_yank`, and not `mfm_stall`, checks liveness.

`EventuallyShown` (`LiveSpec` of `Volumes`): weak fairness of `NoticeDisk` (the drive's timer), of `Window` (the
message loop: disk changes, `WM_TIMER` and the end of its joins), of `StopVolume` and of `Works(d)` (threads that
can run do run, the flush and lock of `setLocked` among them), and of `Close(d)`: whoever opens a dialog closes it some day. Nobody has to
insert a disk, ask for a dialog, or press Start.

## 6. Proofs

Checked by TLAPS for all values of the constants that satisfy the stated assumptions.

**SectorCache_proofs** (assumes `SizeAssumption`, `DataAssumption`, `BoundAssumption`):

| Theorem | Statement |
|---|---|
| `TypeCorrect` | `Spec => []TypeOK` |
| `CacheCoherent` | for `Size <= 2 * Reach` (4 GiB): `Spec => []Coherent` |
| `CacheBounded` | `Spec => []CapacityBound` |
| `EvictionCorrect` | `Spec => EvictsOldest` |
| `CacheImplementsStore` | for `Size <= 2 * Reach`: `Spec => ImplementsStore` |

`TypeOK /\ Coherent` is inductive. Lemma `WriteCacheEffect` says what `writeCache` does to the
sector stored and to all others, whether it evicts or not; `WritePosExact` that the 32-bit seek
position is the sector itself as long as it does not wrap. The assumption on `Size` is needed:
with `Reach` 1 in SectorCache.cfg TLC finds the counterexample without it. The refinement maps a call to the step of
`SectorStore` of the same name, and reads use coherence.

**AmigaFiles_proofs** (assumes the constants' assumptions, and in each theorem `Undisturbed`: `Quiet`, or no
two names share a bucket; `~DeleteOpen`; `Readable`: no file is protected against reading at mount time):

| Theorem | Statement |
|---|---|
| `TypeCorrect` | `Spec => []TypeOK` |
| `WritersAlone` | `Spec => []WritersExclusive` |
| `OpenFilesStay` | `Spec => []OpenFilesKept` |
| `NoFileLost` | `Spec => []EntriesReachable` |
| `AmigaFilesImplementDirectory` | `Spec => ImplementsDirectory` |

None of these properties is inductive. `Inv` adds: the directory is consistent (`DirectoryOK`: the links of
each bucket lead along a walk of used blocks with different names of that hash, each used block is on
the walk of its bucket, nothing is read-protected); every handle belongs to a used block that carries the
file object's name, in the block and in the copy, and the copy that a flush will write back has the
link the block has (`HandlesOK`); whoever has a handle is alone with its name among those who may delete
(`Apart`), and only they have delete-on-close set (`DeletersMay`).

Chains may have any length. `Chain` chooses a walk; `ChainUnique` shows that there is only one, since the first place where two of
them part cannot exist. `UnlinkedChain` and `LinkedChain` give the walk of a
bucket that lost an entry or got one at its end (`BucketFrom`), and that it is not longer than the volume has
blocks, as no block comes twice (pigeonhole); the other buckets stay (`BucketStays`). From these,
`CreatedEffect`, `RemovedEffect`, `RenamedEffect` and `HeaderEffect` say what ADFlib's operations do to `Found`
for every name and which links they move; then there is one lemma per callback, and a second one per callback
for the refinement. `BucketAlone` is where `Undisturbed` is used: nobody else writes in a bucket that changes, so
no copy gets stale. Without it TLC finds the file that is lost (§7): `NoFileLost` is about the links that creating,
deleting and renaming move, not about stale headers.

**MfmCache_proofs** (assumes the constants' assumptions: any number of disks, tracks and sectors, any
`FORCE_FLUSH_AT_TRACKS` and `MAX_RETRIES`; `Faults` says what may go wrong):

| Theorem | If | Statement |
|---|---|---|
| `TypeCorrect` | | `Spec => []TypeOK` |
| `AbortRespected` | | `Spec => AbortStopsWriting` |
| `HomeWritten` | no `swap`, no `window` | `Spec => OnlyHomeWritten` |
| `CleanIsWritten` | only `stall`, `weak`, `unread` | `Spec => []CleanMeansWritten` |
| `WritesKept` | the same; and only `stall`, if there are dialogs | `Spec => []NoWriteLost` |
| `NeighboursUntouched` | only `stall`, `motor` | `Spec => NeighboursKept` |

The conditions are those of §7: each fault that is left out either breaks the property there (`corrupt`, `yank`, `motor`,
`window`, `swap`), or changes what the property would have to say. The invariant is built in layers, each assuming a
little more of `Faults`. `FlushInv`: `flushPendingWrites` runs exactly while a thread is at a step that called it, and
once writing is blocked it is over. `HomeInv`: a promise (a pending track, or a write between its checks and its
lock) keeps the timer from taking note of another disk, so that the drive holds the home disk or none. `SteadyInv`: no
flush is left half way with the disk gone. `CleanInv` adds what is known of the buffer and the cached track at each step of a
flush, as the cache and the disk differ while a track is being written. `LossInv` is about `owed`: a track is written
whole, so it has to say that no write of a neighbour takes an accepted write back. `NearInv` says of the track at
hand that it is cached whole, and what would be put in place of a sector nobody wrote to is that sector.

**Volumes_proofs** (any number of handles, disks, dialogs):

| Theorem | If | Statement |
|---|---|---|
| `DevicesStayLive` | `Patient`: no `hasty` in `Allow` | `Spec => []DevicesLive` |
| `RawIsAlone` | `Patient` | `Spec => []RawAlone` |
| `CallsReachHome` | `Orderly`: and no `swaps` | `Spec => []CallsGoHome` |

`DeviceInv` relates the three places that know a device (manager, volume, file object) at every message;
`DialogInv` says what a dialog holds at each of its steps, that at most one of them has the drive, and that the volume it
took away stays with it; `DriveInv` follows the disk in the drive through the drive's object, the messages
under way, and the devices opened for it: each of them is up to date, or a message that will make it so is on its way.
`RawIsAlone` holds with `late` in `Allow` and without; with it, files opened during the flush of `setLocked` are excepted, as in `RawAlone`.

**PfsCommit_proofs** (`Sheltered`: no super blocks; `Allow` = {}, that is no operations after a write that failed, of whatever kind; and
`LastReserved >= MaxEvictions + 2 * Cardinality(Kinds)`; any number of updates):

| Theorem | Statement |
|---|---|
| `PlacesAccounted` | `Spec => []ReservedAccounted` |
| `UpdateIsAtomic` | `Spec => ImplementsAtomicVolume` |

The parts of `Sheltered` are rows of §7, and the number of places is exact: with one less TLC finds a counterexample.
`CommitInv` has a part about the disk (`VersionOK`: the root leads to one block of each kind, and what it calls free is
the rest) and a part about the program, which TLC checked first: every place has exactly one use (`NoneLost`);
places of changed blocks are not in the version on the disk (`Apart`), and none of that version's is free between updates (`Kept`);
unchanged blocks are on the disk as in memory; and, for each stage of an update, what it has still to write (`TodoOK`). The refinement
follows from `Apart`: no block that is written is in the version the root names, so that `OnDisk` stays until the root
is written; and then all blocks of the new version are there. `PlaceOf` is a recursive function over the kinds; that the
steps leave it alone is proved level by level.

**PfsBlocks_proofs** (`Careful`: no `overwrite` in `Allow`; any finite set of blocks, any files, any
`TBF_CACHE_SIZE` above 1, growth by any number of blocks):

| Theorem | Statement |
|---|---|
| `NoBlockLost` | `Spec => []BlocksAccounted` |
| `CountsAreExact` | `Spec => []CountsExact` |
| `CommittedStays` | `Spec => []CommittedIntact` |
| `ClosedFilesSurvive` | `Spec => []ClosedSurvives` |

`Careful` leaves out the row `overwrite` of §7. A call commits several versions on its way, and a crash may leave any of
them, so the invariant `BlocksInv` between calls says of the disk what has to hold of each: `VersionOK`, a
volume whose accounts are right once what it notes in `tobedone` has been freed. `Calling` is what holds at every
point of a call: the library's data is sound (`VolumeOK`), so is each version committed so far,
the blocks of the last one are where they were or wait (`Intact`), and the entries of files the call is not about are
the same in all of them (`Alike`), which is what `ClosedSurvives` needs. `UpdateEffect` shows that an update commits such a version, if
no anode is blank; `FreeBlocksEffect` and `AllocateEffect` carry this through the loops, which
are recursive functions of the number of blocks done. Neither the provers nor the library's induction theorems
can use the definition of such a function, so `FreeLoop` and `TakeLoop` build it, and `CountingUp` is induction
up to a bound, from the well-foundedness of `<`. `DoPostponed` in a mount is one more call of the same loop.

**PfsFiles_proofs** (any file objects, any names, paths of one or two names, any number of anodes, any `Room`):

| Theorem | If | Statement |
|---|---|---|
| `EntriesGoWithAnodes` | `Considerate` | `Spec => []OneEntryEach` |
| `AddressesStayRight` | `Considerate` | `Spec => []ReferencesCurrent` |
| `PositionsStayInside` | `Considerate` | `Spec => []OffsetsInside` |
| `WritersStayAlone` | | `Spec => []WritersAlone` |
| `NewDirSucceeds` | `Allow` = {} | `Spec => []NewDirNeverConflicts` |

`Considerate` leaves out `careless` and `replace`, `Allow` = {} `rmdir` as well: the three rows of §7, each of which breaks the
theorem that leaves it out. `FilesInv` says of the directories (`DirsOK`) that their blocks are sequences of
entries (`Blocky`), that neither anodes nor the names of a directory come twice and each anode in use has its entry (`Told`), and that
directories are in the root directory (`Rooted`); and of each open file (`RefsOK`) that the path programs know
it by leads, block by block, to the entry at its address, with its anode and no less than its position. It holds
at every point of a call, so each function of the library has a lemma: given a sound volume
it leaves a sound volume. The hard ones are those that take an entry away. `Gap` and `Moved` say where the entries behind it are
then, and that `UpdateChangedRef` does the same to the addresses; the file that goes must be nobody's, which is what
`Considerate` gives. `WritersStayAlone` has an invariant of its own, `AloneInv`, about the list of open files alone: only `AddListEntry` makes
an entry of it, and asks `AccessConflict` first; what happens in the directories is of no account, so it
needs no condition. For `NewDirSucceeds`, locks are only on directories that are there (`LocksInv`), and open files are files
(`FilesInv`), so nobody has an anode that is free.

**PfsTable_proofs** (the same, with `Allow` = {} and `PathsClosed`):

| Theorem | Statement |
|---|---|
| `VolumeImplementsTable` | `Spec => ImplementsFileTable` |

`PathsClosed` says that what may be a file in one directory may be one in another, or a directory that gets another name
would take files out of sight of `FileTable`; `PfsMarksAssumption` keeps `Dir` and `None` apart from sizes and open files. The proof
forgets where an entry stands: `In(dir, d, e)` is all that is left of a block, a path `Denotes` an entry of the directory it
leads to, and `Shows` says that a table has for each path what its entry looks like. Then each function of the
library is one of five steps: nothing (`Kept`), an entry with another size (`SizeGiven`), one more (`Came`), one less (`Went`), or one in
the place of another (`WasMoved`), and five lemmas (`SeenKept` … `SeenMoved`) say what each does to the table.
The renaming of a directory is the hard one, as every path through it changes its meaning. `Budget` gives the type: a
size `FileTable` allows is one the volume has room for, so the proof counts pairs of an anode and a number up to the size of its file,
which with `avail` are always `Room`; as a set of pairs they need no sum. The sizes in
`own` are those in the table, since an open file's path denotes the entry at its address (`FilesInv`), and only one program
changes a size because writers are alone (`AloneInv`). Without the locks (`LocksInv`), a new directory might come and go in one call.

**Only model-checked.** `FatFiles` and `AmigaBlocks`, all of them; `AmigaFiles`, `MfmCache`, `Volumes`, `PfsFiles`, `PfsCommit` and `PfsBlocks` outside the conditions above; and the liveness properties
`EventuallyFlushed` and `EventuallyShown`, as liveness under fairness is out of the prover's reach.
The operators that follow a chain (`FatVolume`, `AmigaBlocks`) are folds or recursive
functions; what they compute is checked on the instances, not proved by induction.

## 7. Where the code goes wrong

The run `amiga_truncate` shows one disagreement with what the code says of itself: `adfFileTruncate` to 0
(ADFlib/src/adf_file.c:343) leaves `curDataPtr` and `nDataBlock` at the first block, so that the next write takes the
list entry after it; the first entry stays 0 although `highSeq` counts it, and the file cannot be
opened any more. adf_file.c:635 says that "a data block can never be at 0-1".

Five definitions state what other comments promise and the code does not keep. They are not among the runs' properties; with the
setting given, TLC finds them violated when they are added to the configuration:

* `FlushKeepsDirectory` (AmigaFiles.cfg, `Quiet` = FALSE) — `adfFileFlush` writes back the header as it was when the file was
  opened (ADFlib/src/adf_file.c:476), so a file that was appended to the bucket since is cut off. ADFlib/doc/api_file.html:99: "Flushes
  the datablocks on disk."
* `DeleteSparesOpenFiles` (AmigaFiles.cfg, `DeleteOpen` = TRUE) — `fs_deletefile` deletes files that are open: `isFileInUse` is
  asked with the file itself as current directory (adf/adf_operations.cpp:639) and never finds it. adf_operations.h:41: "Return TRUE if
  file is in use for the new requested mode".
* `OpenFilesInUse` (FatFiles.cfg, `Allow` {"readers"}) — all readers of a path share one entry of `m_inUse`, and the first to close
  erases it (adf/fat_operations.cpp:83, 88). fat_operations.h:54 says the same of `isFileInUse`.
* `LockRefused` (Volumes.cfg as it is) — `setLocked` asks for open files, flushes, and locks (adf/MountedVolume.cpp:164-166); a
  file opened in between is open when the volume is locked. MountedVolume.h:75: "Returns FALSE if files are open".
* `NothingDangles` (PfsCommit.cfg, `Allow` {"cache"} or {"root"}) — `AllocLRU` drops a changed block also when it could not write it
  (PFS3lib/lru.cpp:122-132), has its old place freed, and the next update commits a reference to the new place, where it is not;
  update.cpp:71: "save reserved blocks at new location, free the old". `UpdateDisk` ignores whether the root was written
  (PFS3lib/update.cpp:157) and returns success; the places it freed are used again while the version on the disk has them.

The passing runs leave out a number of orders of events that the code does not survive. Each is a
constant of the model, so that the statement of a property says exactly on what it depends; with the
setting in the table TLC finds the property violated.

| In | Setting | Violated | What happens |
|---|---|---|---|
| SectorCache.cfg | `Reach` = 1 | `Coherent` | Writes seek with a 32-bit product (adf/readwrite_file.cpp:274): beyond 4 GiB they land in another sector, between 2 and 4 GiB they fail. Reads are right. |
| MfmStall.cfg | `Faults` {"corrupt"} | `CleanMeansWritten` | The verification merges the read back into the very sectors it compares with, by "fewer errors wins" (adf/mfminterface.cpp:755): a sector that came back bad passes. |
| MfmStall.cfg | `Faults` {"unread"} | `NeighboursKept` | The read that is to complete a track fails, and the track is written all the same (:637): its other sectors are wiped. |
| MfmStall.cfg | `Faults` {"yank"} | `NeighboursKept` | A flush begun without the disk cannot complete a track; once the disk is back the incomplete track is written (:637) and its other sectors are wiped. |
| MfmStall.cfg | `Faults` {"motor"} | `CleanMeansWritten` | If the motor does not get ready the pending set is dropped (:605), the cache keeps the sectors. |
| MfmStall.cfg | `Faults` {"window"}, `MaxSessions` 1 | `NoWriteLost` | The timer clears the caches outside the lock (:273). Without a dialog the property holds. |
| MfmYank.cfg | `Faults` {"weak"} | `EventuallyFlushed` | The write loop (:679) ends only when the verification passes; a sector whose cached copy has errors keeps it going for ever, with the lock held. |
| MfmYank.cfg | `Faults` {"swap"} | `OnlyHomeWritten` | Asked to put the disk back, any disk will do (:170); the pending tracks are written to it. |
| AmigaFiles.cfg | `DeleteOpen` = TRUE | `OpenFilesKept` | Open files are deleted and renamed (`DeleteSparesOpenFiles` above). |
| AmigaFiles.cfg | `Quiet` = FALSE | `EntriesReachable`, `OpenFilesKept` | Stale headers are written back (`FlushKeepsDirectory` above). |
| AmigaBlocks.cfg | `Allow` {"removed"} | `ChainsAgree` | A handle goes on with a block that truncating has given back and writes it again, and the two ways to the data of an OFS file disagree. |
| AmigaBlocks.cfg | `Allow` {"forgets"} | `ContentsKept` | A read after a write replaces the data block in memory before it was saved (adf_file.c:926). |
| AmigaBlocks.cfg | `Allow` {"tight"} | `BlocksAccounted` | An extension block is allocated (:1194) and then there is none for the data; deleting the file loses blocks. |
| AmigaBlocks.cfg | `Allow` {"beyond"} | `ContentsKept` | A write behind the end of a file lands at its end. |
| FatFiles.cfg | `Allow` {"readers"} | `HandlesCurrent`, `WritersAlone` | Two programs read a file (`OpenFilesInUse` above); one closes it, and it may be written or moved under the other. |
| FatFiles.cfg | `Allow` {"careless"} | `HandlesCurrent` | A directory with open files is moved, or the file a move replaces is open and is unlinked first (:593). |
| FatFiles.cfg | `Grants` {3} | `ClustersAccounted` | The search of `f_expand` for a contiguous area wraps round the end of the FAT. |
| PfsFiles.cfg | `Allow` {"replace"} | `OneEntryEach` | A replacing move finds its source before it removes the target (PFS3lib/pfs3.cpp:339), which moves the source's entry. |
| PfsFiles.cfg | `Allow` {"careless"} | `ReferencesCurrent` | A file is deleted or emptied while open. |
| PfsFiles.cfg | `Allow` {"rmdir"} | `NewDirNeverConflicts` | `NewDir` "Should never fail, accessconflict impossible" (PFS3lib/directory.cpp:1422), yet `MkDir` (PFS3lib/pfs3.cpp:266) drops the list entry it returns, whose lock stays on the anode when the directory is removed and the anode is used again. |
| PfsBlocks.cfg | `Allow` {"overwrite"} | `BlocksAccounted` | A file is emptied when `tobefreed` is nearly full, and the drive goes away in the middle. |
| PfsCommit.cfg | `Allow` {"block"} | `ImplementsAtomicVolume` | An update in which a block could not be written leaves the root alone (PFS3lib/update.cpp:153), but it has freed old places by then (:350) and lets the volume count as clean. The program goes on, blocks of the version in force are written over, and until a later update writes the root a crash leaves neither version. |
| PfsCommit.cfg | `Allow` {"cache"} or {"root"} | `ImplementsAtomicVolume` | See `NothingDangles` above. |
| PfsCommit.cfg | `LastReserved` = 13 | `ImplementsAtomicVolume` | No reserved block is left for a new version, and the place of the old one is written over. |
| PfsCommit.cfg | `SuperMode` TRUE, `MaxEvictions` 0 | `ExtensionReallocated` | update.cpp:95 means to "make sure rootblockextension is reallocated", but `UpdateSBLK` (:606) has set its `changeflag` already, for which `MakeBlockDirty` does nothing: the extension is written over the one in use. |
| Volumes.cfg | `Allow` {"swaps"} | `CallsGoHome` | The window joins a dialog's thread (adf/MountedVolumes.cpp:531) and handles a removal late; calls for the old disk meet a new one. |
| Volumes.cfg | `Allow` {"hasty"} | `RawAlone`, `DevicesLive` | A dialog opened in the middle of a disk change uses a volume that is deleted, or waits for a window that waits for it (MountedVolume.cpp:413). |
| Volumes.cfg | `Allow` {"aborts"} | `EventuallyShown` | A format or copy that is given up ends with `restoreUnmountedDrive(false)` (adf/dlgFormat.cpp:362, dlgCopy.cpp:345), which unmounts; only a successful one calls `triggerNewDiskMount`, so the disk in the drive stays unmounted. |

Seen in the code while reading it, and in none of the models: the boot block after a format is never
installed, as `m_ADFvolume` is null by then (dlgFormat.cpp:317); `setLocked(true)` does not test for
an existing lock; reading an empty Amiga file is an error (adf_operations.cpp:362); `OPEN_ALWAYS` on a
missing Amiga file uses an `entry.access` that was never set; a new directory-cache block's first record goes into
the block before it (ADFlib/src/adf_cache.c:465), and emptying a middle one cuts off those behind (:364), both out of
use as `useDirCache` is false; reading past several MSA tracks at once misplaces the later
ones (readwrite_file.cpp:246); `headerErrors + dataValid ? 0 : 1` (adf/ibm_sectors.cpp:271) tests a sum.

## 8. What is not modelled

* **In modelled components.** The contents of FAT and PFS3 files, times, and the conversion of names and attributes;
  I/O errors inside ADFlib and FatFs; the bit patterns of tracks; the second file system of dual-format disks
  (never written, cached the same way); SCP images behind `SectorCacheMFM`, which are write-protected; the
  end of the process (the destructor does not flush); mounting of raw devices and image files, drive letters
  and titles; in ADFlib directory caches, links, bitmap repair and partitions, and the field `dataSize` of OFS
  blocks; in FatFs exFAT and `f_mkfs`; in PFS3lib links, the deletion directory, roll-over files and
  formatting. `PfsCommit` takes the root block and the bitmap of the reserved area, which are adjacent,
  as one write. What a mount makes of a volume that a lost block or a root not written has damaged is not followed, nor is an eviction that
  fails in the middle of an operation: a call of the library is one step there. Situations that are never explored, as what the code does there depends on
  stale memory: `stale` and `unsaved` in `AmigaBlocks` (an OFS file read to the end and then appended to writes over
  a slot of its list; truncating reads lists from the disk that are newer in memory).
* **Components that are not.** MSA images and the decoders' choice between copies of a sector: data
  conversions without interleavings, and tests with real images reach them. DMS, SCP, the PLL and xDMS: sequential decoders,
  run once. The tray application, menus, settings, shell integration and installer: user interface. `readwrite_mfm.cpp` is not built.
* **Lines.** The map covers about a seventh of the lines of the repository. Most of the rest is no behaviour of this
  program: the code-page tables of FatFs (ffunicode.c, 15 600 lines), tests, regression tests, examples
  and backup copies in ADFlib (12 000), the window code and drive lists, drivers and headers, and what
  is not compiled or never called in FatFs and PFS3lib.

## 9. Plan

All the modules of §2 are in place. What is next:

1. **Proofs**, by what they are worth: `FatFiles` (`WritersAlone`, `HandlesCurrent`); `AmigaBlocks` (`BlocksAccounted`).
2. **Models**: MSA tracks decoded on demand against all at once; the merge of sector copies over all
   small inputs; ADFlib's directory caches, should they come into use.
