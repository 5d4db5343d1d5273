----------------------------- MODULE PfsBlocks -----------------------------
(***************************************************************************)
(* The blocks of the files of a PFS3 volume, and what is on the disk when   *)
(* the program or the drive goes away: allocation.cpp, the callers of it in *)
(* disk.cpp and directory.cpp, UpdateDisk (update.cpp) seen as one step,    *)
(* and the mount that follows (init.cpp).                                   *)
(*                                                                         *)
(* UpdateDisk makes a version of the volume the committed one.  Blocks that *)
(* are freed wait in tobefreed until then, so that nothing of the committed *)
(* version is written over.  An operation that cannot wait commits half of  *)
(* its work, and notes in the root block extension what a mount has to      *)
(* finish (tobedone).                                                       *)
(*                                                                         *)
(* Modelled: a fragmented volume (an anode for every block of a file) with  *)
(* no directory of deleted files.  Which free block the scan of the bitmap  *)
(* finds is left open.  PfsCommit has the steps UpdateDisk itself takes.    *)
(***************************************************************************)
EXTENDS SequencesExt

CONSTANTS Blocks,   \* data blocks
          Files,    \* files, by the number of their first anode
          TbfSize,  \* TBF_CACHE_SIZE
          MaxGrow,  \* blocks a call may add
          Nobody,   \* no file
          Allow     \* "overwrite": also when tobefreed is nearly full

ASSUME PfsBlocksAssumption ==
  /\ IsFiniteSet(Blocks) /\ TbfSize \in Nat \ {0, 1} /\ MaxGrow \in Nat \ {0}
  /\ Nobody \notin Files /\ Allow \subseteq {"overwrite"}

VARIABLES vol,      \* the library's data, Down when the program does not run
          disk,     \* the committed version
          settled   \* history: what files were when they were last flushed

vars == <<vol, disk, settled>>

All == Cardinality(Blocks) + 1   \* ULONG_MAX
Nothing == [file |-> Nobody, count |-> 0]
Todo == [file : Files \cup {Nobody}, count : 0 .. All]

\* there, size: the directory entries; chain: the anodes; todo: tobedone.
Version == [there : [Files -> BOOLEAN], size : [Files -> 0 .. All], chain : [Files -> Seq(Blocks)],
            free : SUBSET Blocks, blocksfree : 0 .. All, todo : Todo]
Down == [up |-> FALSE]
Up == vol # Down

\* The anodes as they are written: NewFile blanks the first one beforehand.
SavedChain(v, f) == IF v.blank = f THEN <<>> ELSE v.chain[f]
Snapshot(v) ==
  [there |-> v.there, size |-> v.size, chain |-> [f \in Files |-> SavedChain(v, f)],
   free |-> v.free, blocksfree |-> v.clean, todo |-> v.todo]

\* A mutant: tobefreed blocks become free, and are not counted.
FreeListUncounted(v) == [v EXCEPT !.free = @ \cup Range(v.tbf), !.tbf = <<>>]
UpdateFreeList(v) ==
  [v EXCEPT !.free = @ \cup Range(v.tbf), !.clean = @ + Len(v.tbf), !.tbf = <<>>]

Committed(v) == [v EXCEPT !.past = Append(@, Snapshot(v)), !.dirty = FALSE]
\* A mutant: the bitmap is written before tobefreed is put into it.
UpdateDiskFirst(v) == IF v.dirty THEN UpdateFreeList(Committed(v)) ELSE v
\* UpdateDisk, which does nothing if nothing is dirty.  past: the versions a
\* call has committed so far.
UpdateDisk(v) == IF v.dirty THEN Committed(UpdateFreeList(v)) ELSE v
-----------------------------------------------------------------------------
\* RestoreAnodeChain: the last node left is saved, which may be the first.
RestoreAnodeChain(v, f) ==
  [v EXCEPT !.blank = IF @ = f /\ Len(v.chain[f]) > 1 THEN f ELSE Nobody]

\* A mutant: freed blocks are free at once.
FreeLastAtOnce(v, f) ==
  [v EXCEPT !.chain[f] = Front(@), !.free = @ \cup {Last(v.chain[f])}, !.clean = @ + 1, !.avail = @ + 1]
\* FreeBlocksAC for one node: the last block of the chain goes to tobefreed.
FreeLast(v, f) ==
  [v EXCEPT !.chain[f] = Front(@), !.tbf = Append(@, Last(v.chain[f])), !.avail = @ + 1]

\* An update in between: when tobefreed is full, or reserved blocks are few
\* (IsUpdateNeeded).
Pause(v, f, left, pressed) ==
  IF Len(v.tbf) >= TbfSize \/ pressed
  THEN UpdateDisk([RestoreAnodeChain(v, f) EXCEPT !.dirty = TRUE, !.todo.count = left]) ELSE v
FreeOne(v, f, left, pressed) ==
  IF v.chain[f] = <<>> THEN v ELSE Pause(FreeLast(v, f), f, left, pressed)

\* The anodes behind the first one, which an empty chain has as well.
Hops(v, f) == IF v.chain[f] = <<>> THEN 0 ELSE Len(v.chain[f]) - 1
\* There has to be room in tobefreed for the whole chain.
NearlyFull(v, f) == v.tbf # <<>> /\ Hops(v, f) + Len(v.tbf) >= TbfSize - 1
MakeRoom(v, f) == IF NearlyFull(v, f) THEN UpdateDisk(v) ELSE v
Noted(v, f, n) == [v EXCEPT !.todo = [file |-> f, count |-> n], !.dirty = TRUE]
Finished(v, f) == [RestoreAnodeChain(v, f) EXCEPT !.todo = Nothing, !.dirty = TRUE]

\* An empty chain has one anode to look at all the same, and nothing to free.
FreeNone(v, f, n, pressed) ==
  IF v.chain[f] = <<>> /\ n > 0 /\ pressed THEN Pause(v, f, n, TRUE) ELSE v
\* FreeBlocksAC: n blocks from the end, one after the other, or what there is;
\* pressed are the numbers of those after which reserved blocks are few.
FreeBlocksAC(v, f, n, pressed) ==
  LET after[k \in 0 .. n] == IF k = 0 THEN FreeNone(MakeRoom(Noted(v, f, n), f), f, n, 1 \in pressed)
                             ELSE FreeOne(after[k - 1], f, n - k, k \in pressed)
  IN Finished(after[n], f)

\* AllocateBlocksAC takes clean blocks, and makes some by an update if need be.
CleanEnough(v, n) == IF v.clean < n THEN UpdateDisk(v) ELSE v
\* A mutant: nothing is marked as changed.
TakeBlockUnmarked(v, f, b) ==
  [v EXCEPT !.free = @ \ {b}, !.chain[f] = Append(@, b), !.size[f] = @ + 1,
            !.clean = @ - 1, !.avail = @ - 1]
TakeBlock(v, f, b) ==
  [v EXCEPT !.free = @ \ {b}, !.chain[f] = Append(@, b), !.size[f] = @ + 1,
            !.clean = @ - 1, !.avail = @ - 1, !.dirty = TRUE]
TakeOne(v, f, b, pressed) == IF pressed THEN UpdateDisk(TakeBlock(v, f, b)) ELSE TakeBlock(v, f, b)
AllocateBlocksAC(v, f, bs, pressed) ==
  LET after[k \in 0 .. Len(bs)] ==
        IF k = 0 THEN v ELSE TakeOne(after[k - 1], f, bs[k], k \in pressed)
  IN after[Len(bs)]

\* The end of the file goes back to where it was, and reserved blocks may
\* still be few.
Undone(v, f, n, pressed) ==
  FreeBlocksAC([v EXCEPT !.size[f] = @ - n, !.dirty = TRUE], f, n, pressed)
-----------------------------------------------------------------------------
\* InitAllocation, DoPostponed, DiskInsertSequence.
Mounted(d) ==
  [up |-> TRUE, there |-> d.there, size |-> d.size, chain |-> d.chain, free |-> d.free,
   tbf |-> <<>>, clean |-> d.blocksfree, avail |-> d.blocksfree, todo |-> d.todo,
   blank |-> Nobody, dirty |-> TRUE, past |-> <<>>]
DoPostponed(v, pressed) ==
  IF v.todo = Nothing THEN v ELSE FreeBlocksAC(v, v.todo.file, v.todo.count, pressed)

Empty == [there |-> [f \in Files |-> FALSE], size |-> [f \in Files |-> 0],
          chain |-> [f \in Files |-> <<>>], free |-> Blocks, blocksfree |-> Cardinality(Blocks),
          todo |-> Nothing]
SizesOf(v) == [f \in Files |-> IF v.there[f] THEN v.size[f] ELSE All]

Init ==
  /\ disk = Empty /\ vol = Mounted(Empty)
  /\ settled = [f \in Files |-> All]

\* A call runs to its end, or the program dies after one of its updates.
Ends(v) ==
  /\ vol' = [v EXCEPT !.past = <<>>]
  /\ disk' = IF v.past = <<>> THEN disk ELSE Last(v.past)
DiesIn(v) == \E i \in DOMAIN v.past : disk' = v.past[i] /\ vol' = Down
Runs(v, f) ==
  /\ Ends(v) \/ DiesIn(v)
  /\ settled' = [settled EXCEPT ![f] = Nobody]

\* Createfile of a new file: MakeDirEntry, AddDirectoryEntry.
CreateFile(f) ==
  /\ Up /\ ~vol.there[f]
  /\ Runs([vol EXCEPT !.there[f] = TRUE, !.size[f] = 0, !.dirty = TRUE], f)

\* Createfile that empties a file: NewFile blanks the first anode, then frees.
Emptied(v, f) ==
  [v EXCEPT !.size[f] = 0, !.dirty = TRUE, !.blank = IF v.chain[f] = <<>> THEN Nobody ELSE f]
OverwriteFile(f, pressed) ==
  /\ Up /\ vol.there[f]
  /\ \/ "overwrite" \in Allow \/ vol.chain[f] = <<>>
     \/ ~NearlyFull(vol, f) /\ pressed = {} /\ Len(vol.tbf) + Len(vol.chain[f]) < TbfSize
  /\ Runs(FreeBlocksAC(Emptied(vol, f), f, All, pressed), f)

\* Writefile that makes the file longer, and ChangefileSize that does.  It
\* fails when reserved blocks run out after an update, and WriteToFile when
\* the data cannot be written; again are the numbers of the blocks given back
\* after which reserved blocks are few.
GrowFile(f, n, pressed, fails, again) ==
  LET v == CleanEnough(vol, n) IN
  /\ Up /\ vol.there[f] /\ vol.avail >= n
  /\ \E bs \in [1 .. n -> v.free] :
       /\ IsInjective(bs)
       /\ Runs(IF fails THEN Undone(AllocateBlocksAC(v, f, bs, pressed), f, n, again)
               ELSE AllocateBlocksAC(v, f, bs, pressed), f)

\* ChangefileSize, Truncatefile: the entry first, then the blocks.
ShrinkFile(f, n, pressed) ==
  /\ Up /\ vol.there[f] /\ n \in 1 .. vol.size[f]
  /\ Runs(FreeBlocksAC([vol EXCEPT !.size[f] = @ - n, !.dirty = TRUE], f, n, pressed), f)

\* DeleteObject: the entry, the blocks, the first anode.
DeleteFile(f, pressed) ==
  /\ Up /\ vol.there[f]
  /\ Runs(FreeBlocksAC([vol EXCEPT !.there[f] = FALSE, !.size[f] = 0, !.dirty = TRUE], f, All, pressed), f)

\* Closefile, SetfileAttributes: flushChanges(true)
FlushChanges ==
  /\ Up
  /\ Ends(UpdateDisk(vol))
  /\ settled' = SizesOf(vol)

\* The program or the drive goes away, between two calls.
Crash == Up /\ vol' = Down /\ UNCHANGED <<disk, settled>>

\* PFS3::PFS3: a mount, and it may go away in that as well.
Mount(pressed) ==
  LET v == DoPostponed(Mounted(disk), pressed) IN
  /\ ~Up
  /\ Ends(v) \/ DiesIn(v)
  /\ UNCHANGED settled

Next ==
  \/ \E f \in Files : CreateFile(f)
  \/ \E f \in Files, pressed \in SUBSET (1 .. MaxGrow) :
       \/ OverwriteFile(f, pressed) \/ DeleteFile(f, pressed)
       \/ \E n \in 1 .. MaxGrow :
            \/ ShrinkFile(f, n, pressed)
            \/ GrowFile(f, n, pressed, FALSE, {})
            \/ \E again \in SUBSET (1 .. MaxGrow) : GrowFile(f, n, pressed, TRUE, again)
  \/ \E pressed \in SUBSET (1 .. MaxGrow) : Mount(pressed)
  \/ FlushChanges \/ Crash

Spec == Init /\ [][Next]_vars
-----------------------------------------------------------------------------
(* Every block is free, or waits to be, or belongs to one file: none is used *)
(* twice and none is lost, and a file has as many as its entry says, after   *)
(* calls that failed and after a crash in any of them and the mount that     *)
(* follows too.                                                             *)
BlocksAccounted ==
  Up => LET held == UNION {Range(vol.chain[f]) : f \in Files} IN
        /\ vol.free \cup Range(vol.tbf) \cup held = Blocks
        /\ vol.free \cap (Range(vol.tbf) \cup held) = {} /\ Range(vol.tbf) \cap held = {}
        /\ IsInjective(vol.tbf) /\ \A f \in Files : IsInjective(vol.chain[f])
        /\ \A f, g \in Files : f # g => Range(vol.chain[f]) \cap Range(vol.chain[g]) = {}
        /\ \A f \in Files : Len(vol.chain[f]) = (IF vol.there[f] THEN vol.size[f] ELSE 0)

(* clean_blocksfree and alloc_available count what they say: blocks that are *)
(* free, and those and what waits.  They are kept apart from the bitmap, and *)
(* come from the root block after a crash.                                  *)
CountsExact ==
  Up => vol.clean = Cardinality(vol.free) /\ vol.avail = vol.clean + Len(vol.tbf)

(* No block of the committed version is free or in another place: writing to *)
(* the files as they are now does not touch what a crash would bring back   *)
(* ("freespace that doesn't overlap with the current state on disk").       *)
CommittedIntact ==
  Up => \A f \in Files : \A i \in DOMAIN disk.chain[f] :
          \/ disk.chain[f][i] \in Range(vol.tbf)
          \/ i \in DOMAIN vol.chain[f] /\ vol.chain[f][i] = disk.chain[f][i]

(* What a file was when it was closed is what a crash leaves of it, whatever *)
(* half-done operation on other files was committed since.                  *)
ClosedSurvives ==
  \A f \in Files : settled[f] # Nobody => SizesOf(disk)[f] = settled[f]
=============================================================================
