----------------------------- MODULE PfsCommit -----------------------------
(***************************************************************************)
(* The steps of UpdateDisk (update.cpp), the blocks of the reserved area    *)
(* they write, and the cache that may write some of them earlier (lru.cpp). *)
(*                                                                         *)
(* A block that is changed gets a new place, and the block that refers to   *)
(* it changes with it, up to the root.  The new version of the volume is in *)
(* force when the root is written, and not before.                          *)
(*                                                                         *)
(* Modelled: one block of each kind, of which the content is the number of  *)
(* the update that it was changed for.  The blocks of a directory of        *)
(* deleted files are left out, and the removal of blocks that are empty.    *)
(* The root and the bitmap of the reserved area behind it are written as    *)
(* one.  Each write may fail and leaves what was in its place then; after   *)
(* one that did, the program goes on as far as Allow says.                  *)
(***************************************************************************)
EXTENDS Integers, Sequences, FiniteSets, Functions

CONSTANTS LastReserved,  \* places in the reserved area
          SuperMode,     \* MODE_SUPERINDEX: the volume is a large one
          Changing,      \* kinds of blocks that operations change
          MaxEvictions,  \* blocks the cache writes between two updates
          MaxUpdates,    \* updates
          Allow          \* going on after a failed write of a "block" of an update,
                 \* of the "cache", of the "root"

Writers == {"block", "cache", "root"}
ASSUME PfsCommitAssumption ==
  /\ LastReserved \in Nat /\ SuperMode \in BOOLEAN /\ MaxEvictions \in Nat /\ MaxUpdates \in Nat
  /\ Changing \subseteq {"DBLK", "ABLK", "BMBLK", "EXT"} /\ Allow \subseteq Writers

VARIABLES vol,     \* the library's data, Down when the program does not run
          disk,    \* what is in each place of the reserved area
          root,    \* the root block on the disk
          failed,  \* whose writes have failed since the mount
          lost,    \* what the cache has dropped without having written it
          updates  \* bound: updates so far

vars == <<vol, disk, root, failed, lost, updates>>

\* Who refers to a block: directory blocks are named by anodes, and so on.
Parent ==
  [DBLK |-> "ABLK", ABLK |-> "IBLK", IBLK |-> IF SuperMode THEN "SBLK" ELSE "ROOT", SBLK |-> "EXT",
   EXT |-> "ROOT", BMBLK |-> "BMIBLK", BMIBLK |-> "ROOT"]
Kinds == {"DBLK", "ABLK", "IBLK", "EXT", "BMBLK", "BMIBLK"} \cup (IF SuperMode THEN {"SBLK"} ELSE {})
Children == [k \in Kinds \cup {"ROOT"} |-> {c \in Kinds : Parent[c] = k}]

Places == 1 .. LastReserved
Nowhere == 0
Blank == [kind |-> "none", val |-> 0, link |-> <<>>]
Down == [up |-> FALSE]
Running == vol # Down
Idle == Running /\ vol.todo = <<>> /\ failed \subseteq Allow

\* A block as it is written: it names the places of those it refers to.
Image(v, k) == [kind |-> k, val |-> v.val[k], link |-> [c \in Children[k] |-> v.nr[c]]]
RootImage(v) ==
  [free |-> v.free, roving |-> v.roving, link |-> [c \in Children["ROOT"] |-> v.nr[c]]]

\* The place of a block in the version the root names, and its content.
PlaceFrom(b, k) == IF k \in DOMAIN b.link THEN b.link[k] ELSE Nowhere
BlockAt(p) == IF p = Nowhere THEN Blank ELSE disk[p]
PlaceOf[k \in Kinds] ==
  PlaceFrom(IF Parent[k] = "ROOT" THEN root ELSE BlockAt(PlaceOf[Parent[k]]), k)
ValueOf(b, k) == IF b.kind = k THEN b.val ELSE Nowhere - 1
OnDisk == [k \in Kinds |-> ValueOf(BlockAt(PlaceOf[k]), k)]
\* The block and those above it, which are read again if the cache has none.
Above[k \in Kinds] == {k} \cup (IF Parent[k] = "ROOT" THEN {} ELSE Above[Parent[k]])
Loads(k) == Above[k] \cap lost = {}
-----------------------------------------------------------------------------
\* AllocReservedBlock goes on from where it found the last one.
Least(S) == CHOOSE p \in S : \A q \in S : p <= q
NextReserved(v) ==
  LET after == {p \in v.free : p >= v.roving} IN Least(IF after = {} THEN v.free ELSE after)
FreeReservedBlock(v, p) == IF p = Nowhere THEN v ELSE [v EXCEPT !.free = @ \cup {p}]

Moved(v, k) ==
  LET p == NextReserved(v) IN
  [v EXCEPT !.free = @ \ {p}, !.roving = p, !.old[k] = v.nr[k], !.nr[k] = p, !.dirty[k] = TRUE]

\* UpdateSBLK marks the root extension and does not move it.
WithExtension(v, k) == IF k = "SBLK" THEN [v EXCEPT !.dirty["EXT"] = TRUE] ELSE v
\* MakeBlockDirty of one block; without a place the old one will do.
Dirtied(v, k) ==
  IF v.free = {} THEN [v EXCEPT !.dirty[k] = TRUE] ELSE WithExtension(Moved(v, k), k)
\* UpdateBlocknr goes on with the block above if this one has moved.
Goes(v, k) == v.free # {} /\ k # "SBLK"
\* The block s.at, if it was clean, and which is next; "ROOT" when all is done.
Raised(s) ==
  IF s.at = "ROOT" \/ s.v.dirty[s.at] THEN [v |-> s.v, at |-> "ROOT"]
  ELSE [v |-> Dirtied(s.v, s.at), at |-> IF Goes(s.v, s.at) THEN Parent[s.at] ELSE "ROOT"]
\* A mutant: the block above is not told.
MakeDirtyAlone(v, k) == [Raised([v |-> v, at |-> k]).v EXCEPT !.changed = TRUE]
\* At most four blocks are below one another: DBLK, ABLK, IBLK, SBLK.
MakeBlockDirty(v, k) ==
  [Raised(Raised(Raised(Raised([v |-> v, at |-> k])))).v EXCEPT !.changed = TRUE]

Changed(v, k) == [MakeBlockDirty(v, k) EXCEPT !.val[k] = updates + 1]
-----------------------------------------------------------------------------
\* The volume as a mount finds it.
Mounted ==
  [up |-> TRUE, val |-> OnDisk, nr |-> PlaceOf,
   old |-> [k \in Kinds |-> Nowhere], dirty |-> [k \in Kinds |-> FALSE],
   free |-> root.free, roving |-> root.roving, rtbf |-> <<>>, changed |-> TRUE,
   todo |-> <<>>, updateok |-> TRUE]

Order ==
  IF SuperMode THEN <<"DBLK", "ABLK", "IBLK", "SBLK", "EXT", "BMBLK", "BMIBLK", "ROOT">>
               ELSE <<"DBLK", "ABLK", "IBLK", "EXT", "BMBLK", "BMIBLK", "ROOT">>
\* A formatted volume has its blocks in the first places.
FirstPlace(k) == CHOOSE i \in DOMAIN Order : Order[i] = k
Init ==
  /\ disk = [p \in Places |->
       IF p >= Len(Order) THEN Blank
       ELSE [kind |-> Order[p], val |-> 0, link |-> [c \in Children[Order[p]] |-> FirstPlace(c)]]]
  /\ root = [free |-> {p \in Places : p >= Len(Order)}, roving |-> 1,
             link |-> [c \in Children["ROOT"] |-> FirstPlace(c)]]
  /\ vol = Mounted /\ failed = {} /\ lost = {} /\ updates = 0

\* An operation changes an entry, an anode, the bitmap or what is postponed.
Change(k) ==
  /\ Idle /\ Loads(k)
  /\ vol' = Changed(vol, k)
  /\ UNCHANGED <<disk, root, failed, lost, updates>>

\* AllocLRU needs room in the cache: the block goes, its old place is to be freed.
Dropped(v, k) ==
  [v EXCEPT !.dirty[k] = FALSE, !.old[k] = Nowhere,
            !.rtbf = IF v.old[k] = Nowhere THEN @ ELSE Append(@, v.old[k])]
Evicts(k) == Idle /\ vol.dirty[k] /\ Len(vol.rtbf) < MaxEvictions /\ vol' = Dropped(vol, k)
Evict(k) ==
  /\ Evicts(k)
  /\ disk' = [disk EXCEPT ![vol.nr[k]] = Image(vol, k)]
  /\ UNCHANGED <<root, failed, lost, updates>>
\* It goes all the same if it cannot be written.
EvictFails(k) ==
  /\ Evicts(k)
  /\ failed' = failed \cup {"cache"} /\ lost' = lost \cup {k}
  /\ UNCHANGED <<disk, root, updates>>

\* UpdateDisk, as far as UpdateFreeList, which may change the bitmap.
BeginUpdate(frees) ==
  LET v == Changed(vol, "EXT") IN
  /\ Idle /\ vol.changed /\ updates < MaxUpdates /\ (frees => Loads("BMBLK"))
  /\ vol' = [(IF frees THEN Changed(v, "BMBLK") ELSE v) EXCEPT !.todo = Order, !.updateok = TRUE]
  /\ updates' = updates + 1
  /\ UNCHANGED <<disk, root, failed, lost>>

\* UpdateList: the old place is free, the block is written to the new one.
Written(v, k) == [FreeReservedBlock(v, v.old[k]) EXCEPT !.old[k] = Nowhere, !.dirty[k] = FALSE]
\* A mutant: what the cache has written leaves its old place taken.
RtbfForgotten(v, k) == IF k = "EXT" THEN [v EXCEPT !.rtbf = <<>>] ELSE v
\* CommitReservedToBeFreed, after the root extension.
RtbfCommitted(v, k) ==
  IF k = "EXT" THEN [v EXCEPT !.free = @ \cup Range(v.rtbf), !.rtbf = <<>>] ELSE v

\* One block of the lists, those of the bitmap after the others.
WriteBlock(k) ==
  /\ Running /\ vol.todo # <<>> /\ k = Head(vol.todo)
  /\ disk' = IF vol.dirty[k] THEN [disk EXCEPT ![vol.nr[k]] = Image(vol, k)] ELSE disk
  /\ vol' = [RtbfCommitted(IF vol.dirty[k] THEN Written(vol, k) ELSE vol, k) EXCEPT !.todo = Tail(@)]
  /\ UNCHANGED <<root, failed, lost, updates>>

\* Nothing is written after a block that cannot be, but places become free.
WriteFails(k) ==
  LET freed == [FreeReservedBlock(vol, vol.old[k]) EXCEPT !.old[k] = Nowhere] IN
  /\ Running /\ vol.todo # <<>> /\ k = Head(vol.todo) /\ vol.dirty[k]
  /\ vol' = [RtbfCommitted(freed, "EXT") EXCEPT !.todo = <<"ROOT">>, !.updateok = FALSE]
  /\ failed' = failed \cup {"block"}
  /\ UNCHANGED <<disk, root, lost, updates>>

\* The root is the last, if all went well; the volume counts as clean then,
\* and also if all did not, or if the root itself could not be written.
Ends == Running /\ vol.todo = <<"ROOT">> /\ vol' = [vol EXCEPT !.todo = <<>>, !.changed = FALSE]
WriteRoot ==
  /\ Ends
  /\ root' = IF vol.updateok THEN RootImage(vol) ELSE root
  /\ UNCHANGED <<disk, failed, lost, updates>>
RootFails ==
  /\ Ends /\ vol.updateok
  /\ failed' = failed \cup {"root"}
  /\ UNCHANGED <<disk, root, lost, updates>>

\* The program ends, or the drive is gone, at any time.
Crash == Running /\ vol' = Down /\ failed' = {} /\ lost' = {} /\ UNCHANGED <<disk, root, updates>>

Mount == ~Running /\ vol' = Mounted /\ UNCHANGED <<disk, root, failed, lost, updates>>

Next ==
  \/ \E k \in Changing : Change(k)
  \/ \E k \in Kinds : WriteBlock(k) \/ WriteFails(k)
  \/ \E k \in Kinds \ {"EXT"} : Evict(k) \/ EvictFails(k)
  \/ \E frees \in BOOLEAN : BeginUpdate(frees)
  \/ WriteRoot \/ RootFails \/ Crash \/ Mount

Spec == Init /\ [][Next]_vars
-----------------------------------------------------------------------------
(* Every place of the reserved area is free or has one use: the current     *)
(* place of a block, or the one the version on the disk has it in.  None is *)
(* lost to blocks the cache has written, or to an update.                   *)
ReservedAccounted ==
  Running /\ vol.todo = <<>> /\ vol.updateok =>
    LET old == {k \in Kinds : vol.old[k] # Nowhere} IN
    /\ vol.free \cup Range(vol.rtbf) \cup Range(vol.nr) \cup {vol.old[k] : k \in old} = Places
    /\ Cardinality(vol.free) + Len(vol.rtbf) + Cardinality(Kinds) + Cardinality(old) = LastReserved

(* An update writes the root extension to a place that the version on the   *)
(* disk does not use ("make sure rootblockextension is reallocated").  With  *)
(* SuperMode it does not: see the README.                                   *)
ExtensionReallocated ==
  Running /\ "EXT" \in Range(vol.todo) => vol.nr["EXT"] # PlaceOf["EXT"]

Now == IF Running THEN vol.val ELSE OnDisk
Atomic == INSTANCE AtomicVolume WITH now <- Now, saved <- OnDisk, Versions <- [Kinds -> 0 .. MaxUpdates + 1]

(* The version on the disk changes only when the root is written, and then   *)
(* it is the program's: no part of an update is in force without the rest   *)
(* ("save reserved blocks at new location, free the old", update.cpp:71),   *)
(* whatever the cache wrote before it, wherever it ends, and whichever of   *)
(* its writes fails, the cache's and the root's too; up to what the program *)
(* does after a write that failed, for which see NothingDangles.            *)
ImplementsAtomicVolume == Atomic!Spec

(* What the root leads to is there.  The code does not keep this when it     *)
(* goes on after a failed write: AllocLRU drops the block all the same      *)
(* (lru.cpp:122-133), and the next update refers to where it is not;        *)
(* UpdateDisk takes no notice of the root's (update.cpp:157), and the next  *)
(* operations write to the places of the version that is still in force.    *)
NothingDangles == \A k \in Kinds : BlockAt(PlaceOf[k]).kind = k
=============================================================================
