------------------------------ MODULE FatFiles ------------------------------
(***************************************************************************)
(* The open files of a FAT volume: DokanFileSystemFATFS                     *)
(* (fat_operations.cpp) on top of FatFs (FatVolume).                        *)
(*                                                                         *)
(* A context is a FIL; m_inUse maps the paths that are open to whether they *)
(* are open for writing.  Dokan runs the callbacks of a volume one at a     *)
(* time (SingleThread), so that each is one action.  A call that is refused *)
(* before it reaches FatFs changes nothing and is no step.                  *)
(*                                                                         *)
(* Modelled: files in the root directory and in directories of the root     *)
(* directory, on a disk that is not write protected.                        *)
(***************************************************************************)
EXTENDS FatVolume

CONSTANTS Objects,   \* file objects of programs, as Windows numbers them
          Paths,     \* <<name>> or <<directory, name>>
          Folders,   \* names programs give to directories
          Accesses,  \* what they open files for: sets of "r" and "w"
          Ends,      \* file sizes and positions, in sectors
          Grants,    \* allocation sizes programs ask for
          Dir, None, \* for FileTable
          Allow      \* what programs do besides: "readers", "careless"

ASSUME PathsAssumption ==
  \A p \in Paths : \/ p \in Seq(Names) /\ Len(p) = 1
                   \/ p \in Seq(Names) /\ Len(p) = 2 /\ p[1] \in Folders /\ <<p[1]>> \in Paths
ASSUME EndsAssumption ==
  /\ Ends \subseteq Nat /\ Grants \subseteq Nat /\ Folders \subseteq Names
  /\ Accesses \subseteq SUBSET {"r", "w"} \ {{}}
ASSUME AllowAssumption == Allow \subseteq {"readers", "careless"}

VARIABLES vol,     \* the volume
          inUse,   \* m_inUse
          obj,     \* the open file objects and their contexts
          listing  \* history: what the directories show programs

vars == <<vol, inUse, obj, listing>>

Dispositions == {"CREATE_ALWAYS", "CREATE_NEW", "OPEN_ALWAYS", "OPEN_EXISTING", "TRUNCATE_EXISTING"}
Mode == [CREATE_ALWAYS |-> "overwrite", CREATE_NEW |-> "new", OPEN_ALWAYS |-> "always",
         OPEN_EXISTING |-> "existing", TRUNCATE_EXISTING |-> "existing"]

\* A file object with a context: its path and the FIL.
Closed == [kind |-> "closed"]
IsOpen(o) == obj[o] # Closed
Writes(o) == IsOpen(o) /\ "w" \in obj[o].fil.acc

\* A mutant: a reader is no obstacle to a writer.
InUseByWriter(p, isWrite) == p \in DOMAIN inUse /\ inUse[p]
IsFileInUse(p, isWrite) == p \in DOMAIN inUse /\ (isWrite \/ inUse[p])
\* addTrackFileInUse: std::map::insert keeps what is there.
Tracked(p, isWrite) ==
  [x \in DOMAIN inUse \cup {p} |-> IF x \in DOMAIN inUse THEN inUse[x] ELSE isWrite]
\* releaseFileInUse
Released(p) == [x \in DOMAIN inUse \ {p} |-> inUse[x]]

\* The programs: nobody opens for reading what another one has open for
\* reading.  Whatever else they open beside each other IsFileInUse must refuse.
ReadsAlone(p, acc) ==
  "readers" \in Allow \/ "w" \in acc \/ (p \in DOMAIN inUse => inUse[p])
\* A move neither replaces itself or an open file nor moves a directory with
\* open files.
MovesWithCare(p, q, replace) ==
  "careless" \in Allow \/ /\ replace => p # q /\ q \notin DOMAIN inUse
                          /\ \A x \in DOMAIN inUse : Len(x) = 2 => p # <<x[1]>>

\* fs_findfiles, fs_getfileInformation
Shown(v, place) ==
  IF place = <<>> THEN None
  ELSE IF v.slot[place].kind = "dir" THEN Dir ELSE v.slot[place].size
Listing(v) == [p \in Paths |-> Shown(v, PlaceOf(v, p))]

\* The volume after a call, and what it shows.
VolumeBecomes(v) == vol' = v /\ listing' = IF vol' = vol THEN listing ELSE Listing(vol')
-----------------------------------------------------------------------------
\* A formatted disk: no files, and free_clst as mount_volume leaves it.
Init ==
  /\ vol = [fat |-> [c \in Clusters |-> Free], slot |-> [p \in Places |-> Blank("end")],
            free |-> Unknown, last |-> NFat]
  /\ inUse = <<>>
  /\ obj = [o \in Objects |-> Closed]
  /\ listing = Listing(vol)

\* fs_createfile of a file, with access to its data.
OpenedAs(o, p, acc, r) ==
  /\ r.res = "FR_OK"
  /\ VolumeBecomes(r.v)
  /\ obj' = [obj EXCEPT ![o] = [kind |-> "open", path |-> p, fil |-> r.f]]
  /\ inUse' = Tracked(p, "w" \in acc)
TruncatedIfOpen(r) == IF r.res = "FR_OK" THEN [Truncate(r.v, r.f) EXCEPT !.res = "FR_OK"] ELSE r
OpenFile(o, p, acc, disp) ==
  /\ ~IsOpen(o) /\ ReadsAlone(p, acc) /\ p[Len(p)] \notin Folders
  /\ ~IsFileInUse(p, "w" \in acc)
  /\ disp = "CREATE_ALWAYS" /\ "w" \notin acc => ~IsFile(vol, p)
  /\ disp \in {"OPEN_EXISTING", "TRUNCATE_EXISTING"} => IsFile(vol, p)
  /\ OpenedAs(o, p, acc, IF disp = "TRUNCATE_EXISTING"
                        THEN TruncatedIfOpen(Open(vol, p, acc, Mode[disp]))
                        ELSE Open(vol, p, acc, Mode[disp]))

\* fs_createfile of a new directory
MakeDirectory(p) ==
  /\ Len(p) = 1 /\ p[1] \in Folders
  /\ ~Exists(vol, p)
  /\ VolumeBecomes(Mkdir(vol, p).v)
  /\ UNCHANGED <<inUse, obj>>

\* What a call on an open file leaves behind.
Leaves(o, r) ==
  /\ VolumeBecomes(r.v)
  /\ obj' = [obj EXCEPT ![o].fil = r.f]
  /\ UNCHANGED inUse
SeekUnlessThere(f, ofs) == IF f.fptr # ofs THEN Seek(vol, f, ofs) ELSE Done(vol, f, "FR_OK")

\* fs_readfile: reading beyond the end makes a file longer that is open for
\* writing as well, since f_lseek does.
ReadFile(o, ofs, n) ==
  /\ IsOpen(o)
  /\ LET ReadThere(s) == IF s.res = "FR_OK" THEN Read(s.v, s.f, n) ELSE s
     IN  Leaves(o, ReadThere(SeekUnlessThere(obj[o].fil, ofs)))

\* fs_writefile at a position; PagingIo does not make a file longer.
WriteFile(o, ofs, n, paging) ==
  LET f == obj[o].fil
      clipped == IF paging THEN Min({n, f.objsize - ofs}) ELSE n
      WriteThere(s) == IF s.res = "FR_OK" THEN Write(s.v, s.f, clipped) ELSE s
  IN  /\ Writes(o)
      /\ paging => ofs < f.objsize /\ ofs + n > f.objsize
      /\ Leaves(o, WriteThere(SeekUnlessThere(f, ofs)))

\* fs_writefile at the end of the file: offset -1 is taken for position
\* 0xFFFFFFFF and the file fills the disk.
AppendFile(o, n) ==
  LET Far(s) == IF s.res = "FR_OK" THEN Seek(s.v, s.f, NFat * ClusterSize) ELSE s
      WriteThere(s) == IF s.res = "FR_OK" THEN Write(s.v, s.f, n) ELSE s
  IN  /\ Writes(o)
      /\ Leaves(o, WriteThere(Far(Far(Done(vol, obj[o].fil, "FR_OK")))))

\* fs_flushfilebuffers
FlushBuffers(o) == IsOpen(o) /\ Leaves(o, Sync(vol, obj[o].fil))

TruncateHere(s) == IF s.res = "FR_OK" THEN Truncate(s.v, s.f) ELSE s
\* A file is cut where the position is set.
SeekAndTruncate(f, ofs) == TruncateHere(Seek(vol, f, ofs))
\* fs_setendoffile
SetEndOfFile(o, ofs) == Writes(o) /\ Leaves(o, SeekAndTruncate(obj[o].fil, ofs))
\* fs_setallocationsize: to grow, the file is emptied and expanded in one piece.
SetAllocationSize(o, size) ==
  LET f == obj[o].fil
      Grown(t) == IF size = 0 THEN t ELSE Expand(t.v, t.f, size)
      Emptying(s) == Truncate(s.v, s.f)
  IN  /\ Writes(o)
      /\ Leaves(o, IF size < f.objsize THEN SeekAndTruncate(f, size)
                  ELSE Grown(Emptying(Seek(vol, f, 0))))

\* What follows is done through file objects without a context, which
\* fs_createfile gives to directories and to whoever does not ask for data.
\* They know a path and nothing else: opening and closing them changes nothing.

UnlinkLeaves(r) == r.res = "FR_OK" /\ VolumeBecomes(r.v) /\ UNCHANGED <<inUse, obj>>
\* A mutant: a file is deleted although somebody has it open.
DeleteFileInUse(p) == IsFile(vol, p) /\ UnlinkLeaves(Unlink(vol, p))
\* fs_deletefile, which does not wait for the object to be closed.
\* (fs_deletedirectory refuses every directory.)
DeleteFile(p) == IsFile(vol, p) /\ ~IsFileInUse(p, TRUE) /\ UnlinkLeaves(Unlink(vol, p))

\* fs_cleanup of an object without context that was opened to be deleted on
\* close: a file or a directory.
CleanupDeleting(p) ==
  /\ ~IsFileInUse(p, TRUE)
  /\ VolumeBecomes(Unlink(vol, p).v)
  /\ UNCHANGED <<inUse, obj>>

\* fs_movefile of something that is there, onto something if it may replace it.
MoveFile(p, q, replace) ==
  /\ MovesWithCare(p, q, replace) /\ ~IsFileInUse(p, TRUE)
  /\ KindOf(vol, p) = (IF q[Len(q)] \in Folders THEN "dir" ELSE "file")
  /\ replace => Exists(vol, q)
  /\ VolumeBecomes(Rename(IF replace THEN Unlink(vol, q).v ELSE vol, p, q).v)
  /\ UNCHANGED <<inUse, obj>>

\* fs_getdiskfreespace
GetDiskFreeSpace == VolumeBecomes(GetFree(vol)) /\ UNCHANGED <<inUse, obj>>

\* fs_cleanup: closes the FIL, then deletes by name.  That a file is to be
\* deleted is decided late here; the driver lets nobody open it from then on.
Cleanup(o, deleteOnClose) ==
  LET p == obj[o].path
      closed == Sync(vol, obj[o].fil).v
  IN  /\ IsOpen(o)
      /\ inUse' = Released(p)
      /\ VolumeBecomes(IF deleteOnClose /\ p \notin DOMAIN inUse' THEN Unlink(closed, p).v ELSE closed)
      /\ obj' = [obj EXCEPT ![o] = Closed]

Next ==
  \/ GetDiskFreeSpace
  \/ \E p \in Paths :
       \/ MakeDirectory(p) \/ DeleteFile(p) \/ CleanupDeleting(p)
       \/ \E q \in Paths, replace \in BOOLEAN : MoveFile(p, q, replace)
  \/ \E o \in Objects :
       \/ \E p \in Paths, acc \in Accesses, disp \in Dispositions :
            OpenFile(o, p, acc, disp)
       \/ \E ofs \in Ends, n \in Ends \ {0} :
            ReadFile(o, ofs, n) \/ \E paging \in BOOLEAN : WriteFile(o, ofs, n, paging)
       \/ \E n \in Ends \ {0} : AppendFile(o, n)
       \/ \E ofs \in Ends : SetEndOfFile(o, ofs)
       \/ \E size \in Grants : SetAllocationSize(o, size)
       \/ FlushBuffers(o) \/ \E deleteOnClose \in BOOLEAN : Cleanup(o, deleteOnClose)

Spec == Init /\ [][Next]_vars
-----------------------------------------------------------------------------
Directories ==
  {Root} \cup {vol.slot[p].clust : p \in {q \in Range(Entered(vol, Root)) : vol.slot[q].kind = "dir"}}
Entries == {p \in UNION {Range(Entered(vol, d)) : d \in Directories} :
              vol.slot[p].kind \in {"file", "dir"}}
\* Where the file of an entry begins and how long it is, for whoever has it open.
Current(p) ==
  LET users == {o \in Objects : IsOpen(o) /\ obj[o].fil.place = p}
      f == obj[CHOOSE o \in users : TRUE].fil
  IN  IF users = {} THEN [clust |-> vol.slot[p].clust, size |-> vol.slot[p].size]
                    ELSE [clust |-> f.sclust, size |-> f.objsize]

(* No cluster belongs to two files or directories, every chain ends, every   *)
(* allocated cluster belongs to a chain, as long as the file's size asks     *)
(* for, and once f_getfree has counted, free_clst is the number of the       *)
(* others: nothing fills the disk that nobody can delete, after failed calls *)
(* as well (create_chain, remove_chain and what f_open, f_mkdir and f_expand *)
(* leave when they give up).                                                *)
ClustersAccounted ==
  /\ {c \in Clusters : vol.fat[c] # Free}
       = UNION {ChainSet(vol.fat, Current(p).clust) : p \in Entries}
  /\ \A p \in Entries :
       LET ch == Chain(vol.fat, Current(p).clust)
       IN  /\ ch # <<>> => vol.fat[ch[Len(ch)]] = EOC
           /\ \A q \in Entries \ {p} : ChainSet(vol.fat, Current(q).clust) \cap Range(ch) = {}
           /\ vol.slot[p].kind = "file" =>
                Len(ch) = (Current(p).size + ClusterSize - 1) \div ClusterSize
  /\ vol.free # Unknown => vol.free = FreeClusters(vol)

(* The pieces of a long name stand in front of their entry, nowhere else:   *)
(* dir_register and dir_remove handle the block as one.                     *)
LongNamesWhole ==
  \A d \in Directories :
    LET t == Entered(vol, d)
        Whole(i) == vol.slot[t[i]].kind \in {"file", "dir"}
    IN  /\ \A i \in DOMAIN t : Whole(i) => LfnIntact(vol, t, i, vol.slot[t[i]].name)
        /\ \A i \in DOMAIN t : vol.slot[t[i]].kind = "lfn"
             => \E j \in i + 1 .. i + LfnParts[vol.slot[t[i]].name] :
                  j \in DOMAIN t /\ Whole(j) /\ vol.slot[t[j]].name = vol.slot[t[i]].name

(* What a FIL remembers of its entry is true: the entry is still there under *)
(* the name the program uses, and unless the FIL is modified both have the   *)
(* same start and size.  f_sync writes to that place without another look.   *)
HandlesCurrent ==
  \A o \in Objects : IsOpen(o) =>
    LET f == obj[o].fil IN
    /\ Exists(vol, obj[o].path) /\ PlaceOf(vol, obj[o].path) = f.place
    /\ ~f.modified => f.sclust = vol.slot[f.place].clust /\ f.objsize = vol.slot[f.place].size

(* isFileInUse says a file is in use while somebody has it open: for whoever *)
(* wants to write, and for a reader beside a writer as well.  A second      *)
(* reader breaks this, since m_inUse holds one entry of each path, which the *)
(* first of them to close it takes away (addTrackFileInUse,                 *)
(* releaseFileInUse).                                                       *)
OpenFilesInUse ==
  \A o \in Objects : IsOpen(o) =>
    IsFileInUse(obj[o].path, TRUE) /\ (Writes(o) => IsFileInUse(obj[o].path, FALSE))

(* A file open for writing is open nowhere else (isFileInUse in              *)
(* fs_createfile, whoever comes first): a FIL does not learn what another   *)
(* one does to the chain.                                                   *)
WritersAlone ==
  \A o, x \in Objects : Writes(o) /\ IsOpen(x) /\ obj[o].fil.place = obj[x].fil.place => o = x

FileTableOfVolume == INSTANCE FileTable WITH
  Sizes <- 0 .. (NFat - 2) * ClusterSize,
  table <- listing,
  own <- [o \in Objects |-> IF IsOpen(o) THEN [path |-> obj[o].path, size |-> obj[o].fil.objsize]
                            ELSE None]

(* Whatever FatFs does to directory tables, long names and chains, programs  *)
(* see one file at a time appear, change its size, move and go, and never    *)
(* one that somebody has open.                                              *)
ImplementsFileTable == FileTableOfVolume!TableSpec
=============================================================================
