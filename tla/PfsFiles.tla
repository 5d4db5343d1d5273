------------------------------ MODULE PfsFiles ------------------------------
(***************************************************************************)
(* The files of a PFS3 volume and who has them open:                        *)
(* DokanFileSystemAmigaPFS3 (pfs3_operations.cpp) on top of PFS3lib         *)
(* (pfs3.cpp, directory.cpp, lock.cpp, disk.cpp).                           *)
(*                                                                         *)
(* A directory is a packed block of entries: removing one moves those       *)
(* behind it, and an open file holds the address of its entry, which        *)
(* UpdateChangedRef keeps right.  An object is known by the number of its   *)
(* anode, which a deleted object gives back.                                *)
(*                                                                         *)
(* Modelled: a volume without a directory of deleted files, files in the    *)
(* root directory and in directories of the root directory, entries of one  *)
(* length and one block of them in each directory.  Sizes are in blocks.    *)
(* PfsBlocks has the blocks themselves and what a crash leaves of them.     *)
(***************************************************************************)
EXTENDS SequencesExt, FiniteSetsExt

CONSTANTS Handles,   \* file objects of programs
          Names,     \* names of files and directories
          Folders,   \* those of directories
          Paths,     \* <<name>> or <<directory, name>>
          RootDir,   \* ANODE_ROOTDIR
          MaxAnode,  \* anodes are numbered up to here
          Room,      \* blocks for data
          Ends,      \* sizes and positions programs ask for
          Dir, None, \* for FileTable
          Allow      \* what programs do besides: "careless", "replace", "rmdir"

ASSUME PfsNamesAssumption ==
  /\ Folders \subseteq Names
  /\ \A p \in Paths : \/ p \in Seq(Names) /\ Len(p) = 1
                      \/ p \in Seq(Names) /\ Len(p) = 2 /\ p[1] \in Folders /\ p[2] \notin Folders
ASSUME PfsNumbersAssumption ==
  RootDir \in Nat \ {0} /\ MaxAnode \in Nat /\ Room \in Nat /\ Ends \subseteq Nat
ASSUME PfsMarksAssumption ==
  /\ None # Dir /\ {None, Dir} \cap (0 .. Room) = {}
  /\ None \notin [path : Paths, size : 0 .. Room]
ASSUME PfsAllowAssumption == Allow \subseteq {"careless", "replace", "rmdir"}

VARIABLES g,       \* the library's data: see Global
          inUse,   \* m_inUse
          path,    \* the path each open file object goes by
          alarm,   \* history: ErrorMsg(AFS_ERROR_NEWDIR_ADDLISTENTRY) was shown
          listing  \* history: what the directories show programs

vars == <<g, inUse, path, alarm, listing>>

Anodes == RootDir + 1 .. MaxAnode   \* from ANODE_USERFIRST on
Sizes == 0 .. Room

\* A directory entry; what is behind the last one is zeroes.
Entry == [name : Names, anode : Anodes \cup {0}, kind : {"file", "dir", "zero"}, size : Sizes]
Zeroes(n) == [name |-> n, anode |-> 0, kind |-> "zero", size |-> 0]

\* The file entries (fileentry_t): the anode, where the entry is, the access.
Closed == [open |-> FALSE]
FileEntry == [open : {TRUE}, anode : Anodes \cup {0}, at : Seq(Nat), exclusive : BOOLEAN, offset : Nat]

\* dir: the blocks of the directories; used: anodes in use; le: the open files;
\* locks: anodes of the lock entries NewDir left in the list; avail: alloc_available.
Global == [dir : UNION {[S -> Seq(Entry)] : S \in SUBSET (Anodes \cup {RootDir})},
           used : SUBSET Anodes, le : [Handles -> {Closed} \cup FileEntry],
           locks : SUBSET Anodes, avail : Sizes]
-----------------------------------------------------------------------------
NoPlace == <<0, 0>>

\* SearchInDir
Search(x, d, n) ==
  IF d \notin DOMAIN x.dir THEN 0
  ELSE LET hits == {i \in DOMAIN x.dir[d] : x.dir[d][i].name = n}
       IN  IF hits = {} THEN 0 ELSE Min(hits)
EntryAt(x, at) ==
  IF at[1] \in DOMAIN x.dir /\ at[2] \in DOMAIN x.dir[at[1]]
  THEN x.dir[at[1]][at[2]] ELSE Zeroes(CHOOSE n \in Names : TRUE)
IsFileAt(x, at) == EntryAt(x, at).kind = "file"

\* GetFullPath: the directory a path leads to, 0 if there is none.
FolderOf(x, p) ==
  IF Len(p) = 1 THEN RootDir
  ELSE LET e == EntryAt(x, <<RootDir, Search(x, RootDir, p[1])>>)
       IN  IF e.kind = "dir" THEN e.anode ELSE 0
\* FindObject
PlaceIn(x, d, n) == IF Search(x, d, n) = 0 THEN NoPlace ELSE <<d, Search(x, d, n)>>
Find(x, p) == PlaceIn(x, FolderOf(x, p), Last(p))
Exists(x, p) == Find(x, p) # NoPlace

\* AllocAnode(0): the first one free.
FreeAnodes(x) == Anodes \ x.used
AllocAnode(x) == Min(FreeAnodes(x))

\* Open files of an anode, and the address of an entry changing.
Opened(x, h) == x.le[h] # Closed
UsersOf(x, a) == {h \in Handles : Opened(x, h) /\ x.le[h].anode = a}

\* A mutant: entries behind a removed one are not looked for.
RefAlone(at, from, to, gone) == IF at = from /\ to # NoPlace THEN to ELSE at
\* UpdateChangedRef for one address: the entry at from went to to, if
\* anywhere, and those behind it moved if its room is gone.
RefMoved(at, from, to, gone) ==
  IF at[1] # from[1] THEN at
  ELSE IF at = from THEN IF to = NoPlace THEN at ELSE to
  ELSE IF gone /\ at[2] > from[2] THEN <<at[1], at[2] - 1>> ELSE at
UpdateChangedRef(x, from, to, gone) ==
  [x EXCEPT !.le = [h \in Handles |->
     IF Opened(x, h) THEN [x.le[h] EXCEPT !.at = RefMoved(@, from, to, gone)] ELSE Closed]]

\* RemoveDirEntry and AddDirectoryEntry
RemoveDirEntry(x, at) ==
  IF at[2] \in DOMAIN x.dir[at[1]] THEN [x EXCEPT !.dir[at[1]] = RemoveAt(@, at[2])] ELSE x
AddDirectoryEntry(x, d, e) == [x EXCEPT !.dir[d] = Append(@, e)]
Added(x, d) == <<d, Len(x.dir[d])>>

\* ChangeDirEntry to nothing, into the same directory, into another one.
EntryRemoved(x, from) == UpdateChangedRef(RemoveDirEntry(x, from), from, NoPlace, TRUE)
RenameInPlace(x, from, e) ==
  IF from[2] \in DOMAIN x.dir[from[1]] THEN [x EXCEPT !.dir[from[1]][from[2]] = e]
                                       ELSE AddDirectoryEntry(x, from[1], e)
Across(x, from, d) == UpdateChangedRef(x, from, Added(x, d), TRUE)
RenameAcrossDirs(x, from, d, e) == Across(AddDirectoryEntry(RemoveDirEntry(x, from), d, e), from, d)
ChangeDirEntry(x, from, d, e) ==
  IF from[1] = d THEN RenameInPlace(x, from, e) ELSE RenameAcrossDirs(x, from, d, e)

SetSize(x, at, size) ==
  IF IsFileAt(x, at) THEN [x EXCEPT !.dir[at[1]][at[2]].size = size] ELSE x
-----------------------------------------------------------------------------
\* What a call of the library comes back with.
Result(x, error) == [g |-> x, error |-> error]
Fail(x, error) == Result(x, error)

\* A mutant: only writers are looked for.
ConflictOfWriters(x, a, exclusive) ==
  a \in x.locks \/ \E h \in UsersOf(x, a) : x.le[h].exclusive
AccessConflict(x, a, exclusive) ==
  a \in x.locks \/ \E h \in UsersOf(x, a) : x.le[h].exclusive \/ exclusive

\* MakeListEntry and AddListEntry for a file.
AddListEntry(x, h, at, exclusive) ==
  IF AccessConflict(x, EntryAt(x, at).anode, exclusive) THEN Fail(x, "eInUse")
  ELSE Result([x EXCEPT !.le[h] = [open |-> TRUE, anode |-> EntryAt(x, at).anode, at |-> at,
                                   exclusive |-> exclusive, offset |-> 0]], "eOK")

\* NewFile of a file that is there: it is emptied, and keeps entry and anode.
NewFileFound(x, at) ==
  SetSize([x EXCEPT !.avail = @ + EntryAt(x, at).size], at, 0)
\* NewFile of a new one: MakeDirEntry, AddDirectoryEntry.
NewEntry(x, d, n, kind) ==
  AddDirectoryEntry([x EXCEPT !.used = @ \cup {AllocAnode(x)}], d,
                    [name |-> n, anode |-> AllocAnode(x), kind |-> kind, size |-> 0])

AddLast(x, h, d, exclusive) == AddListEntry(x, h, Added(x, d), exclusive)
\* PFS3::Createfile.  What NewFile did stays if the access is refused then.
CreatefileFound(x, h, at, mode, readOnly) ==
  IF ~IsFileAt(x, at) THEN Fail(x, "eNotFile")
  ELSE IF mode = "omCreate" THEN Fail(x, "eAlreadyExists")
  ELSE IF readOnly /\ mode = "omTruncateExisting" THEN Fail(x, "eAccessDenied")
  ELSE AddListEntry(IF mode \in {"omCreateAlways", "omTruncateExisting"} THEN NewFileFound(x, at) ELSE x,
                    h, at, ~readOnly)
CreatefileNew(x, h, d, n, mode, readOnly) ==
  IF d = 0 \/ mode \in {"omOpenExisting", "omTruncateExisting"} THEN Fail(x, "eNotFound")
  ELSE IF readOnly /\ mode = "omCreate" THEN Fail(x, "eAccessDenied")
  ELSE IF FreeAnodes(x) = {} THEN Fail(x, "eDiskFull")
  ELSE AddLast(NewEntry(x, d, n, "file"), h, d, ~readOnly)
Createfile(x, h, p, mode, readOnly) ==
  IF Exists(x, p) THEN CreatefileFound(x, h, Find(x, p), mode, readOnly)
  ELSE CreatefileNew(x, h, FolderOf(x, p), Last(p), mode, readOnly)

\* NewDir: the lock entry it makes is never released (PFS3::MkDir drops the
\* pointer), and if there is one already for the anode it gives up.
NewDirLocked(x, d, a) ==
  IF AccessConflict(x, a, TRUE)
  THEN Fail([RemoveDirEntry(x, Added(x, d)) EXCEPT !.used = @ \ {a}], "alarm")
  ELSE Result([x EXCEPT !.locks = @ \cup {a},
                       !.dir = [c \in DOMAIN @ \cup {a} |-> IF c = a THEN <<>> ELSE @[c]]], "eOK")
MkDir(x, p) ==
  IF FolderOf(x, p) = 0 THEN Fail(x, "eNotFound")
  ELSE IF Exists(x, p) THEN Fail(x, "eAlreadyExists")
  ELSE IF FreeAnodes(x) = {} THEN Fail(x, "eDiskFull")
  ELSE NewDirLocked(NewEntry(x, FolderOf(x, p), Last(p), "dir"), FolderOf(x, p), AllocAnode(x))

\* DeleteDir and DeleteObject: nobody looks whether the object is open.
DirGone(x, a) == [x EXCEPT !.dir = [d \in DOMAIN @ \ {a} |-> @[d]], !.used = @ \ {a}]
\* A mutant: the anode stays allocated.
FileKeepsAnode(x, e) == [x EXCEPT !.avail = @ + e.size]
FileGone(x, e) == [x EXCEPT !.used = @ \ {e.anode}, !.avail = @ + e.size]
DeleteObject(x, at) ==
  LET e == EntryAt(x, at) IN
  IF e.kind = "dir"
  THEN IF x.dir[e.anode] # <<>> THEN Fail(x, "eNotEmpty")
       ELSE Result(EntryRemoved(DirGone(x, e.anode), at), "eOK")
  ELSE Result(FileGone(EntryRemoved(x, at), e), "eOK")
Deletefile(x, p) == IF Exists(x, p) THEN DeleteObject(x, Find(x, p)) ELSE Fail(x, "eNotFound")
RmDir(x, p) ==
  IF EntryAt(x, Find(x, p)).kind = "dir" THEN DeleteObject(x, Find(x, p)) ELSE Fail(x, "eNotFound")

\* A mutant: nobody looks whether the new name is taken.
RenameOnto(x, from, d, n) ==
  Result(ChangeDirEntry(x, from, d, [EntryAt(x, from) EXCEPT !.name = n]), "eOK")
\* RenameAndMove, given the address the source was found at.
RenameAndMove(x, from, d, n) ==
  IF PlaceIn(x, d, n) \notin {NoPlace, from} THEN Fail(x, "eAlreadyExists")
  ELSE Result(ChangeDirEntry(x, from, d, [EntryAt(x, from) EXCEPT !.name = n]), "eOK")
\* PFS3::Movefile: the source is found before the target is deleted.
Movefile(x, p, q, replace) ==
  LET r == IF replace /\ Exists(x, q) THEN Deletefile(x, q) ELSE Result(x, "eOK")
  IN  IF ~Exists(x, p) \/ FolderOf(x, q) = 0 THEN Fail(x, "eNotFound")
      ELSE IF r.error # "eOK" THEN r
      ELSE RenameAndMove(r.g, Find(x, p), FolderOf(x, q), Last(q))

SizeOf(x, h) == EntryAt(x, x.le[h].at).size
\* SeekInFile
Seekfile(x, h, ofs) ==
  IF ofs > SizeOf(x, h) THEN Fail(x, "eSeekError") ELSE Result([x EXCEPT !.le[h].offset = ofs], "eOK")
SeekUnlessThere(x, h, ofs) ==
  IF x.le[h].offset = ofs THEN Result(x, "eOK") ELSE Seekfile(x, h, ofs)
\* AllocateBlocksAC and FreeBlocksAC, as far as the size of the file goes.
Resized(x, h, size) ==
  SetSize([x EXCEPT !.avail = (@ + SizeOf(x, h)) - size], x.le[h].at, size)
NoRoom(x, h, size) == size > SizeOf(x, h) + x.avail
\* WriteToFile
Writefile(x, h, n) ==
  LET end == x.le[h].offset + n IN
  IF ~IsFileAt(x, x.le[h].at) THEN Fail(x, "eNotFile")
  ELSE IF NoRoom(x, h, end) THEN Fail(x, "eDiskFull")
  ELSE Result([Resized(x, h, Max({end, SizeOf(x, h)})) EXCEPT !.le[h].offset = end], "eOK")
\* A mutant: the position goes on by what was asked for.
ReadAsked(x, h, n) == Result([x EXCEPT !.le[h].offset = @ + n], "eOK")
\* ReadFromFile
Readfile(x, h, n) == Result([x EXCEPT !.le[h].offset = Min({@ + n, SizeOf(x, h)})], "eOK")

\* The end of ChangeFileSize: whoever stands behind the new end is moved there.
PositionsCut(x, a, size) ==
  [x EXCEPT !.le = [h \in Handles |->
     IF h \in UsersOf(x, a) THEN [x.le[h] EXCEPT !.offset = Min({@, size})] ELSE x.le[h]]]
ChangefileSize(x, h, size) ==
  IF ~IsFileAt(x, x.le[h].at) THEN Fail(x, "eNotFile")
  ELSE IF NoRoom(x, h, size) THEN Fail(x, "eDiskFull")
  ELSE Result(PositionsCut(Resized(x, h, size), x.le[h].anode, size), "eOK")
TruncateAt(r, h) == IF r.error = "eOK" THEN ChangefileSize(r.g, h, r.g.le[h].offset) ELSE r
-----------------------------------------------------------------------------
Modes == [CREATE_ALWAYS |-> "omCreateAlways", CREATE_NEW |-> "omCreate", OPEN_ALWAYS |-> "omOpenAlways",
          OPEN_EXISTING |-> "omOpenExisting", TRUNCATE_EXISTING |-> "omTruncateExisting"]

IsFileInUse(p, readOnly) == p \in DOMAIN inUse /\ inUse[p] # readOnly
\* addTrackFileInUse: std::map::insert keeps what is there.
Tracked(p, readOnly) ==
  [x \in DOMAIN inUse \cup {p} |-> IF x \in DOMAIN inUse THEN inUse[x] ELSE readOnly]
\* releaseFileInUse
Released(p) == [x \in DOMAIN inUse \ {p} |-> inUse[x]]

\* Programs that keep their hands off what somebody has open.
Careful(p) == "careless" \in Allow \/ UsersOf(g, EntryAt(g, Find(g, p)).anode) = {}
\* A target goes that does not stand before its source in the same directory.
ReplacesBehind(p, q) ==
  LET from == Find(g, p)
      to == Find(g, q)
  IN  "replace" \in Allow \/ to = NoPlace \/ to[1] # from[1] \/ to[2] > from[2]
\* Directories that were there when the volume was mounted.
MadeBefore(p) == "rmdir" \in Allow \/ EntryAt(g, Find(g, p)).anode \notin g.locks

\* fs_findfiles, fs_getfileinformation
Shown(x, at) ==
  IF at = NoPlace THEN None ELSE IF EntryAt(x, at).kind = "dir" THEN Dir ELSE EntryAt(x, at).size
Listing(x) == [p \in Paths |-> Shown(x, Find(x, p))]
VolumeBecomes(x) == g' = x /\ listing' = Listing(g')

\* A mounted volume with some directories, and nothing in them.
Formatted(order) ==
  [dir |-> [d \in {RootDir} \cup {RootDir + i : i \in DOMAIN order} |->
              IF d = RootDir
              THEN [i \in DOMAIN order |-> [name |-> order[i], anode |-> RootDir + i, kind |-> "dir", size |-> 0]]
              ELSE <<>>],
   used |-> {RootDir + i : i \in DOMAIN order}, le |-> [h \in Handles |-> Closed],
   locks |-> {}, avail |-> Room]
Init ==
  /\ \E S \in SUBSET Folders :
       IsFiniteSet(S) /\ Cardinality(S) <= Cardinality(Anodes) /\ g = Formatted(SetToSeq(S))
  /\ inUse = <<>> /\ path = [h \in Handles |-> <<>>]
  /\ alarm = FALSE /\ listing = Listing(g)

\* fs_createfile of a file, with access to its data.
OpenFile(h, p, readOnly, disp) ==
  LET r == Createfile(g, h, p, Modes[disp], readOnly) IN
  /\ ~Opened(g, h) /\ Last(p) \notin Folders
  /\ disp \in {"CREATE_ALWAYS", "TRUNCATE_EXISTING"} => Careful(p)
  /\ ~IsFileInUse(p, readOnly)
  /\ disp \in {"CREATE_ALWAYS", "CREATE_NEW"} /\ ~Exists(g, p) => g.avail > 0
  /\ VolumeBecomes(r.g)
  /\ IF r.error = "eOK" THEN inUse' = Tracked(p, readOnly) /\ path' = [path EXCEPT ![h] = p]
                        ELSE UNCHANGED <<inUse, path>>
  /\ UNCHANGED alarm

\* fs_createfile of a new directory
MakeDirectory(p) ==
  LET r == MkDir(g, p) IN
  /\ Last(p) \in Folders /\ ~Exists(g, p)
  /\ VolumeBecomes(r.g)
  /\ alarm' = (alarm \/ r.error = "alarm")
  /\ UNCHANGED <<inUse, path>>

\* What a call on an open file leaves behind.
Leaves(r) == VolumeBecomes(r.g) /\ UNCHANGED <<inUse, path, alarm>>

\* fs_readfile
ReadFile(h, ofs, n) ==
  LET s == SeekUnlessThere(g, h, ofs)
  IN  Opened(g, h) /\ Leaves(IF s.error = "eOK" THEN Readfile(s.g, h, n) ELSE s)

\* fs_writefile; PagingIo does not make a file longer.
WriteAt(s, h, n) == IF s.error = "eOK" THEN Writefile(s.g, h, n) ELSE s
WriteFile(h, ofs, n, paging) ==
  /\ Opened(g, h) /\ g.le[h].exclusive
  /\ paging => ofs < SizeOf(g, h)
  /\ Leaves(WriteAt(SeekUnlessThere(g, h, ofs), h, IF paging THEN Min({n, SizeOf(g, h) - ofs}) ELSE n))
\* ... at the end, offset -1
AppendFile(h, n) ==
  /\ Opened(g, h) /\ g.le[h].exclusive
  /\ Leaves(WriteAt(Seekfile(g, h, SizeOf(g, h)), h, n))

\* fs_setendoffile: a position behind the end is refused.
SetEndOfFile(h, ofs) ==
  /\ Opened(g, h) /\ g.le[h].exclusive
  /\ Leaves(TruncateAt(SeekUnlessThere(g, h, ofs), h))
\* fs_setallocationsize
SetAllocationSize(h, size) ==
  /\ Opened(g, h) /\ g.le[h].exclusive /\ size # SizeOf(g, h)
  /\ Leaves(IF size < SizeOf(g, h) THEN TruncateAt(Seekfile(g, h, size), h) ELSE ChangefileSize(g, h, size))

\* fs_deletefile: somebody who writes the file is no obstacle.
DeleteFile(p) ==
  /\ Careful(p) /\ ~IsFileInUse(p, FALSE) /\ MadeBefore(p)
  /\ Leaves(Deletefile(g, p))
\* fs_deletedirectory
DeleteDirectory(p) == MadeBefore(p) /\ Leaves(RmDir(g, p))

\* fs_movefile; the driver then knows open files by the new path.
MoveFile(p, q, replace) ==
  LET r == Movefile(g, p, q, replace) IN
  /\ Last(p) \in Folders <=> Last(q) \in Folders
  /\ Careful(p) /\ (replace => Careful(q) /\ ReplacesBehind(p, q) /\ MadeBefore(q))
  /\ "careless" \in Allow \/ \A h \in Handles : Len(path[h]) = 2 => p # <<path[h][1]>>
  /\ p = q => ~replace \/ "careless" \in Allow
  /\ VolumeBecomes(r.g)
  /\ path' = [h \in Handles |-> IF r.error = "eOK" /\ path[h] = p THEN q ELSE path[h]]
  /\ UNCHANGED <<inUse, alarm>>

\* fs_cleanup: Closefile, releaseFileInUse, then fs_deletefile if so wanted.
ClosedBy(h) == [g EXCEPT !.le[h] = Closed]
DeletesToo(p) == p \notin DOMAIN inUse' \/ inUse'[p] = FALSE
Cleanup(h, deleteOnClose) ==
  LET p == path[h] IN
  /\ Opened(g, h)
  /\ deleteOnClose => "careless" \in Allow \/ UsersOf(g, g.le[h].anode) = {h}
  /\ inUse' = Released(p)
  /\ path' = [path EXCEPT ![h] = <<>>]
  /\ VolumeBecomes(IF deleteOnClose /\ DeletesToo(p) THEN Deletefile(ClosedBy(h), p).g ELSE ClosedBy(h))
  /\ UNCHANGED alarm

Next ==
  \/ \E p \in Paths :
       \/ MakeDirectory(p) \/ DeleteFile(p) \/ DeleteDirectory(p)
       \/ \E q \in Paths, replace \in BOOLEAN : MoveFile(p, q, replace)
  \/ \E h \in Handles :
       \/ \E p \in Paths, readOnly \in BOOLEAN, disp \in DOMAIN Modes : OpenFile(h, p, readOnly, disp)
       \/ \E ofs \in Ends, n \in Ends \ {0} :
            ReadFile(h, ofs, n) \/ \E paging \in BOOLEAN : WriteFile(h, ofs, n, paging)
       \/ \E n \in Ends \ {0} : AppendFile(h, n)
       \/ \E ofs \in Ends : SetEndOfFile(h, ofs) \/ SetAllocationSize(h, ofs)
       \/ \E deleteOnClose \in BOOLEAN : Cleanup(h, deleteOnClose)

Spec == Init /\ [][Next]_vars
-----------------------------------------------------------------------------
Entries == UNION {{<<d, i>> : i \in DOMAIN g.dir[d]} : d \in DOMAIN g.dir}

(* Every anode in use has one entry, every entry an anode of its own, every  *)
(* directory one entry, and no two entries of a directory have one name:    *)
(* AllocAnode, FreeAnode, AddDirectoryEntry and RemoveDirEntry go together. *)
OneEntryEach ==
  /\ {EntryAt(g, at).anode : at \in Entries} = g.used
  /\ \A at, to \in Entries : EntryAt(g, at).anode = EntryAt(g, to).anode => at = to
  /\ DOMAIN g.dir = {RootDir} \cup {EntryAt(g, at).anode : at \in {x \in Entries : EntryAt(g, x).kind = "dir"}}
  /\ \A d \in DOMAIN g.dir : \A i, j \in DOMAIN g.dir[d] : g.dir[d][i].name = g.dir[d][j].name => i = j

(* An open file's address is that of the entry with its anode, and the path  *)
(* the program uses leads there, whatever is deleted and moved around it:   *)
(* sizes and dates are written to that address without another look.        *)
ReferencesCurrent ==
  \A h \in Handles : Opened(g, h) =>
    /\ EntryAt(g, g.le[h].at).anode = g.le[h].anode
    /\ g.le[h].at = Find(g, path[h])

(* Nobody's position is behind the end of the file: the anode node it stands *)
(* on has been freed then (ChangeFileSize, SeekInFile).                     *)
OffsetsInside == \A h \in Handles : Opened(g, h) => g.le[h].offset <= SizeOf(g, h)

(* A file open for writing is open nowhere else, although m_inUse forgets    *)
(* the second of two readers: AccessConflict refuses what it lets pass.     *)
WritersAlone ==
  \A h, k \in Handles : Opened(g, h) /\ Opened(g, k) /\ g.le[h].anode = g.le[k].anode /\ h # k
                          => ~g.le[h].exclusive

(* NewDir's lock is never refused: "Should never fail, accessconflict        *)
(* impossible".  With "rmdir" in Allow it is: see the README.               *)
NewDirNeverConflicts == ~alarm

FileTableOfVolume == INSTANCE FileTable WITH
  Objects <- Handles, table <- listing,
  own <- [h \in Handles |-> IF Opened(g, h) THEN [path |-> path[h], size |-> SizeOf(g, h)] ELSE None]

(* Whatever moves in the directory blocks, programs see one file at a time   *)
(* appear, change its size, move and go, and never one somebody has open.   *)
ImplementsFileTable == FileTableOfVolume!TableSpec
=============================================================================
