----------------------------- MODULE FatVolume -----------------------------
(***************************************************************************)
(* FatFs (fatfs/source/ff.c) on a FAT12 or FAT16 volume: the allocation     *)
(* table, directories and file objects, as operators on a volume v and on   *)
(* the fields of an open FIL.                                               *)
(*                                                                         *)
(* A volume is [fat, slot, free, last]: the FAT, the 32-byte directory      *)
(* entries by place, and free_clst and last_clst of the FATFS object.  The  *)
(* root directory is a table of fixed size; the other directories are       *)
(* chains of clusters.  Sizes and positions count sectors.                  *)
(*                                                                         *)
(* Not modelled: contents of files, times, attributes, failing disk         *)
(* accesses, exFAT, and the numbered short names of long names.  What a     *)
(* free cluster still holds is forgotten.                                   *)
(***************************************************************************)
EXTENDS Integers, SequencesExt, FiniteSetsExt, Functions, TLC

CONSTANTS NFat,          \* fs->n_fatent: clusters are 2 .. n_fatent - 1
          ClusterSize,   \* sectors in a cluster
          RootEntries,   \* fs->n_rootdir
          PerCluster,    \* directory entries in a cluster
          Names,         \* file and directory names
          LfnParts       \* [Names -> Nat]: entries the long form of a name takes

ASSUME FatAssumption == NFat \in Nat /\ NFat > 3 /\ ClusterSize \in Nat \ {0}
ASSUME EntriesAssumption ==
  /\ RootEntries \in Nat \ {0} /\ PerCluster \in Nat /\ PerCluster > 2
  /\ LfnParts \in [Names -> 0 .. PerCluster - 1]

Clusters == 2 .. NFat - 1
Free == 0
EOC == NFat              \* stands for every value from n_fatent on
Unknown == NFat - 1      \* of free_clst: more than n_fatent - 2
Root == 0                \* the "cluster" of the root directory

\* An entry: DIR_Name 0 (nothing follows) or DDEM, a piece of a long name, a
\* file, a directory or one of "." and "..".
Slot == [kind : {"end", "free", "lfn", "file", "dir", "dot"}, name : Names \cup {"."},
         clust : 0 .. NFat - 1, size : Nat]
Blank(kind) == [kind |-> kind, name |-> ".", clust |-> 0, size |-> 0]
Places == ({Root} \X (1 .. RootEntries)) \cup (Clusters \X (1 .. PerCluster))

Volume == [fat : [Clusters -> 0 .. NFat], slot : [Places -> Slot],
           free : 0 .. NFat - 1, last : 0 .. NFat]
\* A FIL: its access, FA_MODIFIED, err, the copy of start cluster and size,
\* the position with its cluster (0 at position 0, where it is not used), and
\* where its entry is.
Fil == [acc : SUBSET {"r", "w"}, modified : BOOLEAN, err : BOOLEAN,
        sclust : 0 .. NFat - 1, objsize : Nat, fptr : Nat, clust : 0 .. NFat - 1,
        place : Places]
-----------------------------------------------------------------------------
(* The allocation table *)

\* get_fat, again and again from cluster c until the chain ends.
Chain(fat, c) ==
  LET walk[k \in 0 .. NFat] ==
        IF k = 0 THEN IF c \in Clusters THEN <<c>> ELSE <<>>
        ELSE LET w == walk[k - 1]
             IN  IF w = <<>> \/ fat[w[Len(w)]] \notin Clusters THEN w
                 ELSE Append(w, fat[w[Len(w)]])
  IN  walk[NFat]
ChainSet(fat, c) == Range(Chain(fat, c))

\* The clusters gone, which follow p, are free from now on.
FreeAll(v, gone, p) ==
  [v EXCEPT !.fat = [x \in {p} \cap Clusters |-> EOC] @@ [x \in gone |-> Free] @@ @,
            !.slot = [x \in gone \X (1 .. PerCluster) |-> Blank("end")] @@ @,
            !.free = IF @ = Unknown THEN @ ELSE Min({@ + Cardinality(gone), NFat - 2})]
\* remove_chain from cluster c on, which follows p (0: the whole chain).
FreeChain(v, c, p) == FreeAll(v, {x \in ChainSet(v.fat, c) : v.fat[x] # Free}, p)

FirstOf(indices) == IF indices = {} THEN 0 ELSE Min(indices)
\* The first free cluster after scl, going round once; 0 if there is none.
NextFree(fat, scl) ==
  LET free == {c \in Clusters : fat[c] = Free}
  IN  FirstOf(IF \E c \in free : c > scl THEN {c \in free : c > scl} ELSE free)

Suggested(v) == IF v.last \in Clusters THEN v.last ELSE 1
Following(c) == IF c + 1 < NFat THEN c + 1 ELSE 2

\* Which free cluster create_chain takes to stretch c (0: to begin a chain).
Candidate(v, c) ==
  IF v.free = 0 THEN 0
  ELSE IF c = 0 THEN NextFree(v.fat, Suggested(v))
  ELSE IF v.fat[Following(c)] = Free THEN Following(c)
  ELSE NextFree(v.fat, IF v.last \in Clusters THEN v.last ELSE c)

\* Cluster n, allocated after c (0: at the beginning of a chain).
Appended(v, c, n) ==
  [v EXCEPT !.fat = [x \in {c} \cap Clusters |-> n] @@ (n :> EOC) @@ @,
            !.last = n,
            !.free = IF @ = Unknown THEN @ ELSE @ - 1]
AppendedIfAny(v, c, n) == [v |-> IF n = 0 THEN v ELSE Appended(v, c, n), clst |-> n]
\* create_chain: the cluster after c, allocated if c is the last one; clst 0
\* when the disk is full, 1 when c is not allocated.
Stretch(v, c) ==
  IF c # 0 /\ v.fat[c] < 2 THEN [v |-> v, clst |-> 1]
  ELSE IF c # 0 /\ v.fat[c] < NFat THEN [v |-> v, clst |-> v.fat[c]]
  ELSE AppendedIfAny(v, c, Candidate(v, c))

FreeClusters(v) == Cardinality({c \in Clusters : v.fat[c] = Free})
\* f_getfree counts once, and trusts its count from then on.
GetFree(v) == [v EXCEPT !.free = IF @ = Unknown THEN FreeClusters(v) ELSE @]
-----------------------------------------------------------------------------
(* Directories *)

\* dir_sdi and dir_next: the places of the directory that begins at cluster d.
PlacesOf(chain) ==
  [i \in 1 .. PerCluster * Len(chain) |->
     <<chain[1 + (i - 1) \div PerCluster], 1 + ((i - 1) % PerCluster)>>]
Table(v, d) ==
  IF d = Root THEN [i \in 1 .. RootEntries |-> <<Root, i>>] ELSE PlacesOf(Chain(v.fat, d))

\* What a walk through directory d meets before the first DIR_Name 0.
UpToEnd(v, t) ==
  SubSeq(t, 1, Min({i \in DOMAIN t : v.slot[t[i]].kind = "end"} \cup {Len(t) + 1}) - 1)
Entered(v, d) == UpToEnd(v, Table(v, d))

\* The pieces of the long name are in front of the i-th entry of table t.
LfnIntact(v, t, i, n) ==
  \A k \in 1 .. LfnParts[n] :
    k < i /\ v.slot[t[i - k]].kind = "lfn" /\ v.slot[t[i - k]].name = n
\* dir_find: the index of name n in a directory that has the entries t, or 0.
FindAmong(v, t, n) ==
  FirstOf({i \in DOMAIN t : /\ v.slot[t[i]].kind \in {"file", "dir"}
                            /\ v.slot[t[i]].name = n /\ LfnIntact(v, t, i, n)})
Find(v, d, n) == FindAmong(v, Entered(v, d), n)

\* follow_path of <<name>> or <<directory, name>>: the directory, the index and
\* the place of the entry, 0 and <<>> if there is none.
At(v, d, i) ==
  IF i = 0 THEN [res |-> "FR_NO_FILE", dir |-> d, idx |-> 0, place |-> <<>>]
           ELSE [res |-> "FR_OK", dir |-> d, idx |-> i, place |-> Table(v, d)[i]]
Below(v, top, n) ==
  IF top = 0 \/ v.slot[<<Root, top>>].kind # "dir"
  THEN [res |-> "FR_NO_PATH", dir |-> Root, idx |-> 0, place |-> <<>>]
  ELSE At(v, v.slot[<<Root, top>>].clust, Find(v, v.slot[<<Root, top>>].clust, n))
FollowPath(v, path) ==
  IF Len(path) = 1 THEN At(v, Root, Find(v, Root, path[1]))
                   ELSE Below(v, Find(v, Root, path[1]), path[2])
PlaceOf(v, path) == FollowPath(v, path).place
Exists(v, path) == FollowPath(v, path).res = "FR_OK"
\* f_stat: what the path denotes, "none" if nothing.
KindAt(v, place) == IF place = <<>> THEN "none" ELSE v.slot[place].kind
KindOf(v, path) == KindAt(v, PlaceOf(v, path))
IsFile(v, path) == KindOf(v, path) = "file"
IsDir(v, path) == KindOf(v, path) = "dir"

\* dir_clear
Cleared(v, c) ==
  [v EXCEPT !.slot = [p \in {c} \X (1 .. PerCluster) |-> Blank("end")] @@ @]

\* Blocks of n free entries in table t, by their last index.
Gaps(v, t, n) ==
  {i \in n .. Len(t) : \A j \in i - n + 1 .. i : v.slot[t[j]].kind \in {"free", "end"}}
\* dir_alloc: the first such block, in a directory stretched if need be; idx is
\* 0 if the root directory or the disk is full.
InStretched(v, d, n, more) ==
  IF more.clst = 0 THEN [v |-> v, idx |-> 0]
  ELSE LET w == Cleared(more.v, more.clst) IN [v |-> w, idx |-> FirstOf(Gaps(w, Table(w, d), n))]
DirAlloc(v, d, n) ==
  LET t == Table(v, d)
      here == FirstOf(Gaps(v, t, n))
  IN  IF here # 0 \/ d = Root THEN [v |-> v, idx |-> here]
      ELSE InStretched(v, d, n, Stretch(v, t[Len(t)][1]))

\* dir_register: the pieces of the long name and an empty entry after them.
WithName(v, t, i, n) ==
  [v EXCEPT !.slot = (t[i] :> [Blank("file") EXCEPT !.name = n])
                       @@ [p \in {t[j] : j \in i - LfnParts[n] .. i - 1} |->
                             [Blank("lfn") EXCEPT !.name = n]] @@ @]
RegisterAt(v, at, d, n) ==
  IF at.idx = 0 THEN [v |-> v, idx |-> 0, place |-> <<>>]
  ELSE LET t == Table(at.v, d)
       IN  [v |-> WithName(at.v, t, at.idx, n), idx |-> at.idx, place |-> t[at.idx]]
Register(v, d, n) == RegisterAt(v, DirAlloc(v, d, LfnParts[n] + 1), d, n)

\* A mutant: the long name stays behind.
RemoveShort(v, t, i) == [v EXCEPT !.slot[t[i]] = Blank("free")]
\* dir_remove of the i-th entry of table t and of its long name.
RemoveBlock(v, t, i) ==
  LET gone == {t[j] : j \in i - LfnParts[v.slot[t[i]].name] .. i}
  IN  [v EXCEPT !.slot = [p \in gone |-> Blank("free")] @@ @]
Unregister(v, d, i) == RemoveBlock(v, Table(v, d), i)

\* The first entry other than "." and "..", as DIR_READ_FILE finds it.
IsEmptyDir(v, d) == \A p \in Range(Entered(v, d)) : v.slot[p].kind \notin {"file", "dir"}
-----------------------------------------------------------------------------
(* Calls by name: the volume afterwards and the result *)

Result(v, res) == [v |-> v, res |-> res]

\* f_unlink of what follow_path has found.
UnlinkAt(v, at) ==
  LET e == v.slot[at.place]
  IN  IF at.res # "FR_OK" THEN Result(v, at.res)
      ELSE IF e.kind = "dir" /\ ~IsEmptyDir(v, e.clust) THEN Result(v, "FR_DENIED")
      ELSE Result(IF e.clust = 0 THEN Unregister(v, at.dir, at.idx)
                  ELSE FreeChain(Unregister(v, at.dir, at.idx), e.clust, 0), "FR_OK")
Unlink(v, path) == UnlinkAt(v, FollowPath(v, path))

DotEntries(v, c, parent) ==
  [v EXCEPT !.slot[<<c, 1>>] = [Blank("dot") EXCEPT !.clust = c],
            !.slot[<<c, 2>>] = [Blank("dot") EXCEPT !.clust = parent]]

\* A mutant: the new cluster is not given back.
MkdirKeeping(v, w, c, reg) ==
  IF reg.idx = 0 THEN Result(w, "FR_DENIED")
  ELSE Result([reg.v EXCEPT !.slot[reg.place].kind = "dir", !.slot[reg.place].clust = c], "FR_OK")
\* The end of f_mkdir: the table in cluster c of w is given back if it could
\* not be registered.
MkdirRegistered(v, w, c, reg) ==
  IF reg.idx = 0 THEN Result(FreeChain(w, c, 0), "FR_DENIED")
  ELSE Result([reg.v EXCEPT !.slot[reg.place].kind = "dir", !.slot[reg.place].clust = c], "FR_OK")
\* f_mkdir, with the new cluster it has got.
MkdirIn(v, at, new, n) ==
  LET w == DotEntries(Cleared(new.v, new.clst), new.clst, at.dir)
  IN  IF at.res # "FR_NO_FILE" THEN Result(v, IF at.res = "FR_OK" THEN "FR_EXIST" ELSE at.res)
      ELSE IF new.clst = 0 THEN Result(v, "FR_DENIED")
      ELSE MkdirRegistered(v, w, new.clst, Register(w, at.dir, n))
Mkdir(v, path) == MkdirIn(v, FollowPath(v, path), Stretch(v, 0), path[Len(path)])

\* f_rename: the new entry is registered first, then takes everything but the
\* name from the old one, which is removed; ".." of a directory follows.
Moved(v, from, to, reg, n) ==
  LET e == v.slot[from.place]
      w == [reg.v EXCEPT !.slot[reg.place] = [e EXCEPT !.name = n]]
      up == IF e.kind = "dir" /\ from.dir # to.dir
            THEN [w EXCEPT !.slot[<<e.clust, 2>>].clust = to.dir] ELSE w
  IN  IF reg.idx = 0 THEN Result(v, "FR_DENIED")
      ELSE Result(Unregister(up, from.dir, from.idx), "FR_OK")
\* A mutant: the new name is not looked for.
RenameOnto(v, from, to, n) ==
  IF from.res # "FR_OK" THEN Result(v, from.res)
  ELSE IF to.res = "FR_NO_PATH" THEN Result(v, "FR_NO_PATH")
  ELSE Moved(v, from, to, Register(v, to.dir, n), n)
RenameAt(v, from, to, n) ==
  LET same == to.dir = from.dir /\ to.idx = from.idx
  IN  IF from.res # "FR_OK" THEN Result(v, from.res)
      ELSE IF to.res = "FR_OK" /\ ~same THEN Result(v, "FR_EXIST")
      ELSE IF to.res = "FR_NO_PATH" THEN Result(v, "FR_NO_PATH")
      ELSE Moved(v, from, to, Register(v, to.dir, n), n)
Rename(v, old, new) == RenameAt(v, FollowPath(v, old), FollowPath(v, new), new[Len(new)])
-----------------------------------------------------------------------------
(* Open files: the volume, the file object and the result *)

Done(v, f, res) == [v |-> v, f |-> f, res |-> res]
Aborted(v, f) == Done(v, [f EXCEPT !.err = TRUE], "FR_INT_ERR")
NoFil == [acc |-> {}, modified |-> FALSE, err |-> FALSE, sclust |-> 0, objsize |-> 0,
          fptr |-> 0, clust |-> 0, place |-> <<Root, 1>>]

\* The file object of the entry at place p.
FilOf(v, p, acc, modified) ==
  [NoFil EXCEPT !.acc = acc, !.modified = modified, !.place = p,
                !.sclust = v.slot[p].clust, !.objsize = v.slot[p].size]

\* The file at place p made empty; its clusters are the next to be reused.
Emptied(v, p) ==
  LET c == v.slot[p].clust
      w == [v EXCEPT !.slot[p] = [@ EXCEPT !.clust = 0, !.size = 0]]
  IN  IF c = 0 THEN w ELSE [FreeChain(w, c, 0) EXCEPT !.last = c - 1]

\* f_open with mode "existing", "new", "always" or "overwrite" (FA_OPEN_EXISTING,
\* FA_CREATE_NEW, FA_OPEN_ALWAYS, FA_CREATE_ALWAYS).
OpenNew(v, reg, acc) ==
  IF reg.idx = 0 THEN Done(v, NoFil, "FR_DENIED")
  ELSE Done(reg.v, FilOf(reg.v, reg.place, acc, TRUE), "FR_OK")
OpenEmptied(v, p, acc) == Done(v, FilOf(v, p, acc, TRUE), "FR_OK")
OpenAt(v, at, n, acc, mode) ==
  LET p == at.place
      isDir == v.slot[p].kind = "dir"
  IN  IF at.res = "FR_NO_FILE" /\ mode # "existing" THEN OpenNew(v, Register(v, at.dir, n), acc)
      ELSE IF at.res # "FR_OK" THEN Done(v, NoFil, at.res)
      ELSE IF mode = "existing" /\ isDir THEN Done(v, NoFil, "FR_NO_FILE")
      ELSE IF isDir THEN Done(v, NoFil, "FR_DENIED")
      ELSE IF mode = "new" THEN Done(v, NoFil, "FR_EXIST")
      ELSE IF mode = "overwrite" THEN OpenEmptied(Emptied(v, p), p, acc)
      ELSE Done(v, FilOf(v, p, acc, FALSE), "FR_OK")
Open(v, path, acc, mode) == OpenAt(v, FollowPath(v, path), path[Len(path)], acc, mode)

\* f_sync: the entry takes start cluster and size of the file object.
Sync(v, f) ==
  IF ~f.modified THEN Done(v, f, "FR_OK")
  ELSE Done([v EXCEPT !.slot[f.place] = [@ EXCEPT !.clust = f.sclust, !.size = f.objsize]],
            [f EXCEPT !.modified = FALSE], "FR_OK")

\* The cluster loop of f_lseek: k clusters on from c, as far as there are any.
AdvanceStep(s, nxt, writes) ==
  IF s.full \/ s.bad THEN s
  ELSE IF nxt.clst = 0 /\ writes THEN [s EXCEPT !.full = TRUE, !.ptr = @ + ClusterSize]
  ELSE IF nxt.clst \notin Clusters THEN [s EXCEPT !.bad = TRUE, !.ptr = @ + ClusterSize]
  ELSE [s EXCEPT !.v = nxt.v, !.clst = nxt.clst, !.ptr = @ + ClusterSize]
NextCluster(v, c, writes) == IF writes THEN Stretch(v, c) ELSE [v |-> v, clst |-> v.fat[c]]
Advance(v, f, c, from, k) ==
  LET start == [v |-> v, clst |-> c, ptr |-> from, full |-> FALSE, bad |-> FALSE]
      Step(s, i) == AdvanceStep(s, NextCluster(s.v, s.clst, "w" \in f.acc), "w" \in f.acc)
  IN  FoldLeft(Step, start, [i \in 1 .. k |-> i])

\* f_lseek.  Seeking beyond the end of a file open for writing makes it longer,
\* or as long as the disk allows; the result is FR_OK all the same.
SeekEnds(v, f, ptr) ==
  Done(v, [f EXCEPT !.fptr = ptr, !.modified = @ \/ ptr > f.objsize,
                    !.objsize = IF ptr > @ THEN ptr ELSE @], "FR_OK")
SeekFound(f, ofs, s) ==
  IF s.bad THEN Aborted(s.v, [f EXCEPT !.fptr = s.ptr, !.clust = s.clst])
  ELSE SeekEnds(s.v, [f EXCEPT !.clust = s.clst], IF s.full THEN s.ptr ELSE ofs)
\* From the cluster at position from on.
SeekFrom(v, f, c, from, ofs) ==
  IF c = 0 THEN SeekEnds(v, f, 0)
  ELSE SeekFound(f, ofs, Advance(v, f, c, from, (ofs - from - 1) \div ClusterSize))
SeekAnew(new, f, ofs) ==
  SeekFrom(new.v, [f EXCEPT !.sclust = new.clst, !.clust = new.clst], new.clst, 0, ofs)
SeekTo(v, f, ofs) ==
  IF f.err THEN Done(v, f, "FR_INT_ERR")
  ELSE IF ofs = 0 THEN SeekEnds(v, [f EXCEPT !.clust = 0], 0)
  ELSE IF f.fptr > 0 /\ (ofs - 1) \div ClusterSize >= (f.fptr - 1) \div ClusterSize
  THEN SeekFrom(v, f, f.clust, ((f.fptr - 1) \div ClusterSize) * ClusterSize, ofs)
  ELSE SeekAnew(IF f.sclust = 0 THEN Stretch(v, 0) ELSE [v |-> v, clst |-> f.sclust], f, ofs)
Seek(v, f, to) == SeekTo(v, f, IF "w" \in f.acc THEN to ELSE Min({to, f.objsize}))

\* The cluster of the next sector of f_write and f_read: 0 if the disk is full.
WriteCluster(v, f) ==
  IF f.fptr % ClusterSize # 0 THEN [v |-> v, clst |-> f.clust]
  ELSE IF f.fptr > 0 THEN Stretch(v, f.clust)
  ELSE IF f.sclust = 0 THEN Stretch(v, 0)
  ELSE [v |-> v, clst |-> f.sclust]

\* f_write of n sectors: as many as fit.
WriteStep(s, c) ==
  IF s.full \/ s.f.err THEN s
  ELSE IF c.clst = 0 THEN [s EXCEPT !.full = TRUE]
  ELSE IF c.clst = 1 THEN [s EXCEPT !.f.err = TRUE]
  ELSE [v |-> c.v, full |-> FALSE,
        f |-> [s.f EXCEPT !.clust = c.clst, !.sclust = IF @ = 0 THEN c.clst ELSE @,
                          !.fptr = @ + 1, !.objsize = Max({@, s.f.fptr + 1})]]
Written(s) ==
  IF s.f.err THEN Done(s.v, s.f, "FR_INT_ERR")
  ELSE Done(s.v, [s.f EXCEPT !.modified = TRUE], IF s.full THEN "full" ELSE "FR_OK")
Write(v, f, n) ==
  LET Step(s, i) == WriteStep(s, WriteCluster(s.v, s.f))
  IN  Written(FoldLeft(Step, [v |-> v, f |-> f, full |-> FALSE], [i \in 1 .. n |-> i]))

\* f_read of n sectors
ReadStep(g, c) ==
  IF g.err THEN g
  ELSE IF c \notin Clusters THEN [g EXCEPT !.err = TRUE]
  ELSE [g EXCEPT !.clust = c, !.fptr = @ + 1]
ReadCluster(fat, g) ==
  IF g.fptr % ClusterSize # 0 THEN g.clust
  ELSE IF g.fptr = 0 THEN g.sclust ELSE fat[g.clust]
Read(v, f, n) ==
  LET Step(g, i) == ReadStep(g, ReadCluster(v.fat, g))
      g == FoldLeft(Step, f, [i \in 1 .. Min({n, f.objsize - f.fptr}) |-> i])
  IN  IF f.err THEN Done(v, f, "FR_INT_ERR")
      ELSE IF "r" \notin f.acc THEN Done(v, f, "FR_DENIED")
      ELSE Done(v, g, IF g.err THEN "FR_INT_ERR" ELSE "FR_OK")

\* f_truncate at the current position.
Truncate(v, f) ==
  LET rest == v.fat[f.clust]
      g == [f EXCEPT !.objsize = f.fptr, !.modified = TRUE]
  IN  IF f.err THEN Done(v, f, "FR_INT_ERR")
      ELSE IF "w" \notin f.acc THEN Done(v, f, "FR_DENIED")
      ELSE IF f.fptr >= f.objsize THEN Done(v, f, "FR_OK")
      ELSE IF f.fptr = 0
      THEN IF f.sclust = 0 THEN Aborted(v, g)
           ELSE Done(FreeChain(v, f.sclust, 0), [g EXCEPT !.sclust = 0], "FR_OK")
      ELSE IF rest = Free THEN Aborted(v, g)
      ELSE Done(IF rest = EOC THEN v ELSE FreeChain(v, rest, f.clust), g, "FR_OK")

\* f_expand of an empty file to n sectors in one piece.  The search begins at
\* last_clst and goes on at cluster 2 after the last one, without beginning a
\* new piece there: i is the number of clusters looked at.
Expand(v, f, n) ==
  LET need == (n + ClusterSize - 1) \div ClusterSize
      start == IF v.last \in Clusters THEN v.last ELSE 2
      Nth(i) == 2 + ((start - 2 + i) % (NFat - 2))
      \* the clusters up to the i-th inclusive are free
      run[i \in 0 .. NFat - 3] ==
        IF v.fat[Nth(i)] # Free THEN 0 ELSE IF i = 0 THEN 1 ELSE run[i - 1] + 1
      found == {i \in 0 .. NFat - 3 : run[i] = need}
      first == Nth(Min(found) - need + 1)
      last == first + need - 1
      linked == [v EXCEPT !.fat = [c \in (first .. last) \cap Clusters |->
                                     IF c = last THEN EOC ELSE c + 1] @@ @]
  IN  IF f.err THEN Done(v, f, "FR_INT_ERR")
      ELSE IF n = 0 \/ f.objsize # 0 \/ "w" \notin f.acc \/ found = {} THEN Done(v, f, "FR_DENIED")
      ELSE IF last >= NFat THEN Done(linked, f, "FR_INT_ERR")
      ELSE Done([linked EXCEPT !.last = last, !.free = IF @ = Unknown THEN @ ELSE @ - need],
                [f EXCEPT !.sclust = first, !.objsize = n, !.modified = TRUE], "FR_OK")
=============================================================================
