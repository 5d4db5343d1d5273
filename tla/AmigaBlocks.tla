---------------------------- MODULE AmigaBlocks ----------------------------
(***************************************************************************)
(* The data of the files of an Amiga volume, block by block: ADFlib's file  *)
(* handles (adf_file.c, adf_file_block.c) as DokanFileSystemAmigaFS uses    *)
(* them (adf_operations.cpp).                                              *)
(*                                                                         *)
(* The header block of a file lists its first M data blocks, a chain of     *)
(* extension blocks the others, M each; on an OFS volume every data block   *)
(* names the next one too.  A handle keeps a copy of the header, one        *)
(* extension block and one data block in memory.                            *)
(*                                                                         *)
(* Data: calls move units, B of which fill a block.  The code never looks   *)
(* at them, so it is enough to follow one unit at a time: 1 is a unit some   *)
(* call has written, 0 any other, and none writes a second 1 while a file    *)
(* has one.                                                                 *)
(*                                                                         *)
(* Left out: directories and who may open what (AmigaFiles), the dataSize   *)
(* field of OFS blocks, failing I/O, and the second way of seeking on an    *)
(* OFS volume, which is for lists that are broken.                          *)
(***************************************************************************)
EXTENDS SequencesExt, FiniteSetsExt

CONSTANTS Files,
          N,        \* blocks, in the order the bitmap is searched
          B,        \* datablockSize
          M,        \* ADF_MAX_DATABLK
          MaxSizes, \* a bound for the size of each file
          MaxCall,  \* units a call moves
          MaxOpen,  \* files that are open at a time
          Systems,  \* TRUE: OFS, FALSE: FFS
          Allow     \* what programs, or the volume, may bring about

\* Where the code goes wrong.  removed: a handle goes on with a block it has
\* given back; forgets: a changed block is replaced in memory; tight: there is
\* a block for a list, and none for the data; beyond: a write starts behind the
\* end of the file.
Trouble == {"removed", "forgets", "tight", "beyond"}
\* Calls whose outcome is not modelled.  stale: the extension block in memory,
\* or the place in it, is not the one that is needed (on an OFS volume, after
\* reading on); unsaved: the list that says which blocks to remove is older on
\* the disk than in memory.
Undefined == {"stale", "unsaved"}

ASSUME AmigaBlocksAssumption ==
  /\ {N, B, M, MaxCall, MaxOpen} \subseteq Nat \ {0} /\ MaxSizes \in [Files -> Nat \ {0}]
  /\ Systems \subseteq BOOLEAN /\ Allow \subseteq Trouble

VARIABLES ofs,   \* the kind of the volume
          disk,  \* its blocks
          used,  \* the bitmap
          head,  \* header block of each file, 0 if there is none
          open,  \* the handle of each file
          file   \* history: the units each file has to have

vars == <<ofs, disk, used, head, open, file>>

Units == {0, 1}
Zeros == [i \in 1 .. B |-> 0]
\* A block, whatever it holds: units and next are those of a data block, size
\* and first those of a header, the rest is for headers and extensions.
Blank == [units |-> Zeros, next |-> 0, size |-> 0, first |-> 0,
          list |-> [i \in 1 .. M |-> 0], high |-> 0, ext |-> 0]
Closed == [mode |-> "none"]

\* struct AdfFile.  n: nDataBlock, cur: curDataPtr, extKey: the headerKey of
\* currentExt, 0 for none.
NewHandle(k, hdr, mode) ==
  [mode |-> mode, key |-> k, hdr |-> hdr, pos |-> 0, inExt |-> 0, inData |-> 0, n |-> 0, cur |-> 0,
   data |-> Blank, extKey |-> 0, ext |-> Blank, dirty |-> FALSE]
MayWrite(h) == h.mode \in {"w", "rw"}

\* What a call works on: the blocks d, the bitmap u and a handle h; whether all
\* went well, the units it has read, how many it has written, and what it met of
\* Trouble and Undefined.
Start(h) == [d |-> disk, u |-> used, h |-> h, ok |-> TRUE, got |-> <<>>, done |-> 0, hit |-> {}]
Failed(s) == [s EXCEPT !.ok = FALSE, !.h.cur = 0]
Hit(s, what, if) == IF if THEN [s EXCEPT !.hit = @ \cup {what}] ELSE s

DataBlocks(size) == (size + B - 1) \div B                                  \* adfFileSize2Datablocks
ExtBlocks(blocks) == IF blocks = 0 THEN 0 ELSE (blocks - 1) \div M          \* adfFileDatablocks2Extblocks
MaxSize == Max(Range(MaxSizes))
MaxLists == 1 + ExtBlocks(DataBlocks(MaxSize))

\* The blocks with lists of the file whose header is k, and the data blocks.
Lists(d, k) ==
  FoldLeft(LAMBDA c, i : IF d[Last(c)].ext = 0 \/ Len(c) # i THEN c ELSE Append(c, d[Last(c)].ext),
           <<k>>, [i \in 1 .. MaxLists |-> i])
Listed(d, c) == FlattenSeq([i \in DOMAIN c |-> SubSeq(d[c[i]].list, 1, d[c[i]].high)])
\* Those of an open file, as its handle knows them.
OwnDisk(s) ==
  [b \in 1 .. N |-> IF b = s.h.key THEN s.h.hdr ELSE IF b = s.h.extKey THEN s.h.ext ELSE s.d[b]]
OwnLists(s) == Lists(OwnDisk(s), s.h.key)
OwnData(s) == Listed(OwnDisk(s), OwnLists(s))
-----------------------------------------------------------------------------
(* Flushing and seeking *)

GivenBack(s) ==
  \/ s.h.extKey # 0 /\ s.h.extKey \notin Range(OwnLists(s))
  \/ s.h.hdr.size > 0 /\ s.h.cur # 0 /\ s.h.cur \notin Range(OwnData(s))
WriteBlock(s, b, block) == IF b = 0 THEN s ELSE [s EXCEPT !.d[b] = block]

\* adfFileFlush: the extension block, the data block, the header.
Flush(s) ==
  IF ~MayWrite(s.h) THEN s
  ELSE WriteBlock(WriteBlock(WriteBlock(Hit(s, "removed", GivenBack(s)), s.h.extKey, s.h.ext),
                             IF s.h.hdr.size > 0 THEN s.h.cur ELSE 0, s.h.data),
                  s.h.key, s.h.hdr)
FlushIfDirty(s) == IF MayWrite(s.h) /\ s.h.dirty THEN [Flush(s) EXCEPT !.h.dirty = FALSE] ELSE s

\* The data block in memory makes room for another one.
Unwritten(s) ==
  /\ MayWrite(s.h) /\ s.h.hdr.size > 0 /\ s.h.cur # 0
  /\ s.d[s.h.cur] # s.h.data \/ (s.h.extKey # 0 /\ s.d[s.h.extKey] # s.h.ext)
Leave(s) == Hit(s, "forgets", Unwritten(s))
Load(s, b, n) == [s EXCEPT !.h.data = s.d[b], !.h.cur = b, !.h.n = n]

\* adfFileReadNextBlock: the extension block first, if a new one is needed.
WithExt(s, e) ==
  IF e = 0 THEN Failed(s) ELSE [s EXCEPT !.h.ext = s.d[e], !.h.extKey = e, !.h.inExt = 0]
WithNextExt(s) ==
  IF ofs \/ s.h.n < M THEN s
  ELSE IF s.h.n = M THEN WithExt(s, s.h.hdr.ext)
  ELSE IF s.h.inExt = M THEN WithExt(s, s.h.ext.ext) ELSE s
NextBlock(h) ==
  IF h.n = 0 THEN h.hdr.first
  ELSE IF ofs THEN h.data.next
  ELSE IF h.n < M THEN h.hdr.list[h.n + 1] ELSE h.ext.list[h.inExt + 1]
ReadAs(s, b) ==
  LET t == [s EXCEPT !.h.inExt = IF ofs \/ s.h.n < M THEN @ ELSE @ + 1] IN
  IF b = 0 THEN Failed(t) ELSE Load(t, b, s.h.n + 1)
ReadListed(s) == IF s.ok THEN ReadAs(s, NextBlock(s.h)) ELSE s
ReadNextBlock(s) == ReadListed(WithNextExt(s))

\* adfFileSeekStart_
AtStart(s) == [s EXCEPT !.h.pos = 0, !.h.inExt = 0, !.h.inData = 0, !.h.n = 0, !.h.cur = 0]
SeekStart(s) == IF s.h.hdr.size = 0 THEN AtStart(s) ELSE ReadNextBlock(AtStart(s))

\* adfPos2DataBlock, adfFileReadExtBlockN: the lists are walked from the header.
SeekListed(s, b) ==
  IF b = 0 THEN [s EXCEPT !.ok = FALSE, !.h.cur = 0] ELSE Load(s, b, s.h.n + 1)
SeekInExt(s, c, i) ==
  IF i > Len(c) THEN Failed(s)
  ELSE LET t == [s EXCEPT !.h.ext = s.d[c[i]], !.h.extKey = c[i], !.h.inExt = (s.h.n % M) + 1]
       IN  SeekListed(t, t.h.ext.list[(s.h.n % M) + 1])
SeekPlaced(s) ==
  IF s.h.n < M THEN SeekListed([s EXCEPT !.h.inExt = 0], s.h.hdr.list[s.h.n + 1])
  ELSE SeekInExt(s, Lists([s.d EXCEPT ![s.h.key] = s.h.hdr], s.h.key), s.h.n \div M + 1)
\* adfFileSeekExt_ before the end of the file.
SeekExt(s, p) == SeekPlaced([s EXCEPT !.h.pos = p, !.h.inData = p % B, !.h.n = p \div B])

InBlock(h, p) == h.cur # 0 /\ p \div B = (IF h.n = 0 THEN 0 ELSE h.n - 1)
MoveTo(s, p) ==
  LET q == Min({p, s.h.hdr.size}) IN [s EXCEPT !.h.pos = q, !.h.inData = q % B]
SeekInside(s, p) ==
  IF s.h.pos = p /\ s.h.cur # 0 THEN s
  ELSE IF InBlock(s.h, p) THEN MoveTo(s, p)
  ELSE LET t == Leave(FlushIfDirty(s)) IN IF p = 0 THEN SeekStart(t) ELSE SeekExt(t, p)

\* adfFileSeekEOF_: the last block is loaded by way of its last unit.
LastUnits(size) == IF size % B = 0 THEN B ELSE size % B
SeekEOF(s) ==
  LET size == s.h.hdr.size
      t == SeekInside([s EXCEPT !.h.pos = size], size - 1)
  IN  IF size = 0 THEN SeekStart(s)
      ELSE IF t.ok THEN [t EXCEPT !.h.pos = size, !.h.inData = LastUnits(size)] ELSE t
\* adfFileSeek
Seek(s, p) ==
  IF p < s.h.hdr.size \/ p = 0 \/ (s.h.pos = p /\ s.h.cur # 0) \/ InBlock(s.h, p)
  THEN SeekInside(s, p) ELSE SeekEOF(Leave(FlushIfDirty(s)))
\* The callbacks seek only where the position is another one.
GoTo(s, p) == IF s.h.pos = p THEN s ELSE Seek(s, p)
-----------------------------------------------------------------------------
(* Reading and writing *)

ReadBlockUnit(s) ==
  IF ~s.ok THEN s
  ELSE [s EXCEPT !.got = Append(@, s.h.data.units[s.h.inData + 1]), !.h.pos = @ + 1, !.h.inData = @ + 1]
ReadUnit(s) ==
  IF ~s.ok \/ s.h.inData # B THEN ReadBlockUnit(s)
  ELSE ReadBlockUnit([ReadNextBlock(Leave(s)) EXCEPT !.h.inData = 0, !.h.dirty = FALSE])
\* adfFileRead of n units, of what there is.
Read(s, n) == FoldLeft(LAMBDA t, i : ReadUnit(t), s, [i \in 1 .. Min({n, s.h.hdr.size - s.h.pos}) |-> i])
ReadAt(s, p, n) == LET t == GoTo(s, p) IN IF t.ok THEN Read(t, n) ELSE t

\* adfGet1FreeBlock
Free(u) == 1 .. N \ u
FirstFree(u) == Min(Free(u))

\* adfFileCreateNextBlock: the block b in a list, and as the one in memory.
InHeader(s, b) ==
  [s EXCEPT !.u = @ \cup {b}, !.h.hdr.first = IF s.h.n = 0 THEN b ELSE @,
            !.h.hdr.list = [@ EXCEPT ![s.h.n + 1] = b], !.h.hdr.high = @ + 1]
InExtension(s, b) ==
  [s EXCEPT !.u = @ \cup {b}, !.h.ext.list = [@ EXCEPT ![s.h.inExt + 1] = b], !.h.ext.high = @ + 1,
            !.h.inExt = @ + 1]
\* A new extension block e: the one before is linked to it and written.
Linked(s, e) ==
  IF s.h.n = M THEN [s EXCEPT !.h.hdr.ext = e]
  ELSE WriteBlock(s, s.h.extKey, [s.h.ext EXCEPT !.ext = e])
NewExtension(s, e) ==
  [Linked(s, e) EXCEPT !.u = @ \cup {e}, !.h.extKey = e, !.h.ext = Blank, !.h.inExt = 0]
\* The block before is written, on an OFS volume with its link to the new one.
WithLink(s, b) == IF ofs THEN [s.h.data EXCEPT !.next = b] ELSE s.h.data
\* A mutant: on an OFS volume it is not linked.
BegunUnlinked(s, b) ==
  LET t == IF s.h.pos >= B THEN WriteBlock(s, s.h.cur, s.h.data) ELSE s
  IN  [t EXCEPT !.h.data = Blank, !.h.cur = b, !.h.n = @ + 1]
Begun(s, b) ==
  LET t == IF s.h.pos >= B THEN WriteBlock(s, s.h.cur, WithLink(s, b)) ELSE s
  IN  [t EXCEPT !.h.data = IF ofs \/ s.h.pos >= B THEN Blank ELSE @, !.h.cur = b, !.h.n = @ + 1]

Full(s) == [s EXCEPT !.ok = FALSE]
NeedsExt(h) == h.n >= M /\ h.n % M = 0
InLists(s, b) == IF s.h.n < M THEN InHeader(s, b) ELSE InExtension(s, b)
WrongExt(h, c) == h.n > M /\ (h.extKey # Last(c) \/ (h.n % M # 0 /\ h.inExt # h.n % M))
Extended(s) ==
  IF NeedsExt(s.h) /\ Free(s.u) # {} THEN NewExtension(s, FirstFree(s.u)) ELSE s
CreateIn(s) == IF Free(s.u) = {} THEN Full(s) ELSE Begun(InLists(s, FirstFree(s.u)), FirstFree(s.u))
CreateNextBlock(s) ==
  LET t == Hit(Hit(Hit(s, "removed", s.h.n # DataBlocks(s.h.hdr.size)),
                   "stale", WrongExt(s.h, OwnLists(s))),
               "tight", NeedsExt(s.h) /\ Cardinality(Free(s.u)) = 1)
  IN  CreateIn(Extended(t))

\* The block to write a unit to: a new one at the end of the file, or the next.
AtNew(s) == [CreateNextBlock(s) EXCEPT !.h.dirty = FALSE]
\* A mutant: the block before is not written.
AtNextUnflushed(s) == ReadNextBlock([s EXCEPT !.h.dirty = FALSE])
AtNext(s) == ReadNextBlock(Leave(FlushIfDirty(s)))
Ready(s) ==
  IF s.h.pos % B # 0 THEN s
  ELSE LET t == IF s.h.pos = s.h.hdr.size THEN AtNew(s) ELSE IF s.h.inData = B THEN AtNext(s) ELSE s
       IN  IF t.ok THEN [t EXCEPT !.h.inData = 0] ELSE t
PutUnit(s, x) ==
  IF ~s.ok THEN s
  ELSE [s EXCEPT !.h.data.units = [@ EXCEPT ![s.h.inData + 1] = x], !.h.pos = @ + 1, !.h.inData = @ + 1,
                 !.h.dirty = TRUE, !.h.hdr.size = Max({@, s.h.pos + 1}), !.done = @ + 1]
\* adfFileWrite of the units q, adfFileWriteFilled.
Write(s, q) == FoldLeft(LAMBDA t, x : IF t.ok THEN PutUnit(Ready(t), x) ELSE t, s, q)
WriteZeros(s, n) == Write(s, [i \in 1 .. n |-> 0])
-----------------------------------------------------------------------------
(* Making files shorter *)

\* adfFileTruncateGetBlocksToRemove: the header in memory, the rest as it is on
\* the disk.
RemovedFrom(d, c, new, old) ==
  ({d[c[i]].list[j] : <<i, j>> \in {x \in (1 .. Len(c)) \X (1 .. M) : (x[1] - 1) * M + x[2] \in new + 1 .. old}}
    \cup {c[i] : i \in ExtBlocks(new) + 2 .. Len(c)}) \ {0}
BlocksToRemove(s, n) ==
  LET d == [s.d EXCEPT ![s.h.key] = s.h.hdr]
  IN  RemovedFrom(d, Lists(d, s.h.key), DataBlocks(n), DataBlocks(s.h.hdr.size))

\* The last list that stays: its end is cleared unless it is full.
Shortened(block, new, old) ==
  LET last == IF ExtBlocks(new) < ExtBlocks(old) \/ old % M = 0 THEN M - 1 ELSE old % M
      gone == IF new % M = 0 THEN {} ELSE {j \in 1 .. M : j - 1 \in (new % M) .. last}
  IN  [block EXCEPT !.list = [j \in 1 .. M |-> IF j \in gone THEN 0 ELSE @[j]],
                    !.high = IF new % M = 0 THEN @ ELSE new % M,
                    !.ext = 0]
Emptied(s) ==
  [s EXCEPT !.h.hdr = [Blank EXCEPT !.units = s.h.hdr.units]]
Shorter(s, n, new, old) ==
  [s EXCEPT !.h.hdr = IF new <= M THEN [Shortened(@, new, old) EXCEPT !.size = n] ELSE [@ EXCEPT !.size = n],
            !.h.ext = IF new <= M THEN @ ELSE Shortened(@, new, old),
            !.h.data.next = IF ofs THEN 0 ELSE @,
            !.h.dirty = TRUE]
WrongList(s, n) ==
  /\ DataBlocks(n) > M
  /\ LET c == Lists([s.d EXCEPT ![s.h.key] = s.h.hdr], s.h.key) IN s.h.extKey # c[ExtBlocks(DataBlocks(n)) + 1]
Resized(s, n) ==
  IF n = 0 THEN Emptied(s)
  ELSE Shorter(Hit(s, "stale", WrongList(s, n)), n, DataBlocks(n), DataBlocks(s.h.hdr.size))
\* A mutant: the extension blocks stay allocated.
CutKeepingLists(s, n, gone) ==
  IF s.ok THEN [Resized(s, n) EXCEPT !.u = @ \ (gone \ Range(OwnLists(s)))] ELSE s
Cut(s, n, gone) == IF s.ok THEN [Resized(s, n) EXCEPT !.u = @ \ gone] ELSE s
Unsaved(s) == s.h.extKey # 0 /\ s.h.extKey \in Range(OwnLists(s)) /\ s.d[s.h.extKey] # s.h.ext

\* adfFileTruncate: to the size it has, to more, to less.
Truncate(s, n) ==
  IF ~MayWrite(s.h) THEN [s EXCEPT !.ok = FALSE]
  ELSE IF n = s.h.hdr.size THEN Seek(s, n)
  ELSE IF n > s.h.hdr.size
       THEN LET t == Seek(s, s.h.hdr.size) IN IF t.ok THEN WriteZeros(t, n - s.h.hdr.size) ELSE t
  ELSE LET t == Cut(Seek(Hit(s, "unsaved", Unsaved(s)), n), n, BlocksToRemove(s, n))
       IN  Hit(t, "removed", GivenBack(t))
-----------------------------------------------------------------------------
(* The calls of programs *)

Init ==
  /\ ofs \in Systems
  /\ disk = [b \in 1 .. N |-> Blank] /\ used = {}
  /\ head = [f \in Files |-> 0] /\ open = [f \in Files |-> Closed] /\ file = [f \in Files |-> <<>>]

IsOpen(f) == open[f] # Closed
MayOpen(f) == ~IsOpen(f) /\ Cardinality({g \in Files : IsOpen(g)}) < MaxOpen
\* The blocks and the handle f has from here on.
Ends(f, s) ==
  /\ s.hit \subseteq Allow
  /\ disk' = s.d /\ used' = s.u
  /\ open' = [open EXCEPT ![f] = s.h]
  /\ UNCHANGED ofs
\* The contents c with the units q at p, and c cut or filled up to n units.
Put(c, p, q) ==
  [i \in 1 .. Max({Len(c), p + Len(q)}) |->
     IF i \in p + 1 .. p + Len(q) THEN q[i - p] ELSE IF i <= Len(c) THEN c[i] ELSE 0]
Sized(c, n) == [i \in 1 .. n |-> IF i <= Len(c) THEN c[i] ELSE 0]
Becomes(f, c) == file' = [file EXCEPT ![f] = c]

Marked == \E f \in Files : 1 \in Range(file[f])
\* The units a call may write.
Writings ==
  UNION {{[i \in 1 .. n |-> IF i = j THEN 1 ELSE 0] : j \in (IF Marked THEN {0} ELSE 0 .. n)} : n \in 1 .. MaxCall}

\* adfFileOpen; adfCreateFile for a file that is not there.
Opened(s, k, mode) == SeekStart([s EXCEPT !.h = NewHandle(k, s.d[k], mode), !.ok = TRUE])
Created(s, k) == [s EXCEPT !.d[k] = Blank, !.u = @ \cup {k}]

\* CREATE_NEW, or CREATE_ALWAYS and OPEN_ALWAYS where there is none.
CreateFile(f, mode) ==
  /\ head[f] = 0 /\ MayOpen(f) /\ Free(used) # {}
  /\ Ends(f, Opened(Created(Start(Closed), FirstFree(used)), FirstFree(used), mode))
  /\ head' = [head EXCEPT ![f] = FirstFree(used)]
  /\ UNCHANGED file

OpenFile(f, mode) ==
  LET s == Opened(Start(Closed), head[f], mode) IN
  /\ head[f] # 0 /\ MayOpen(f) /\ s.ok
  /\ Ends(f, s)
  /\ UNCHANGED <<head, file>>

\* TRUNCATE_EXISTING: a handle that may only read is refused, and stays open.
TruncateExisting(f, mode) ==
  LET s == Opened(Start(Closed), head[f], mode) IN
  /\ head[f] # 0 /\ MayOpen(f) /\ s.ok
  /\ Ends(f, Truncate(s, 0))
  /\ Becomes(f, IF mode = "r" THEN file[f] ELSE <<>>)
  /\ UNCHANGED head

\* CREATE_ALWAYS of a file that is there: by a handle of its own, unless the
\* program asks for no more than writing.
Overwrite(f, mode) ==
  LET s == Opened(Start(Closed), head[f], "w")
      t == Truncate(s, 0)
  IN  /\ head[f] # 0 /\ MayOpen(f) /\ s.ok
      /\ Ends(f, IF mode = "w" THEN t ELSE Truncate(Opened(Flush(t), head[f], mode), 0))
      /\ Becomes(f, <<>>)
      /\ UNCHANGED head

\* fs_readfile
ReadFile(f, p) ==
  /\ IsOpen(f) /\ open[f].mode # "w"
  /\ Ends(f, ReadAt(Start(open[f]), p, MaxCall))
  /\ UNCHANGED <<head, file>>

\* fs_writefile at p, or at the end; paging never makes a file longer.
WriteAt(f, s, p, q) ==
  LET t == GoTo(Hit(s, "beyond", p > s.h.hdr.size), p)
      w == IF t.ok THEN Write(t, q) ELSE t
  IN  /\ Ends(f, w)
      /\ Becomes(f, Put(file[f], p, SubSeq(q, 1, w.done)))
      /\ UNCHANGED head
Clipped(q, room) == SubSeq(q, 1, Min({Len(q), room}))
WriteFile(f, p, q, paging) ==
  LET h == open[f] IN
  /\ IsOpen(f) /\ MayWrite(h) /\ p + Len(q) <= MaxSizes[f] /\ (paging => h.hdr.size \in p + 1 .. p + Len(q) - 1)
  /\ WriteAt(f, Start(h), p, IF paging THEN Clipped(q, h.hdr.size - p) ELSE q)
AppendToFile(f, q) ==
  LET h == open[f] IN
  /\ IsOpen(f) /\ MayWrite(h) /\ h.hdr.size + Len(q) <= MaxSizes[f]
  /\ WriteAt(f, Seek(Start(h), h.hdr.size), h.hdr.size, q)

\* fs_flushfilebuffers
FlushFile(f) ==
  /\ IsOpen(f) /\ Ends(f, Flush(Start(open[f])))
  /\ UNCHANGED <<head, file>>

\* fs_setendoffile
SetEndOfFile(f, n) ==
  LET s == Truncate(Start(open[f]), n) IN
  /\ IsOpen(f) /\ MayWrite(open[f]) /\ n <= MaxSizes[f]
  /\ Ends(f, s)
  /\ Becomes(f, Sized(file[f], IF n < Len(file[f]) THEN n ELSE Len(file[f]) + s.done))
  /\ UNCHANGED head

\* fs_setallocationsize: the position is kept where the file gets longer.
Allocated(h, n) ==
  LET s == Seek(Start(h), h.hdr.size)
      t == WriteZeros(s, n - h.hdr.size)
  IN  IF s.ok THEN [Seek([t EXCEPT !.ok = TRUE], h.pos) EXCEPT !.done = t.done] ELSE s
SetAllocationSize(f, n) ==
  LET h == open[f]
      s == Allocated(h, n)
  IN  /\ IsOpen(f) /\ MayWrite(h) /\ n \in h.hdr.size + 1 .. MaxSizes[f]
      /\ Ends(f, s)
      /\ Becomes(f, Sized(file[f], Len(file[f]) + s.done))
      /\ UNCHANGED head

\* fs_cleanup: adfFileClose
CloseFile(f) ==
  /\ IsOpen(f)
  /\ Ends(f, [Flush(Start(open[f])) EXCEPT !.h = Closed])
  /\ UNCHANGED <<head, file>>

\* fs_deletefile: adfRemoveEntry, which takes the entry out of its directory
\* before it looks for the blocks (adfGetFileBlocks).
FileBlocks(k) == Range(Listed(disk, Lists(disk, k))) \cup Range(Lists(disk, k))
Consistent(k) ==
  /\ disk[k].high = Min({M, DataBlocks(disk[k].size)})
  /\ Len(Listed(disk, Lists(disk, k))) = DataBlocks(disk[k].size)
  /\ Len(Lists(disk, k)) = 1 + ExtBlocks(DataBlocks(disk[k].size))
DeleteFile(f) ==
  /\ head[f] # 0 /\ ~IsOpen(f)
  /\ used' = IF Consistent(head[f]) THEN used \ FileBlocks(head[f]) ELSE used
  /\ head' = [head EXCEPT ![f] = 0] /\ Becomes(f, <<>>)
  /\ UNCHANGED <<ofs, disk, open>>

Next ==
  \E f \in Files :
    \/ \E mode \in {"r", "w", "rw"} :
         CreateFile(f, mode) \/ OpenFile(f, mode) \/ TruncateExisting(f, mode) \/ Overwrite(f, mode)
    \/ \E p \in 0 .. MaxSizes[f] :
         ReadFile(f, p) \/ SetEndOfFile(f, p) \/ SetAllocationSize(f, p)
    \/ \E q \in Writings :
         \/ AppendToFile(f, q)
         \/ \E p \in 0 .. MaxSizes[f], paging \in BOOLEAN : WriteFile(f, p, q, paging)
    \/ FlushFile(f) \/ CloseFile(f) \/ DeleteFile(f)

Spec == Init /\ [][Next]_vars
-----------------------------------------------------------------------------
\* The disk once the handle of f has been flushed.
Settled(f) == IF IsOpen(f) THEN Flush(Start(open[f])).d ELSE disk
Holds(f) == Lists(Settled(f), head[f]) \o Listed(Settled(f), Lists(Settled(f), head[f]))

(* Every used block belongs to one file, once: as its header, in one of its  *)
(* lists, or as a list.  None is lost and none is written by two files.      *)
BlocksAccounted ==
  LET there == {f \in Files : head[f] # 0} IN
  /\ used = UNION {Range(Holds(f)) : f \in there}
  /\ Cardinality(used) = MapThenSumSet(LAMBDA f : Len(Holds(f)), there)

(* What was written is what a program reads that opens the file after a      *)
(* flush, from the beginning to the end; and what the program that has it    *)
(* open reads, from wherever it is, at every position.                      *)
ReadAfresh(f) ==
  LET s == [Start(Closed) EXCEPT !.d = Settled(f)] IN ReadAt(Opened(s, head[f], "r"), 0, MaxSize)
ContentsKept ==
  \A f \in Files : head[f] # 0 =>
    /\ ReadAfresh(f).got = file[f]
    /\ IsOpen(f) =>
         \A p \in 0 .. Len(file[f]) :
           LET s == ReadAt(Start(open[f]), p, MaxCall) IN
           s.hit \subseteq Allow => s.got = SubSeq(file[f], p + 1, Min({p + MaxCall, Len(file[f])}))

(* The two ways to the data of an OFS file agree: from block to block, and   *)
(* by the lists seeking and deleting use.                                   *)
ChainsAgree ==
  \A f \in Files : head[f] # 0 =>
    LET d == Settled(f)
        blocks == Listed(d, Lists(d, head[f]))
    IN  /\ Len(blocks) = DataBlocks(d[head[f]].size)
        /\ d[head[f]].first = (IF blocks = <<>> THEN 0 ELSE blocks[1])
        /\ ofs => \A i \in DOMAIN blocks :
                    d[blocks[i]].next = (IF i = Len(blocks) THEN 0 ELSE blocks[i + 1])

(* No file is left with a hole for a data block: "a data block can never be  *)
(* at 0-1 (bootblock)".  Such a file cannot be opened any more.             *)
NoHoles ==
  \A f \in Files : head[f] # 0 /\ ~IsOpen(f) => 0 \notin Range(Listed(disk, Lists(disk, head[f])))
=============================================================================
