----------------------------- MODULE AmigaFiles -----------------------------
(***************************************************************************)
(* The open files of an Amiga volume: DokanFileSystemAmigaFS                *)
(* (adf_operations.cpp) on top of ADFlib's directories (adf_dir.c) and file *)
(* handles (adf_file.c).                                                    *)
(*                                                                         *)
(* A directory is a hash table of block numbers; the entries of one bucket  *)
(* are chained by nextSameHash, a field of the header block of each entry.  *)
(* A handle keeps a copy of its header block from adfFileOpen on, and every *)
(* flush of a handle opened for writing puts that copy back.  m_inUse holds *)
(* the handles that are open.                                               *)
(*                                                                         *)
(* Modelled: the files of one directory and their header blocks.  Data      *)
(* blocks, times, sizes, subdirectories and failing I/O are left out.  A    *)
(* call that is refused changes nothing and is no step.  Dokan runs the     *)
(* callbacks of a volume one at a time (SingleThread), so that each is one  *)
(* action.                                                                  *)
(***************************************************************************)
EXTENDS Integers, FiniteSets

CONSTANTS Names,       \* file names, as numbers
          Buckets,     \* ADF_HT_SIZE: the hash of name n is n % Buckets
          Blocks,      \* blocks of the volume
          NoBlock,     \* block number 0, or a failed search
          Objects,     \* file objects of programs, as Windows numbers them
          InitProt,    \* protections of files that are there at mount time
          DeleteOpen,  \* programs share files for deletion, and delete or
                       \* rename what they have open themselves
          Quiet        \* no bucket is changed while one of its files is open
                       \* for writing

ASSUME NamesAssumption == Names \subseteq Nat /\ Names # {}
ASSUME BucketsAssumption == Buckets \in Nat \ {0}
ASSUME BlocksAssumption == IsFiniteSet(Blocks) /\ Blocks # {} /\ NoBlock \notin Blocks
ASSUME ProtAssumption == InitProt \subseteq SUBSET {"r", "w"}
ASSUME EnvironmentAssumption == DeleteOpen \in BOOLEAN /\ Quiet \in BOOLEAN

VARIABLES disk,  \* hash table, header blocks and bitmap
          obj    \* the open file objects and their contexts

vars == <<disk, obj>>

Accesses == SUBSET {"r", "w"} \ {{}}
Links == Blocks \cup {NoBlock}
\* A header block; "w" in prot is ADF_ACCMASK_W: writing is forbidden.
Entry == [name : Names, next : Links, prot : SUBSET {"r", "w"}]
Disk == [table : [0 .. Buckets - 1 -> Links], hdr : [Blocks -> Entry], used : SUBSET Blocks]

NoHandle == [kind |-> "none"]
Closed == [kind |-> "closed"]
\* struct AdfFile: fileHdr->headerKey, the copy of the header, modeWrite.
Handle == [kind : {"file"}, key : Blocks, copy : Entry, write : BOOLEAN]
\* A file object: the name it was opened by, opened with DELETE access,
\* DeleteOnClose, and the context.
Object == [kind : {"open"}, name : Names, del : BOOLEAN, doc : BOOLEAN,
           handle : Handle \cup {NoHandle}]

IsOpen(o) == obj[o] # Closed
HasHandle(o) == IsOpen(o) /\ obj[o].handle # NoHandle
Writes(o) == HasHandle(o) /\ obj[o].handle.write
-----------------------------------------------------------------------------
(* Directories *)

Hash(n) == n % Buckets

Walks == UNION {[1 .. k -> Blocks] : k \in 0 .. Cardinality(Blocks)}

\* The blocks of a bucket: the hash table leads to the first of them, and
\* nextSameHash of each to the next one.
After(w, i) == IF i + 1 \in DOMAIN w THEN w[i + 1] ELSE NoBlock
IsChain(d, h, w) ==
  /\ d.table[h] = After(w, 0)
  /\ \A i \in DOMAIN w : d.hdr[w[i]].next = After(w, i)
Chain(d, h) == CHOOSE w \in Walks : IsChain(d, h, w)

\* Where in the chain w the name n comes first.
Hits(d, w, n) ==
  {i \in DOMAIN w : d.hdr[w[i]].name = n /\ \A j \in 1 .. i - 1 : d.hdr[w[j]].name # n}

\* adfNameToEntryBlk
Found(d, n) ==
  LET w == Chain(d, Hash(n))
      hits == Hits(d, w, n)
  IN  IF hits = {} THEN NoBlock ELSE w[CHOOSE i \in hits : TRUE]

\* The disk d with the link to the entry named n redirected to block b: in
\* the hash table if the entry is the first, else in its predecessor.
Relinked(d, n, b) ==
  LET w == Chain(d, Hash(n))
      i == CHOOSE i \in Hits(d, w, n) : TRUE
  IN  IF i = 1 THEN [d EXCEPT !.table[Hash(n)] = b]
               ELSE [d EXCEPT !.hdr[w[i - 1]].next = b]

\* A mutant: the rest of the bucket is cut off together with the entry.
UnlinkedWithRest(d, n) == Relinked(d, n, NoBlock)
Unlinked(d, n) == Relinked(d, n, d.hdr[Found(d, n)].next)

\* A mutant: put at the front, without its own link to the others.
LinkedFirst(d, n, b) == [d EXCEPT !.table[Hash(n)] = b]
\* Block b put at the end of the bucket of name n.
Linked(d, n, b) ==
  LET w == Chain(d, Hash(n))
  IN  [d EXCEPT !.table[Hash(n)] = IF DOMAIN w = {} THEN b ELSE @,
                !.hdr = [x \in Blocks |-> IF \E i \in DOMAIN w : w[i] = x /\ After(w, i) = NoBlock
                                          THEN [@[x] EXCEPT !.next = b] ELSE @[x]]]

\* A mutant: the Windows attribute "archive" taken for an Amiga protection.
NewEntryArchived(n) == [name |-> n, next |-> NoBlock, prot |-> {"a"}]
NewEntry(n) == [name |-> n, next |-> NoBlock, prot |-> {}]
\* adfCreateFile in the free block b.
Created(d, n, b) ==
  [Linked(d, n, b) EXCEPT !.hdr[b] = NewEntry(n), !.used = d.used \cup {b}]

\* adfRemoveEntry
Removed(d, n) ==
  LET b == Found(d, n)
  IN  [Unlinked(d, n) EXCEPT !.used = d.used \ {b}]

\* adfRenameEntry, within the directory.
Renamed(d, n, m) ==
  LET b == Found(d, n)
      out == Unlinked(d, n)
      named == [out EXCEPT !.hdr[b] = [name |-> m, next |-> NoBlock, prot |-> d.hdr[b].prot]]
  IN  Linked(named, m, b)

\* adfFileFlush: the header a handle has in memory is written to its block.
Flushed(d, f) == IF f # NoHandle /\ f.write THEN [d EXCEPT !.hdr[f.key] = f.copy] ELSE d
-----------------------------------------------------------------------------
(* Open files *)

\* A mutant: read-only access never conflicts with anybody.
InUseForWriting(b, acc) ==
  /\ b # NoBlock /\ "r" \notin disk.hdr[b].prot
  /\ "w" \in acc
  /\ \E p \in Objects : HasHandle(p) /\ obj[p].handle.key = b
\* isFileInUse, for the entry b that its name denotes in the current
\* directory: it is opened for reading in order to learn its block, so an
\* entry that may not be read counts as not in use.
IsFileInUse(b, acc) ==
  /\ b # NoBlock /\ "r" \notin disk.hdr[b].prot
  /\ \E p \in Objects : /\ HasHandle(p) /\ obj[p].handle.key = b
                        /\ "w" \in acc \/ obj[p].handle.write

\* After locatePath(filename) the current "directory" is the file itself, whose
\* table holds data blocks: the name is not found in it.
FoundInItself == NoBlock

\* The Dokan driver: a file that waits for its deletion cannot be opened, and
\* share modes keep those who delete and those who use a file apart.
DeletePending(n) == \E p \in Objects : IsOpen(p) /\ obj[p].name = n /\ obj[p].doc
MayOpen(o, n, del, doc, data) ==
  /\ ~IsOpen(o) /\ ~DeletePending(n)
  /\ doc => del
  /\ DeleteOpen \/ (data /\ del => doc)
  /\ DeleteOpen \/ \A p \in Objects :
       IsOpen(p) /\ obj[p].name = n => /\ del => ~HasHandle(p)
                                       /\ data => ~obj[p].del
MayDelete(o) == IsOpen(o) /\ obj[o].del /\ (DeleteOpen \/ ~HasHandle(o))

\* No other file of the bucket of n is open for writing, or it does not matter.
Settled(o, n) ==
  Quiet => \A p \in Objects \ {o} : Writes(p) => Hash(obj[p].name) # Hash(n)

Opened(n, del, doc, f) ==
  [kind |-> "open", name |-> n, del |-> del, doc |-> doc, handle |-> f]
-----------------------------------------------------------------------------
\* The volume with the files S, each alone in its bucket: their blocks and
\* their protections.
Mounted(S, at, prot) ==
  [table |-> [h \in 0 .. Buckets - 1 |->
                IF \E n \in S : Hash(n) = h
                THEN at[CHOOSE n \in S : Hash(n) = h] ELSE NoBlock],
   hdr   |-> [b \in Blocks |->
                IF \E n \in S : at[n] = b
                THEN LET n == CHOOSE n \in S : at[n] = b
                     IN  [NewEntry(n) EXCEPT !.prot = prot[n]]
                ELSE NewEntry(CHOOSE n \in Names : TRUE)],
   used  |-> {at[n] : n \in S}]

\* Buckets with more than one file come about as files are created.
Init ==
  /\ \E S \in SUBSET Names :
     \E at \in [S -> Blocks], prot \in [S -> InitProt] :
       /\ \A m, n \in S : m # n => at[m] # at[n] /\ Hash(m) # Hash(n)
       /\ disk = Mounted(S, at, prot)
  /\ obj = [o \in Objects |-> Closed]

\* fs_createfile of a file that is there, for reading or writing.  The
\* dispositions differ in what they do to the contents and in further refusals.
OpenExisting(o, n, acc, del, doc) ==
  LET b == Found(disk, n)
  IN  /\ MayOpen(o, n, del, doc, TRUE)
      /\ b # NoBlock
      /\ ~(doc /\ "w" \in disk.hdr[b].prot)
      /\ ~IsFileInUse(b, acc)
      /\ acc \cap disk.hdr[b].prot = {}
      /\ obj' = [obj EXCEPT ![o] = Opened(n, del, doc,
                   [kind |-> "file", key |-> b, copy |-> disk.hdr[b], write |-> "w" \in acc])]
      /\ UNCHANGED disk

\* fs_createfile of a new file, for reading or writing.
OpenNew(o, n, acc, del, doc) ==
  /\ MayOpen(o, n, del, doc, TRUE) /\ Settled(o, n)
  /\ Found(disk, n) = NoBlock
  /\ \E b \in Blocks \ disk.used :
       /\ disk' = Created(disk, n, b)
       /\ obj' = [obj EXCEPT ![o] = Opened(n, del, doc,
                    [kind |-> "file", key |-> b, copy |-> NewEntry(n), write |-> "w" \in acc])]

\* fs_createfile without access to the data: no context, and whatever the
\* disposition nothing is created.
OpenPlain(o, n, del, doc) ==
  LET b == Found(disk, n)
  IN  /\ MayOpen(o, n, del, doc, FALSE)
      /\ ~(doc /\ b # NoBlock /\ "w" \in disk.hdr[b].prot)
      /\ obj' = [obj EXCEPT ![o] = Opened(n, del, doc, NoHandle)]
      /\ UNCHANGED disk

\* fs_deletefile removes the entry at once; the driver notes DeleteOnClose.
DeleteFile(o) ==
  LET n == obj[o].name
      b == Found(disk, n)
  IN  /\ MayDelete(o) /\ Settled(o, n)
      /\ b # NoBlock
      /\ ~IsFileInUse(FoundInItself, {"w"})
      /\ "w" \notin disk.hdr[b].prot
      /\ disk' = Removed(disk, n)
      /\ obj' = [obj EXCEPT ![o].doc = TRUE]

\* A mutant: the target is not looked for.
MoveFileOver(o, m) ==
  LET n == obj[o].name
  IN  /\ MayDelete(o) /\ Settled(o, n) /\ Settled(o, m) /\ ~DeletePending(m)
      /\ Found(disk, n) # NoBlock
      /\ ~IsFileInUse(FoundInItself, {"w"})
      /\ disk' = Renamed(disk, n, m)
      /\ obj' = [p \in Objects |-> IF IsOpen(p) /\ obj[p].name = n
                                   THEN [obj[p] EXCEPT !.name = m] ELSE obj[p]]
\* fs_movefile to a name that is free (replacing a file always fails); the
\* driver renames all file objects of the file.
MoveFile(o, m) ==
  LET n == obj[o].name
  IN  /\ MayDelete(o) /\ Settled(o, n) /\ Settled(o, m) /\ ~DeletePending(m)
      /\ Found(disk, n) # NoBlock
      /\ ~IsFileInUse(FoundInItself, {"w"})
      /\ Found(disk, m) = NoBlock
      /\ disk' = Renamed(disk, n, m)
      /\ obj' = [p \in Objects |-> IF IsOpen(p) /\ obj[p].name = n
                                   THEN [obj[p] EXCEPT !.name = m] ELSE obj[p]]

\* fs_setfileattributes: only the read-only bit and the protection matter here.
SetAttributes(o, prot) ==
  LET b == Found(disk, obj[o].name)
  IN  /\ IsOpen(o) /\ b # NoBlock
      /\ disk' = [disk EXCEPT !.hdr[b].prot = prot]
      /\ UNCHANGED obj

\* fs_flushfilebuffers
FlushBuffers(o) ==
  /\ HasHandle(o)
  /\ disk' = Flushed(disk, obj[o].handle)
  /\ UNCHANGED obj

\* fs_cleanup: closes the handle, which flushes it, then deletes by name.
Cleanup(o) ==
  LET n == obj[o].name
      flushed == Flushed(disk, obj[o].handle)
      b == Found(flushed, n)
      deletes == obj[o].doc /\ b # NoBlock /\ "w" \notin flushed.hdr[b].prot
  IN  /\ IsOpen(o)
      /\ deletes => Settled(o, n)
      /\ disk' = IF deletes THEN Removed(flushed, n) ELSE flushed
      /\ obj' = [obj EXCEPT ![o] = Closed]

Next ==
  \E o \in Objects :
    \/ \E n \in Names, del, doc \in BOOLEAN :
         \/ OpenPlain(o, n, del, doc)
         \/ \E acc \in Accesses : OpenExisting(o, n, acc, del, doc) \/ OpenNew(o, n, acc, del, doc)
    \/ DeleteFile(o)
    \/ \E m \in Names : MoveFile(o, m)
    \/ \E prot \in {{}, {"w"}} : SetAttributes(o, prot)
    \/ FlushBuffers(o)
    \/ Cleanup(o)

Spec == Init /\ [][Next]_vars
-----------------------------------------------------------------------------
(* The directory is made of blocks and links, the objects of names and handles. *)
TypeOK == disk \in Disk /\ obj \in [Objects -> Object \cup {Closed}]

(* A file open for writing is open nowhere else (isFileInUse in              *)
(* fs_createfile): two handles would overwrite each other's header block.   *)
WritersExclusive ==
  \A o, p \in Objects :
    /\ Writes(o) /\ HasHandle(p)
    /\ obj[o].handle.key = obj[p].handle.key
    => o = p

(* A file that a program has open is still in the directory, under the name *)
(* the program knows it by and in the block its handle will write to.       *)
OpenFilesKept ==
  \A o \in Objects : HasHandle(o) => Found(disk, obj[o].name) = obj[o].handle.key

(* Every header block in use is reached from the hash table under its name: *)
(* adfCreateEntry, adfRemoveEntry and adfRenameEntry link and unlink one     *)
(* entry and keep the others of its bucket, whatever was created, deleted    *)
(* and renamed before.  This takes Quiet: a header that goes stale while its *)
(* file is open loses the files behind it (FlushKeepsDirectory).             *)
EntriesReachable == \A b \in disk.used : Found(disk, disk.hdr[b].name) = b

(* Flushing a file writes its data and header and touches no other file: the *)
(* directory shows after fs_flushfilebuffers what it showed before.          *)
FlushKeepsDirectory ==
  [][\A o \in Objects : FlushBuffers(o)
       => \A n \in Names : Found(disk', n) = Found(disk, n)]_vars

(* fs_deletefile asks isFileInUse and so removes no file that another one    *)
(* has open: the block that the name led to is not that handle's.            *)
DeleteSparesOpenFiles ==
  [][\A o, p \in Objects : DeleteFile(o) /\ p # o /\ HasHandle(p)
       => obj[p].handle.key # Found(disk, obj[o].name)]_vars

Directory == INSTANCE FlatDirectory WITH
  Files <- Blocks, NoFile <- NoBlock,
  dir <- [n \in Names |-> Found(disk, n)],
  opened <- [o \in Objects |-> IF HasHandle(o) THEN obj[o].handle.key ELSE NoBlock]

(* Creating, deleting, renaming and closing act on the directory as          *)
(* programs expect: one file at a time, and never one that is open.         *)
ImplementsDirectory == Directory!DirectorySpec
=============================================================================
