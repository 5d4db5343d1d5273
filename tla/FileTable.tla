----------------------------- MODULE FileTable -----------------------------
(***************************************************************************)
(* What a mounted FAT or PFS3 volume promises the programs that use it:     *)
(* paths denote files of a certain size and directories; a program that has *)
(* a file open changes a size of its own, and the others see it at once or  *)
(* when it has been flushed or closed.  A file somebody has open is neither *)
(* deleted nor renamed.                                                     *)
(***************************************************************************)
EXTENDS Naturals, Sequences

CONSTANTS Paths,     \* <<name>> or <<directory, name>>
          Sizes,     \* sizes files may have
          Objects,   \* file objects of the programs
          Dir,       \* stands for a directory in place of a size
          None       \* no such file; nothing open

VARIABLES table,     \* [Paths -> Sizes \cup {Dir, None}]
          own        \* [Objects -> [path, size] \cup {None}]

tableVars == <<table, own>>

Below(p, q) == Len(q) = 2 /\ p = <<q[1]>>
InUse(p) == \E o \in Objects : own[o] # None /\ own[o].path = p
IsAFile(p) == table[p] \notin {Dir, None}
HasParent(p) == \A q \in Paths : Below(q, p) => table[q] = Dir

TableInit ==
  /\ own = [o \in Objects |-> None]
  /\ \A p \in Paths : table[p] # None => HasParent(p)

\* A file that is there, or a new or emptied one; size is what others see, or 0.
OpenFileAt(o, p, size) ==
  /\ own[o] = None /\ HasParent(p) /\ table[p] # Dir
  /\ \/ table[p] # None /\ UNCHANGED table
     \/ size = 0 /\ table' = [table EXCEPT ![p] = 0]
  /\ own' = [own EXCEPT ![o] = [path |-> p, size |-> size]]

\* Writing, or setting the end of the file, before others see it.
Resize(o, size) ==
  /\ own[o] # None
  /\ UNCHANGED table
  /\ own' = [own EXCEPT ![o].size = size]

\* The same for a program alone with its file, and seen at once.
WriteThrough(o, size) ==
  /\ own[o] # None
  /\ \A x \in Objects \ {o} : own[x] = None \/ own[x].path # own[o].path
  /\ table' = [table EXCEPT ![own[o].path] = size]
  /\ own' = [own EXCEPT ![o].size = size]

Publish(o) ==
  /\ own[o] # None
  /\ table' = [table EXCEPT ![own[o].path] = own[o].size]
  /\ UNCHANGED own

\* Closing publishes; a temporary file is removed, unless somebody else has it.
CloseFile(o, deletes) ==
  LET p == own[o].path
  IN  /\ own[o] # None
      /\ own' = [own EXCEPT ![o] = None]
      /\ table' = [table EXCEPT ![p] = IF deletes THEN None ELSE own[o].size]
      /\ deletes => \A x \in Objects \ {o} : own[x] = None \/ own[x].path # p

MakeDir(p) ==
  /\ table[p] = None /\ HasParent(p)
  /\ table' = [table EXCEPT ![p] = Dir]
  /\ UNCHANGED own

\* Files that are not open; directories that are empty.
Remove(p) ==
  /\ table[p] # None /\ ~InUse(p)
  /\ table[p] = Dir => \A q \in Paths : Below(p, q) => table[q] = None
  /\ table' = [table EXCEPT ![p] = None]
  /\ UNCHANGED own

\* A directory takes what is in it along; a file that has the name is replaced.
Move(p, q) ==
  /\ table[p] # None /\ p # q /\ HasParent(q) /\ ~InUse(p) /\ ~InUse(q)
  /\ \A x \in Paths : Below(p, x) => ~InUse(x)
  /\ table' = [x \in Paths |-> IF x = p \/ Below(p, x) THEN None
                               ELSE IF x = q THEN table[p]
                               ELSE IF Below(q, x) THEN IF <<p[1], x[2]>> \in Paths /\ Len(p) = 1
                                                        THEN table[<<p[1], x[2]>>] ELSE None
                               ELSE table[x]]
  /\ UNCHANGED own

TableNext ==
  \/ \E o \in Objects :
       \/ \E p \in Paths : \E size \in {0, table[p]} \cap Sizes : OpenFileAt(o, p, size)
       \/ \E size \in Sizes : Resize(o, size) \/ WriteThrough(o, size)
       \/ Publish(o) \/ \E deletes \in BOOLEAN : CloseFile(o, deletes)
  \/ \E p \in Paths : MakeDir(p) \/ Remove(p) \/ \E q \in Paths : Move(p, q)

TableSpec == TableInit /\ [][TableNext]_tableVars
=============================================================================
