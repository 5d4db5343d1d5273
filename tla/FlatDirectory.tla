--------------------------- MODULE FlatDirectory ---------------------------
(***************************************************************************)
(* What DokanFileSystemAmigaFS promises the programs that use one directory *)
(* of a mounted volume: names denote files, and a file that is open stays   *)
(* where it is.  It is neither deleted nor renamed, and its storage is not  *)
(* given to another file, before the last program has closed it            *)
(* (isFileInUse, STATUS_SHARING_VIOLATION).                                 *)
(***************************************************************************)
CONSTANTS Names,    \* file names
          Files,    \* identities of files: where they are stored
          NoFile,   \* no file
          Objects   \* file objects of the programs

VARIABLES dir,      \* [Names -> Files \cup {NoFile}]
          opened    \* [Objects -> Files \cup {NoFile}]: files opened for data

directoryVars == <<dir, opened>>

InUse(f) == \E o \in Objects : opened[o] = f
Stored == {dir[n] : n \in Names} \ {NoFile}

DirectoryInit ==
  /\ dir \in [Names -> Files \cup {NoFile}]
  /\ \A m, n \in Names : dir[m] = dir[n] /\ dir[m] # NoFile => m = n
  /\ opened = [o \in Objects |-> NoFile]

Open(o, n) ==
  /\ opened[o] = NoFile /\ dir[n] # NoFile
  /\ opened' = [opened EXCEPT ![o] = dir[n]]
  /\ UNCHANGED dir

Create(o, n) ==
  /\ opened[o] = NoFile /\ dir[n] = NoFile
  /\ \E f \in Files \ Stored :
       /\ ~InUse(f)
       /\ dir' = [dir EXCEPT ![n] = f]
       /\ opened' = [opened EXCEPT ![o] = f]

Close(o) ==
  /\ opened' = [opened EXCEPT ![o] = NoFile]
  /\ UNCHANGED dir

\* Closing a temporary file removes it, unless somebody else has it open.
CloseAndDelete(o, n) ==
  /\ opened' = [opened EXCEPT ![o] = NoFile]
  /\ dir[n] # NoFile
  /\ dir' = [dir EXCEPT ![n] = NoFile]
  /\ \A p \in Objects \ {o} : opened[p] # dir[n]

Delete(n) ==
  /\ UNCHANGED opened
  /\ dir[n] # NoFile /\ ~InUse(dir[n])
  /\ dir' = [dir EXCEPT ![n] = NoFile]

Rename(n, m) ==
  /\ UNCHANGED opened
  /\ dir[n] # NoFile /\ ~InUse(dir[n]) /\ dir[m] = NoFile
  /\ dir' = [dir EXCEPT ![n] = NoFile, ![m] = dir[n]]

DirectoryNext ==
  \/ \E n \in Names : Delete(n) \/ \E m \in Names : Rename(n, m)
  \/ \E o \in Objects : \/ Close(o)
                        \/ \E n \in Names : Open(o, n) \/ Create(o, n) \/ CloseAndDelete(o, n)

DirectorySpec == DirectoryInit /\ [][DirectoryNext]_directoryVars
=============================================================================
