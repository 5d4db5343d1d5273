--------------------------- MODULE PfsFiles_proofs ---------------------------
(***************************************************************************)
(* Theorems about PfsFiles, for any number of programs, names, anodes and   *)
(* blocks.                                                                  *)
(***************************************************************************)
EXTENDS PfsFiles, SequenceTheorems, FiniteSetTheorems, TLAPS

\* Nobody deletes, empties or moves what is open, and a target that is
\* replaced does not stand before its source (README, 7).
Considerate == Allow \subseteq {"rmdir"}

(***************************************************************************)
(* What a volume is at every point of a call.                               *)
(***************************************************************************)
Folder == Anodes \cup {RootDir}
DirEntry == [name : Names, anode : Anodes, kind : {"file", "dir"}, size : Nat]
OpenFileEntry == [open : {TRUE}, anode : Anodes, at : Nat \X Nat, exclusive : BOOLEAN, offset : Nat]

\* The blocks of the directories.
Blocky(dir) ==
  /\ dir = [d \in DOMAIN dir |-> dir[d]] /\ DOMAIN dir \subseteq Folder /\ RootDir \in DOMAIN dir
  /\ \A d \in DOMAIN dir : dir[d] \in Seq(DirEntry)
\* An entry has an anode in use, names are told apart, and so are anodes.
Told(dir, used) ==
  /\ \A d \in DOMAIN dir : \A i \in 1 .. Len(dir[d]) : dir[d][i].anode \in used
  /\ \A d \in DOMAIN dir : \A i, j \in 1 .. Len(dir[d]) : dir[d][i].name = dir[d][j].name => i = j
  /\ \A d, e \in DOMAIN dir : \A i \in 1 .. Len(dir[d]), j \in 1 .. Len(dir[e]) :
       dir[d][i].anode = dir[e][j].anode => d = e /\ i = j
  /\ \A a \in used : \E d \in DOMAIN dir : \E i \in 1 .. Len(dir[d]) : dir[d][i].anode = a
\* Directories are in the root directory, and go by names of directories.
Rooted(dir) ==
  /\ \A d \in DOMAIN dir : \A i \in 1 .. Len(dir[d]) :
       /\ dir[d][i].kind = "dir" <=> dir[d][i].name \in Folders
       /\ dir[d][i].kind = "dir" => d = RootDir /\ dir[d][i].anode \in DOMAIN dir
  /\ \A d \in DOMAIN dir \ {RootDir} : \E i \in 1 .. Len(dir[RootDir]) :
       dir[RootDir][i].anode = d /\ dir[RootDir][i].kind = "dir"
DirsOK(dir, used) == Blocky(dir) /\ used \in SUBSET Anodes /\ Told(dir, used) /\ Rooted(dir)

\* The directory of a path, and where the path leads.
FolderAt(dir, p, d) ==
  IF Len(p) = 1 THEN d = RootDir
  ELSE \E i \in 1 .. Len(dir[RootDir]) : dir[RootDir][i].name = p[1] /\ dir[RootDir][i].anode = d
Leads(dir, p, at) ==
  /\ at[1] \in DOMAIN dir /\ at[2] \in 1 .. Len(dir[at[1]])
  /\ dir[at[1]][at[2]].name = Last(p) /\ FolderAt(dir, p, at[1])
\* An open file is where its path leads, and its position inside it.
RefOK(dir, e, p) ==
  /\ p \in Paths /\ Last(p) \notin Folders /\ Leads(dir, p, e.at)
  /\ dir[e.at[1]][e.at[2]].anode = e.anode
  /\ e.offset <= dir[e.at[1]][e.at[2]].size
RefsOK(dir, le, name) == \A h \in Handles : le[h] # Closed => RefOK(dir, le[h], name[h])

Volume(x) ==
  /\ x = [dir |-> x.dir, used |-> x.used, le |-> x.le, locks |-> x.locks, avail |-> x.avail]
  /\ x.le \in [Handles -> {Closed} \cup OpenFileEntry] /\ x.locks \in SUBSET Anodes /\ x.avail \in Nat
Sound(x, name) == Volume(x) /\ DirsOK(x.dir, x.used) /\ RefsOK(x.dir, x.le, name)

FilesInv == Sound(g, path) /\ path \in [Handles -> Paths \cup {<<>>}]
LocksInv == g.locks \subseteq DOMAIN g.dir \ {RootDir}
-----------------------------------------------------------------------------
(***************************************************************************)
(* Least elements, and sequences.                                           *)
(***************************************************************************)
LEMMA MinIs ==
  ASSUME NEW S \in SUBSET Nat, S # {}
  PROVE  Min(S) \in S /\ \A y \in S : Min(S) <= y
<1>  DEFINE Less == {p \in Nat \X Nat : p[1] < p[2]}
<1>1. IsWellFoundedOn(Less, Nat)
  BY ONLY NatLessThanWellFounded, Zenon DEF OpToRel
<1>2. \E t \in S : \A u \in S : ~(<<u, t>> \in Less)
  <2>  HIDE DEF Less
  <2>  QED BY <1>1, WFMin, Zenon
<1>3. \E t \in S : \A u \in S : t <= u
  <2>1. PICK t \in S : \A u \in S : ~(<<u, t>> \in Less)
    BY <1>2
  <2>2. ASSUME NEW u \in S PROVE t <= u
    <3>1. ~(u < t)
      BY <2>1
    <3>2. QED
      BY <3>1
  <2>3. QED
    BY <2>2
<1>4. QED
  BY <1>3 DEF Min

LEMMA MinOfTwo ==
  ASSUME NEW a \in Nat, NEW b \in Nat
  PROVE  Min({a, b}) \in Nat /\ Min({a, b}) <= a /\ Min({a, b}) <= b /\ Min({a, b}) \in {a, b}
  BY MinIs, {a, b} \in SUBSET Nat, {a, b} # {}

LEMMA MaxOfTwo ==
  ASSUME NEW a \in Nat, NEW b \in Nat
  PROVE  Max({a, b}) \in Nat /\ a <= Max({a, b}) /\ b <= Max({a, b}) /\ Max({a, b}) \in {a, b}
<1>1. \E x \in {a, b} : \A y \in {a, b} : x >= y
  OBVIOUS
<1>2. QED
  BY <1>1 DEF Max

LEMMA AppendIs ==
  ASSUME NEW S, NEW s \in Seq(S), NEW e \in S
  PROVE  /\ Append(s, e) \in Seq(S) /\ Len(Append(s, e)) = Len(s) + 1 /\ Len(s) \in Nat
         /\ \A i \in 1 .. Len(s) : Append(s, e)[i] = s[i]
         /\ Append(s, e)[Len(s) + 1] = e
  OBVIOUS

\* Where an element comes from when the one at k has been taken out.
Gap(i, k) == IF i < k THEN i ELSE i + 1

LEMMA RemoveAtIs ==
  ASSUME NEW S, NEW s \in Seq(S), NEW k \in 1 .. Len(s)
  PROVE  /\ RemoveAt(s, k) \in Seq(S) /\ Len(RemoveAt(s, k)) = Len(s) - 1 /\ Len(s) \in Nat
         /\ \A i \in 1 .. (Len(s) - 1) : RemoveAt(s, k)[i] = s[Gap(i, k)]
<1>  DEFINE a == SubSeq(s, 1, k - 1)
            b == SubSeq(s, k + 1, Len(s))
<1>1. Len(s) \in Nat /\ k \in Nat /\ k >= 1 /\ k <= Len(s)
  OBVIOUS
<1>2. a \in Seq(S) /\ Len(a) = k - 1 /\ \A i \in 1 .. (k - 1) : a[i] = s[i]
  BY <1>1
<1>3. b \in Seq(S) /\ Len(b) = Len(s) - k /\ \A i \in 1 .. (Len(s) - k) : b[i] = s[k + i]
  BY <1>1
<1>4. RemoveAt(s, k) = a \o b
  BY DEF RemoveAt
<1>  HIDE DEF a, b
<1>5. a \o b \in Seq(S) /\ Len(a \o b) = Len(s) - 1
  <2>1. a \o b \in Seq(S) /\ Len(a \o b) = Len(a) + Len(b)
    BY <1>2, <1>3, ConcatProperties
  <2>2. QED
    BY <1>1, <1>2, <1>3, <2>1
<1>6. ASSUME NEW i \in 1 .. (Len(s) - 1) PROVE (a \o b)[i] = s[Gap(i, k)]
  <2>1. CASE i < k
    <3>1. i \in 1 .. Len(a)
      BY <1>1, <1>2, <2>1
    <3>2. (a \o b)[i] = a[i]
      BY <1>2, <1>3, <3>1
    <3>3. QED
      BY <1>1, <1>2, <2>1, <3>1, <3>2 DEF Gap
  <2>2. CASE ~(i < k)
    <3>1. i - (k - 1) \in 1 .. (Len(s) - k) /\ k + (i - (k - 1)) = i + 1
      BY <1>1, <2>2
    <3>2. (a \o b)[i] = b[i - Len(a)]
      BY SMTT(60), <1>1, <1>2, <1>3, <2>2
    <3>3. QED
      BY SMTT(60), <1>2, <1>3, <2>2, <3>1, <3>2 DEF Gap
  <2>3. QED
    BY <2>1, <2>2
<1>7. QED
  BY <1>1, <1>4, <1>5, <1>6
-----------------------------------------------------------------------------
(***************************************************************************)
(* The blocks of the directories: an entry is changed, added, taken out.     *)
(***************************************************************************)
At(dir, at) == at[1] \in DOMAIN dir /\ at[2] \in 1 .. Len(dir[at[1]])
EntryOf(dir, at) == dir[at[1]][at[2]]

LEMMA EntryIs ==
  ASSUME NEW dir, Blocky(dir), NEW d \in DOMAIN dir
  PROVE  /\ dir[d] \in Seq(DirEntry) /\ Len(dir[d]) \in Nat /\ DOMAIN dir[d] = 1 .. Len(dir[d])
         /\ \A i \in 1 .. Len(dir[d]) : dir[d][i] \in DirEntry
<1>1. dir[d] \in Seq(DirEntry)
  BY DEF Blocky
<1>2. QED
  BY <1>1

Put(dir, at, e) == [dir EXCEPT ![at[1]] = [@ EXCEPT ![at[2]] = e]]
LEMMA PutIs ==
  ASSUME NEW dir, Blocky(dir), NEW at, At(dir, at), NEW e \in DirEntry
  PROVE  /\ Blocky(Put(dir, at, e)) /\ DOMAIN Put(dir, at, e) = DOMAIN dir
         /\ \A d \in DOMAIN dir : Len(Put(dir, at, e)[d]) = Len(dir[d])
         /\ \A d \in DOMAIN dir : \A i \in 1 .. Len(dir[d]) :
              Put(dir, at, e)[d][i] = IF d = at[1] /\ i = at[2] THEN e ELSE dir[d][i]
<1>  DEFINE y == Put(dir, at, e)
            s == dir[at[1]]
            t == [s EXCEPT ![at[2]] = e]
<1>1. s \in Seq(DirEntry) /\ at[2] \in 1 .. Len(s) /\ at[1] \in DOMAIN dir
  BY DEF Blocky, At
<1>2. t \in Seq(DirEntry) /\ Len(t) = Len(s) /\ \A i \in 1 .. Len(s) : t[i] = IF i = at[2] THEN e ELSE s[i]
  BY <1>1
<1>3. y = [dir EXCEPT ![at[1]] = t]
  BY DEF Put
<1>  HIDE DEF t, y
<1>4. y = [d \in DOMAIN dir |-> IF d = at[1] THEN t ELSE dir[d]]
  BY <1>3 DEF Blocky
<1>5. Blocky(y) /\ DOMAIN y = DOMAIN dir
  BY <1>2, <1>4 DEF Blocky
<1>6. QED
  BY <1>2, <1>4, <1>5 DEF y

\* An entry in its place keeps anode and kind; its new name is free.
LEMMA PutOK ==
  ASSUME NEW dir, NEW used, DirsOK(dir, used), NEW at, At(dir, at), NEW e \in DirEntry,
         e.anode = EntryOf(dir, at).anode, e.kind = EntryOf(dir, at).kind,
         e.kind = "dir" <=> e.name \in Folders,
         \A i \in 1 .. Len(dir[at[1]]) : dir[at[1]][i].name = e.name => i = at[2]
  PROVE  DirsOK(Put(dir, at, e), used)
<1>  DEFINE y == Put(dir, at, e)
<1>1. /\ Blocky(y) /\ DOMAIN y = DOMAIN dir
      /\ \A d \in DOMAIN dir : Len(y[d]) = Len(dir[d])
      /\ \A d \in DOMAIN dir : \A i \in 1 .. Len(dir[d]) :
           y[d][i] = IF d = at[1] /\ i = at[2] THEN e ELSE dir[d][i]
  BY PutIs DEF DirsOK
<1>  HIDE DEF y
<1>2. \A d \in DOMAIN dir : \A i \in 1 .. Len(dir[d]) : y[d][i].anode = dir[d][i].anode /\ y[d][i].kind = dir[d][i].kind
  BY <1>1 DEF EntryOf
<1>3. RootDir \in DOMAIN dir
  BY DEF DirsOK, Blocky
<1>4. \A d \in DOMAIN dir : \A i, j \in 1 .. Len(dir[d]) : y[d][i].name = y[d][j].name => i = j
  <2>  SUFFICES ASSUME NEW d \in DOMAIN dir, NEW i \in 1 .. Len(dir[d]), NEW j \in 1 .. Len(dir[d]),
                       y[d][i].name = y[d][j].name
                PROVE  i = j
    OBVIOUS
  <2>1. dir[d][i].name = dir[d][j].name => i = j
    BY DEF DirsOK, Told
  <2>2. CASE d # at[1] \/ (i # at[2] /\ j # at[2])
    BY <1>1, <2>1, <2>2
  <2>3. CASE d = at[1] /\ i = at[2] /\ j # at[2]
    BY <1>1, <2>3
  <2>4. CASE d = at[1] /\ i # at[2] /\ j = at[2]
    BY <1>1, <2>4
  <2>5. QED
    BY <2>2, <2>3, <2>4
<1>5. Told(y, used)
  BY SMTT(60), <1>1, <1>2, <1>4 DEF DirsOK, Told
<1>6. \A d \in DOMAIN dir : \A i \in 1 .. Len(dir[d]) : y[d][i].kind = "dir" <=> y[d][i].name \in Folders
  BY <1>1 DEF DirsOK, Rooted
<1>7. Rooted(y)
  BY SMTT(60), <1>1, <1>2, <1>3, <1>6 DEF DirsOK, Rooted
<1>8. QED
  BY <1>1, <1>5, <1>7 DEF DirsOK, y

With(dir, d, e) == [dir EXCEPT ![d] = Append(@, e)]
LEMMA WithIs ==
  ASSUME NEW dir, Blocky(dir), NEW d \in DOMAIN dir, NEW e \in DirEntry
  PROVE  /\ Blocky(With(dir, d, e)) /\ DOMAIN With(dir, d, e) = DOMAIN dir
         /\ \A c \in DOMAIN dir : Len(With(dir, d, e)[c]) = IF c = d THEN Len(dir[d]) + 1 ELSE Len(dir[c])
         /\ \A c \in DOMAIN dir : \A i \in 1 .. Len(dir[c]) : With(dir, d, e)[c][i] = dir[c][i]
         /\ With(dir, d, e)[d][Len(dir[d]) + 1] = e
         /\ With(dir, d, e)[d] = Append(dir[d], e)
<1>  DEFINE y == With(dir, d, e)
            t == Append(dir[d], e)
<1>1. dir[d] \in Seq(DirEntry)
  BY DEF Blocky
<1>2. /\ t \in Seq(DirEntry) /\ Len(t) = Len(dir[d]) + 1 /\ t[Len(dir[d]) + 1] = e
      /\ \A i \in 1 .. Len(dir[d]) : t[i] = dir[d][i]
  BY <1>1, AppendIs
<1>3. y = [dir EXCEPT ![d] = t]
  BY DEF With
<1>  HIDE DEF t, y
<1>4. y = [c \in DOMAIN dir |-> IF c = d THEN t ELSE dir[c]]
  BY <1>3 DEF Blocky
<1>5. Blocky(y) /\ DOMAIN y = DOMAIN dir
  BY <1>2, <1>4 DEF Blocky
<1>6. QED
  BY <1>2, <1>4, <1>5 DEF y, t

Without(dir, at) == [dir EXCEPT ![at[1]] = RemoveAt(@, at[2])]
LEMMA WithoutIs ==
  ASSUME NEW dir, Blocky(dir), NEW at, At(dir, at)
  PROVE  /\ Blocky(Without(dir, at)) /\ DOMAIN Without(dir, at) = DOMAIN dir
         /\ \A d \in DOMAIN dir : Len(Without(dir, at)[d]) = IF d = at[1] THEN Len(dir[d]) - 1 ELSE Len(dir[d])
         /\ \A d \in DOMAIN dir \ {at[1]} : Without(dir, at)[d] = dir[d]
         /\ \A i \in 1 .. (Len(dir[at[1]]) - 1) : Without(dir, at)[at[1]][i] = dir[at[1]][Gap(i, at[2])]
<1>  DEFINE y == Without(dir, at)
            s == dir[at[1]]
            t == RemoveAt(s, at[2])
<1>1. s \in Seq(DirEntry) /\ at[2] \in 1 .. Len(s) /\ at[1] \in DOMAIN dir
  BY DEF Blocky, At
<1>2. /\ t \in Seq(DirEntry) /\ Len(t) = Len(s) - 1
      /\ \A i \in 1 .. (Len(s) - 1) : t[i] = s[Gap(i, at[2])]
  BY ZenonT(60), <1>1, RemoveAtIs
<1>3. y = [dir EXCEPT ![at[1]] = t]
  BY DEF Without
<1>  HIDE DEF t, y
<1>4. y = [d \in DOMAIN dir |-> IF d = at[1] THEN t ELSE dir[d]]
  BY <1>3 DEF Blocky
<1>5. Blocky(y) /\ DOMAIN y = DOMAIN dir
  BY <1>2, <1>4 DEF Blocky
<1>6. QED
  BY <1>1, <1>2, <1>4, <1>5 DEF y

\* The block that goes with an entry.
Gone(e) == IF e.kind = "dir" THEN {e.anode} ELSE {}
\* y is dir with the entry e behind the others of d.
AddedTo(dir, y, d, e) ==
  /\ DOMAIN y = DOMAIN dir \cup Gone(e) /\ \A c \in Gone(e) : y[c] = <<>>
  /\ \A c \in DOMAIN dir : Len(y[c]) = IF c = d THEN Len(dir[d]) + 1 ELSE Len(dir[c])
  /\ \A c \in DOMAIN dir : \A i \in 1 .. Len(dir[c]) : y[c][i] = dir[c][i]
  /\ y[d][Len(dir[d]) + 1] = e

\* A new entry has an anode that was free and a name that was not taken.
LEMMA AddedOK ==
  ASSUME NEW dir, NEW used, DirsOK(dir, used), NEW d \in DOMAIN dir, NEW e \in DirEntry,
         e.anode \notin used, e.kind = "dir" <=> e.name \in Folders, e.kind = "dir" => d = RootDir,
         \A i \in 1 .. Len(dir[d]) : dir[d][i].name # e.name,
         NEW y, Blocky(y), AddedTo(dir, y, d, e)
  PROVE  DirsOK(y, used \cup {e.anode})
<1>  DEFINE n == Len(dir[d]) + 1
            new == Gone(e)
<1>1. /\ DOMAIN y = DOMAIN dir \cup new /\ \A c \in new : y[c] = <<>>
      /\ \A c \in DOMAIN dir : Len(y[c]) = IF c = d THEN n ELSE Len(dir[c])
      /\ \A c \in DOMAIN dir : \A i \in 1 .. Len(dir[c]) : y[c][i] = dir[c][i]
      /\ y[d][n] = e
  BY DEF AddedTo
<1>2. Len(dir[d]) \in Nat /\ RootDir \in DOMAIN dir /\ \A c \in DOMAIN dir : Len(dir[c]) \in Nat
  BY EntryIs DEF DirsOK, Blocky
<1>  HIDE DEF new
<1>2a. \A c \in new : Len(y[c]) = 0 /\ 1 .. 0 = {}
  BY <1>1
<1>3. \A c \in DOMAIN y : \A i \in 1 .. Len(y[c]) :
        \/ c = d /\ i = n /\ y[c][i] = e
        \/ c \in DOMAIN dir /\ i \in 1 .. Len(dir[c]) /\ y[c][i] = dir[c][i]
  <2>1. \A c \in new : \A i \in 1 .. Len(y[c]) : FALSE
    BY <1>2a
  <2>2. \A c \in DOMAIN dir : \A i \in 1 .. Len(y[c]) :
          (c = d /\ i = n) \/ i \in 1 .. Len(dir[c])
    BY <1>1, <1>2
  <2>3. QED
    BY <1>1, <2>1, <2>2
<1>4. \A c \in DOMAIN dir : \A i \in 1 .. Len(dir[c]) : i \in 1 .. Len(y[c]) /\ y[c][i] = dir[c][i]
  BY <1>1, <1>2
<1>5. n \in 1 .. Len(y[d])
  BY <1>1, <1>2
<1>  HIDE DEF n
<1>6. \A c \in DOMAIN y : \A i \in 1 .. Len(y[c]) : y[c][i].anode \in used \cup {e.anode}
  BY <1>3 DEF DirsOK, Told
<1>7. \A c \in DOMAIN y : \A i, j \in 1 .. Len(y[c]) : y[c][i].name = y[c][j].name => i = j
  BY SMTT(60), <1>3 DEF DirsOK, Told
<1>8. \A b, c \in DOMAIN y : \A i \in 1 .. Len(y[b]), j \in 1 .. Len(y[c]) :
        y[b][i].anode = y[c][j].anode => b = c /\ i = j
  <2>1. \A b, c \in DOMAIN dir : \A i \in 1 .. Len(dir[b]), j \in 1 .. Len(dir[c]) :
          dir[b][i].anode = dir[c][j].anode => b = c /\ i = j
    BY DEF DirsOK, Told
  <2>2. \A c \in DOMAIN dir : \A i \in 1 .. Len(dir[c]) : dir[c][i].anode # e.anode
    BY DEF DirsOK, Told
  <2>  SUFFICES ASSUME NEW b \in DOMAIN y, NEW c \in DOMAIN y, NEW i \in 1 .. Len(y[b]),
                       NEW j \in 1 .. Len(y[c]), y[b][i].anode = y[c][j].anode
                PROVE  b = c /\ i = j
    OBVIOUS
  <2>3. CASE b \in DOMAIN dir /\ i \in 1 .. Len(dir[b]) /\ y[b][i] = dir[b][i]
    BY SMTT(60), <1>3, <2>1, <2>2, <2>3
  <2>4. CASE b = d /\ i = n /\ y[b][i] = e
    BY <1>3, <2>2, <2>4
  <2>5. QED
    BY <1>3, <2>3, <2>4
<1>9. \A a \in used \cup {e.anode} : \E c \in DOMAIN y : \E i \in 1 .. Len(y[c]) : y[c][i].anode = a
  <2>1. \A a \in used : \E c \in DOMAIN dir : \E i \in 1 .. Len(y[c]) : y[c][i].anode = a
    BY SMTT(60), <1>4 DEF DirsOK, Told
  <2>2. QED
    BY <1>1, <1>5, <2>1
<1>10. Told(y, used \cup {e.anode})
  BY <1>1, <1>6, <1>7, <1>8, <1>9 DEF Told
<1>11. Rooted(y)
  <2>1. \A c \in DOMAIN y : \A i \in 1 .. Len(y[c]) :
          /\ y[c][i].kind = "dir" <=> y[c][i].name \in Folders
          /\ y[c][i].kind = "dir" => c = RootDir /\ y[c][i].anode \in DOMAIN y
    <3>1. e.kind = "dir" => e.anode \in new
      BY DEF new, Gone
    <3>2. QED
      BY <1>1, <1>3, <3>1 DEF DirsOK, Rooted
  <2>2. \A c \in DOMAIN y \ {RootDir} : \E i \in 1 .. Len(y[RootDir]) :
          y[RootDir][i].anode = c /\ y[RootDir][i].kind = "dir"
    <3>1. \A c \in new : c = e.anode /\ e.kind = "dir" /\ d = RootDir
      BY DEF new, Gone
    <3>2. \A c \in DOMAIN dir \ {RootDir} : \E i \in 1 .. Len(y[RootDir]) :
            y[RootDir][i].anode = c /\ y[RootDir][i].kind = "dir"
      <4>  SUFFICES ASSUME NEW c \in DOMAIN dir \ {RootDir}
                    PROVE  \E i \in 1 .. Len(y[RootDir]) : y[RootDir][i].anode = c /\ y[RootDir][i].kind = "dir"
        OBVIOUS
      <4>1. PICK i \in 1 .. Len(dir[RootDir]) : dir[RootDir][i].anode = c /\ dir[RootDir][i].kind = "dir"
        BY DEF DirsOK, Rooted
      <4>2. i \in 1 .. Len(y[RootDir]) /\ y[RootDir][i] = dir[RootDir][i]
        BY <1>2, <1>4
      <4>3. QED
        BY <4>1, <4>2
    <3>3. QED
      BY <1>1, <1>5, <3>1, <3>2
  <2>3. QED
    BY <1>1, <2>1, <2>2 DEF Rooted
<1>12. used \cup {e.anode} \in SUBSET Anodes
  BY DEF DirsOK, DirEntry
<1>13. QED
  BY <1>10, <1>11, <1>12 DEF DirsOK

LEMMA WithOK ==
  ASSUME NEW dir, NEW used, DirsOK(dir, used), NEW d \in DOMAIN dir, NEW e \in DirEntry,
         e.anode \notin used, e.kind = "file", e.name \notin Folders,
         \A i \in 1 .. Len(dir[d]) : dir[d][i].name # e.name
  PROVE  DirsOK(With(dir, d, e), used \cup {e.anode}) /\ AddedTo(dir, With(dir, d, e), d, e)
<1>1. Blocky(With(dir, d, e)) /\ AddedTo(dir, With(dir, d, e), d, e)
  <2>  DEFINE y == With(dir, d, e)
  <2>1. Gone(e) = {}
    BY DEF Gone
  <2>2. /\ Blocky(y) /\ DOMAIN y = DOMAIN dir
        /\ \A c \in DOMAIN dir : Len(y[c]) = IF c = d THEN Len(dir[d]) + 1 ELSE Len(dir[c])
        /\ \A c \in DOMAIN dir : \A i \in 1 .. Len(dir[c]) : y[c][i] = dir[c][i]
        /\ y[d][Len(dir[d]) + 1] = e
    BY WithIs DEF DirsOK
  <2>  HIDE DEF y
  <2>3. AddedTo(dir, y, d, e)
    BY <2>1, <2>2 DEF AddedTo
  <2>4. QED
    BY <2>2, <2>3 DEF y
<1>2. QED
  BY <1>1, AddedOK

\* A directory's block, empty.
WithBlock(dir, a) == [c \in DOMAIN dir \cup {a} |-> IF c = a THEN <<>> ELSE dir[c]]
LEMMA WithFolderOK ==
  ASSUME NEW dir, NEW used, DirsOK(dir, used), NEW e \in DirEntry,
         e.anode \notin used, e.kind = "dir", e.name \in Folders,
         \A i \in 1 .. Len(dir[RootDir]) : dir[RootDir][i].name # e.name
  PROVE  /\ DirsOK(WithBlock(With(dir, RootDir, e), e.anode), used \cup {e.anode})
         /\ AddedTo(dir, WithBlock(With(dir, RootDir, e), e.anode), RootDir, e)
<1>  DEFINE a == e.anode
            z == With(dir, RootDir, e)
            y == WithBlock(z, a)
<1>1. RootDir \in DOMAIN dir /\ a \in Anodes /\ a # RootDir
  BY PfsNumbersAssumption DEF DirsOK, Blocky, DirEntry, Anodes
<1>2. a \notin DOMAIN dir
  BY <1>1 DEF DirsOK, Rooted, Told
<1>3. /\ Blocky(z) /\ DOMAIN z = DOMAIN dir
      /\ \A c \in DOMAIN dir : Len(z[c]) = IF c = RootDir THEN Len(dir[RootDir]) + 1 ELSE Len(dir[c])
      /\ \A c \in DOMAIN dir : \A i \in 1 .. Len(dir[c]) : z[c][i] = dir[c][i]
      /\ z[RootDir][Len(dir[RootDir]) + 1] = e
  BY <1>1, WithIs DEF DirsOK
<1>  HIDE DEF z
<1>4. y = [c \in DOMAIN dir \cup {a} |-> IF c = a THEN <<>> ELSE z[c]]
  BY <1>3 DEF WithBlock
<1>  HIDE DEF y
<1>5. DOMAIN y = DOMAIN dir \cup {a} /\ y[a] = <<>> /\ \A c \in DOMAIN dir : y[c] = z[c]
  BY <1>2, <1>4
<1>6. Blocky(y)
  <2>1. y = [c \in DOMAIN y |-> y[c]]
    BY <1>4
  <2>2. <<>> \in Seq(DirEntry)
    OBVIOUS
  <2>3. QED
    BY ZenonT(60), <1>1, <1>3, <1>5, <2>1, <2>2 DEF Blocky, Folder
<1>7. AddedTo(dir, y, RootDir, e)
  BY <1>1, <1>3, <1>5 DEF AddedTo, Gone
<1>8. QED
  BY <1>1, <1>6, <1>7, AddedOK DEF y, z

\* y is dir without the entry at at: what is behind it moved.
RemovedFrom(dir, y, at) ==
  /\ DOMAIN y = DOMAIN dir \ Gone(EntryOf(dir, at))
  /\ \A d \in DOMAIN y : Len(y[d]) = IF d = at[1] THEN Len(dir[d]) - 1 ELSE Len(dir[d])
  /\ \A d \in DOMAIN y \ {at[1]} : y[d] = dir[d]
  /\ \A i \in 1 .. (Len(dir[at[1]]) - 1) : y[at[1]][i] = dir[at[1]][Gap(i, at[2])]

\* An entry goes, its anode with it, and if it is a directory, which is empty,
\* the block of that.
Minus(dir, D) == [d \in DOMAIN dir \ D |-> dir[d]]
LEMMA WithoutOK ==
  ASSUME NEW dir, NEW used, DirsOK(dir, used), NEW at, At(dir, at),
         \A d \in Gone(EntryOf(dir, at)) : dir[d] = <<>>
  PROVE  /\ DirsOK(Without(Minus(dir, Gone(EntryOf(dir, at))), at), used \ {EntryOf(dir, at).anode})
         /\ RemovedFrom(dir, Without(Minus(dir, Gone(EntryOf(dir, at))), at), at)
<1>  DEFINE gone == Gone(EntryOf(dir, at))
            z == Minus(dir, gone)
            y == Without(z, at)
            C == DOMAIN dir \ gone
            d == at[1]
            k == at[2]
            s == dir[d]
            e == EntryOf(dir, at)
<1>0. d \in C /\ k \in 1 .. Len(s) /\ Len(s) \in Nat /\ e = s[k] /\ RootDir \in C
      /\ \A c \in gone : Len(dir[c]) = 0
  <2>1. d \in DOMAIN dir /\ k \in 1 .. Len(s) /\ Len(s) \in Nat /\ e = s[k] /\ e \in DirEntry
    BY EntryIs DEF DirsOK, At, EntryOf
  <2>2. gone \subseteq Anodes /\ RootDir \notin Anodes
    BY SMTT(60), <2>1, PfsNumbersAssumption DEF DirEntry, Gone, Anodes
  <2>3. \A c \in gone : Len(dir[c]) = 0
    OBVIOUS
  <2>4. RootDir \in DOMAIN dir
    BY DEF DirsOK, Blocky
  <2>  HIDE DEF gone, e
  <2>5. QED
    BY <2>1, <2>2, <2>3, <2>4
<1>2. Blocky(z) /\ DOMAIN z = C /\ \A c \in C : z[c] = dir[c]
  <2>  HIDE DEF gone
  <2>  QED BY <1>0 DEF DirsOK, Blocky, Minus
<1>2a. At(z, at)
  BY <1>0, <1>2 DEF At
<1>  HIDE DEF z, gone
<1>1. /\ Blocky(y) /\ DOMAIN y = C
      /\ \A c \in C : Len(y[c]) = IF c = d THEN Len(s) - 1 ELSE Len(dir[c])
      /\ \A c \in C \ {d} : y[c] = dir[c]
      /\ \A i \in 1 .. (Len(s) - 1) : y[d][i] = s[Gap(i, k)]
  BY SMTT(60), <1>0, <1>2, <1>2a, WithoutIs
<1>  HIDE DEF y
<1>  DEFINE From(c, i) == IF c = d THEN Gap(i, k) ELSE i
<1>3. \A c \in C : \A i \in 1 .. Len(y[c]) :
        From(c, i) \in 1 .. Len(dir[c]) /\ y[c][i] = dir[c][From(c, i)] /\ ~(c = d /\ From(c, i) = k)
  BY SMTT(60), <1>0, <1>1 DEF Gap
<1>4. \A c \in C : \A i, j \in 1 .. Len(y[c]) : From(c, i) = From(c, j) => i = j
  BY <1>0, <1>1 DEF Gap
<1>5. \A c \in DOMAIN dir : \A i \in 1 .. Len(dir[c]) : ~(c = d /\ i = k) =>
        c \in C /\ \E j \in 1 .. Len(y[c]) : y[c][j] = dir[c][i]
  <2>  SUFFICES ASSUME NEW c \in DOMAIN dir, NEW i \in 1 .. Len(dir[c]), ~(c = d /\ i = k)
                PROVE  c \in C /\ \E j \in 1 .. Len(y[c]) : y[c][j] = dir[c][i]
    OBVIOUS
  <2>0. c \in C
    BY <1>0
  <2>1. CASE c # d
    BY <1>1, <2>0, <2>1
  <2>2. CASE c = d /\ i < k
    <3>1. i \in 1 .. (Len(s) - 1) /\ Gap(i, k) = i
      BY <1>0, <2>2 DEF Gap
    <3>2. QED
      BY SMTT(60), <1>0, <1>1, <2>2, <3>1
  <2>3. CASE c = d /\ i > k
    <3>1. (i - 1) \in 1 .. (Len(s) - 1) /\ Gap(i - 1, k) = i
      BY <1>0, <2>3 DEF Gap
    <3>2. QED
      BY SMTT(60), <1>0, <1>1, <2>3, <3>1
  <2>4. QED
    BY <1>0, <2>0, <2>1, <2>2, <2>3
<1>  HIDE DEF From
<1>6. \A c \in C : \A i \in 1 .. Len(y[c]) : y[c][i].anode \in used \ {e.anode}
  <2>1. \A c \in C : \A i \in 1 .. Len(dir[c]) :
          dir[c][i].anode \in used /\ (dir[c][i].anode = e.anode => c = d /\ i = k)
    BY SMTT(60), <1>0 DEF DirsOK, Told
  <2>2. QED
    BY SMTT(60), <1>3, <2>1
<1>7. \A c \in C : \A i, j \in 1 .. Len(y[c]) : y[c][i].name = y[c][j].name => i = j
  BY SMTT(60), <1>3, <1>4 DEF DirsOK, Told
<1>8. \A b, c \in C : \A i \in 1 .. Len(y[b]), j \in 1 .. Len(y[c]) :
        y[b][i].anode = y[c][j].anode => b = c /\ i = j
  <2>  SUFFICES ASSUME NEW b \in C, NEW c \in C, NEW i \in 1 .. Len(y[b]),
                       NEW j \in 1 .. Len(y[c]), y[b][i].anode = y[c][j].anode
                PROVE  b = c /\ i = j
    OBVIOUS
  <2>1. From(b, i) \in 1 .. Len(dir[b]) /\ From(c, j) \in 1 .. Len(dir[c])
        /\ dir[b][From(b, i)].anode = dir[c][From(c, j)].anode
    BY <1>3
  <2>2. b = c /\ From(b, i) = From(c, j)
    BY SMTT(60), <2>1 DEF DirsOK, Told
  <2>3. QED
    BY <1>4, <2>2
<1>9. \A a \in used \ {e.anode} : \E c \in C : \E i \in 1 .. Len(y[c]) : y[c][i].anode = a
  <2>  SUFFICES ASSUME NEW a \in used \ {e.anode}
                PROVE  \E c \in C : \E i \in 1 .. Len(y[c]) : y[c][i].anode = a
    OBVIOUS
  <2>0. PICK c \in DOMAIN dir : \E i \in 1 .. Len(dir[c]) : dir[c][i].anode = a
    BY DEF DirsOK, Told
  <2>1. PICK i \in 1 .. Len(dir[c]) : dir[c][i].anode = a
    BY <2>0
  <2>2. ~(c = d /\ i = k)
    BY <1>0, <2>1
  <2>3. c \in C /\ \E j \in 1 .. Len(y[c]) : y[c][j] = dir[c][i]
    BY <1>5, <2>2
  <2>4. QED
    BY <2>1, <2>3
<1>10. Told(y, used \ {e.anode})
  BY <1>1, <1>6, <1>7, <1>8, <1>9 DEF Told
<1>11. Rooted(y)
  <2>1. \A c \in C : \A i \in 1 .. Len(y[c]) :
          /\ y[c][i].kind = "dir" <=> y[c][i].name \in Folders
          /\ y[c][i].kind = "dir" => c = RootDir /\ y[c][i].anode \in C
    <3>1. \A c \in DOMAIN dir : \A i \in 1 .. Len(dir[c]) :
            /\ dir[c][i].kind = "dir" <=> dir[c][i].name \in Folders
            /\ dir[c][i].kind = "dir" => c = RootDir /\ dir[c][i].anode \in DOMAIN dir
            /\ dir[c][i].anode = e.anode => c = d /\ i = k
      BY SMTT(60), <1>0 DEF DirsOK, Rooted, Told
    <3>2. gone \subseteq {e.anode}
      BY DEF gone, Gone
    <3>  HIDE DEF e
    <3>3. QED
      BY SMTT(60), <1>3, <3>1, <3>2
  <2>2. ASSUME NEW c \in C \ {RootDir}
        PROVE  \E i \in 1 .. Len(y[RootDir]) : y[RootDir][i].anode = c /\ y[RootDir][i].kind = "dir"
    <3>1. PICK i \in 1 .. Len(dir[RootDir]) : dir[RootDir][i].anode = c /\ dir[RootDir][i].kind = "dir"
      BY DEF DirsOK, Rooted
    <3>2. ~(RootDir = d /\ i = k)
      BY <1>0, <3>1 DEF gone, Gone
    <3>3. PICK j \in 1 .. Len(y[RootDir]) : y[RootDir][j] = dir[RootDir][i]
      BY SMTT(60), <1>0, <1>5, <3>2
    <3>4. QED
      BY <3>1, <3>3
  <2>3. QED
    BY <1>1, <2>1, <2>2 DEF Rooted
<1>12. QED
  <2>1. RemovedFrom(dir, y, at)
    BY <1>0, <1>1 DEF RemovedFrom, gone
  <2>2. used \ {e.anode} \in SUBSET Anodes
    BY DEF DirsOK
  <2>3. DirsOK(y, used \ {e.anode})
    BY <1>1, <1>10, <1>11, <2>2 DEF DirsOK
  <2>4. QED
    BY <2>1, <2>3 DEF y, z, gone
-----------------------------------------------------------------------------
(***************************************************************************)
(* Paths and where they lead.                                               *)
(***************************************************************************)
LEMMA PathIs ==
  ASSUME NEW p \in Paths
  PROVE  /\ Last(p) \in Names /\ Len(p) \in {1, 2}
         /\ Len(p) # 1 => p[1] \in Folders /\ Last(p) \notin Folders
         /\ Len(p) = 1 => p = <<Last(p)>>
<1>1. \/ p \in Seq(Names) /\ Len(p) = 1
      \/ p \in Seq(Names) /\ Len(p) = 2 /\ p[1] \in Folders /\ p[2] \notin Folders
  BY PfsNamesAssumption
<1>2. Len(p) = 1 => p = <<Last(p)>>
  <2>  SUFFICES ASSUME Len(p) = 1 PROVE p = <<Last(p)>>
    OBVIOUS
  <2>1. p \in Seq(Names) /\ Last(p) = p[1] /\ p[1] \in Names
    BY <1>1 DEF Last
  <2>2. QED
    BY <2>1
<1>3. Last(p) \in Names /\ Len(p) \in {1, 2}
  BY <1>1 DEF Last
<1>4. Len(p) # 1 => p[1] \in Folders /\ Last(p) \notin Folders
  BY <1>1 DEF Last
<1>5. QED
  BY <1>2, <1>3, <1>4

LEMMA EntryAtIs ==
  ASSUME NEW x, Blocky(x.dir), NEW at, At(x.dir, at)
  PROVE  /\ EntryAt(x, at) = EntryOf(x.dir, at) /\ EntryAt(x, at) \in DirEntry
         /\ at[2] \in DOMAIN x.dir[at[1]] /\ at[1] \in DOMAIN x.dir
  BY EntryIs DEF EntryAt, EntryOf, At

LEMMA NoEntry ==
  ASSUME NEW x, Blocky(x.dir)
  PROVE  /\ EntryAt(x, NoPlace).kind = "zero" /\ EntryAt(x, NoPlace).anode = 0
         /\ 0 \notin DOMAIN x.dir
<1>1. 0 \notin DOMAIN x.dir
  BY PfsNumbersAssumption DEF Blocky, Folder, Anodes
<1>2. QED
  BY <1>1 DEF EntryAt, NoPlace, Zeroes

LEMMA SearchIs ==
  ASSUME NEW x, Blocky(x.dir), NEW d \in DOMAIN x.dir, NEW n
  PROVE  \/ Search(x, d, n) = 0 /\ \A i \in 1 .. Len(x.dir[d]) : x.dir[d][i].name # n
         \/ Search(x, d, n) \in 1 .. Len(x.dir[d]) /\ Search(x, d, n) # 0
            /\ x.dir[d][Search(x, d, n)].name = n
<1>  DEFINE hits == {i \in DOMAIN x.dir[d] : x.dir[d][i].name = n}
<1>1. DOMAIN x.dir[d] = 1 .. Len(x.dir[d]) /\ Len(x.dir[d]) \in Nat
  BY EntryIs
<1>2. Search(x, d, n) = IF hits = {} THEN 0 ELSE Min(hits)
  BY DEF Search
<1>3. CASE hits = {}
  BY <1>1, <1>2, <1>3
<1>4. CASE hits # {}
  <2>1. hits \in SUBSET Nat
    BY <1>1
  <2>2. Min(hits) \in hits
    BY <1>4, <2>1, MinIs
  <2>3. Min(hits) \in 1 .. Len(x.dir[d]) /\ x.dir[d][Min(hits)].name = n
    BY <1>1, <2>2
  <2>4. Search(x, d, n) = Min(hits)
    BY <1>2, <1>4
  <2>  HIDE DEF hits
  <2>5. QED
    BY <1>1, <2>3, <2>4
<1>5. QED
  BY <1>3, <1>4

\* Two entries of one directory do not go by one name.
LEMMA OneNamed ==
  ASSUME NEW dir, NEW used, DirsOK(dir, used), NEW d \in DOMAIN dir,
         NEW i \in 1 .. Len(dir[d]), NEW j \in 1 .. Len(dir[d]), dir[d][i].name = dir[d][j].name
  PROVE  i = j
<1>1. Told(dir, used)
  BY DEF DirsOK
<1>2. QED
  BY <1>1 DEF Told

LEMMA FolderIs ==
  ASSUME NEW x, DirsOK(x.dir, x.used), NEW p \in Paths
  PROVE  /\ FolderOf(x, p) # 0 => FolderOf(x, p) \in DOMAIN x.dir /\ FolderAt(x.dir, p, FolderOf(x, p))
         /\ \A d : FolderAt(x.dir, p, d) => FolderOf(x, p) = d /\ d # 0 /\ d \in DOMAIN x.dir
<1>  DEFINE n == Search(x, RootDir, p[1])
            e == EntryAt(x, <<RootDir, n>>)
            dir == x.dir
<1>1. Blocky(dir) /\ RootDir \in DOMAIN dir /\ 0 \notin DOMAIN dir
  BY NoEntry DEF DirsOK, Blocky
<1>2. CASE Len(p) = 1
  BY <1>1, <1>2 DEF FolderOf, FolderAt
<1>3. CASE Len(p) # 1
  <2>1. p[1] \in Folders
    BY <1>3, PathIs
  <2>2. FolderOf(x, p) = IF e.kind = "dir" THEN e.anode ELSE 0
    BY <1>3 DEF FolderOf
  <2>3. \A d : FolderAt(dir, p, d) <=>
          \E i \in 1 .. Len(dir[RootDir]) : dir[RootDir][i].name = p[1] /\ dir[RootDir][i].anode = d
    BY <1>3 DEF FolderAt
  <2>4. CASE n = 0 /\ \A i \in 1 .. Len(dir[RootDir]) : dir[RootDir][i].name # p[1]
    <3>1. ~At(dir, <<RootDir, n>>) /\ n \notin 1 .. Len(dir[RootDir])
      BY <2>4 DEF At
    <3>2. DOMAIN dir[RootDir] = 1 .. Len(dir[RootDir])
      BY <1>1, EntryIs
    <3>3. e.kind = "zero"
      BY <3>1, <3>2 DEF EntryAt, Zeroes
    <3>4. QED
      BY <2>2, <2>3, <2>4, <3>3
  <2>5. CASE n \in 1 .. Len(dir[RootDir]) /\ dir[RootDir][n].name = p[1]
    <3>1. e = dir[RootDir][n]
      <4>1. At(dir, <<RootDir, n>>)
        BY <1>1, <2>5 DEF At
      <4>  HIDE DEF n
      <4>2. QED
        BY <1>1, <4>1, EntryAtIs DEF EntryOf
    <3>  HIDE DEF n, e
    <3>2. e.kind = "dir" /\ e.anode \in DOMAIN dir
      BY <1>1, <2>1, <2>5, <3>1 DEF DirsOK, Rooted
    <3>3. \A i \in 1 .. Len(dir[RootDir]) : dir[RootDir][i].name = p[1] => i = n
      BY ONLY DirsOK(x.dir, x.used), <1>1, <2>5, OneNamed DEF dir
    <3>4. e.anode # 0
      BY <1>1, <3>2
    <3>5. QED
      BY <2>2, <2>3, <2>5, <3>1, <3>2, <3>3, <3>4
  <2>6. QED
    BY <1>1, <2>4, <2>5, SearchIs
<1>4. QED
  BY <1>2, <1>3

LEMMA FindIs ==
  ASSUME NEW x, DirsOK(x.dir, x.used), NEW p \in Paths
  PROVE  /\ \/ Find(x, p) = NoPlace
            \/ Find(x, p) # NoPlace /\ Leads(x.dir, p, Find(x, p)) /\ Find(x, p) \in Nat \X Nat
         /\ Find(x, p) = NoPlace /\ FolderOf(x, p) # 0 =>
              \A i \in 1 .. Len(x.dir[FolderOf(x, p)]) : x.dir[FolderOf(x, p)][i].name # Last(p)
         /\ \A at \in Nat \X Nat : Leads(x.dir, p, at) => Find(x, p) = at
<1>  DEFINE d == FolderOf(x, p)
            n == Search(x, d, Last(p))
            dir == x.dir
<1>1. Blocky(dir) /\ 0 \notin DOMAIN dir /\ DOMAIN dir \subseteq Nat
  BY NoEntry, PfsNumbersAssumption DEF DirsOK, Blocky, Folder, Anodes
<1>2. Find(x, p) = IF n = 0 THEN NoPlace ELSE <<d, n>>
  BY DEF Find, PlaceIn
<1>3. /\ d # 0 => d \in DOMAIN dir /\ FolderAt(dir, p, d)
      /\ \A c : FolderAt(dir, p, c) => d = c /\ c # 0 /\ c \in DOMAIN dir
  BY FolderIs
<1>4. CASE d = 0
  <2>1. n = 0
    BY <1>1, <1>4 DEF Search
  <2>2. \A at : ~Leads(dir, p, at)
    BY <1>3, <1>4 DEF Leads
  <2>3. QED
    BY <1>2, <1>4, <2>1, <2>2
<1>5. CASE d # 0
  <2>1. \/ n = 0 /\ \A i \in 1 .. Len(dir[d]) : dir[d][i].name # Last(p)
        \/ n \in 1 .. Len(dir[d]) /\ n # 0 /\ dir[d][n].name = Last(p)
    BY <1>1, <1>3, <1>5, SearchIs
  <2>2. d \in DOMAIN dir /\ d \in Nat /\ FolderAt(dir, p, d) /\ Len(dir[d]) \in Nat
    BY <1>1, <1>3, <1>5, EntryIs
  <2>3. \A i, j \in 1 .. Len(dir[d]) : dir[d][i].name = dir[d][j].name => i = j
    BY <2>2 DEF DirsOK, Told
  <2>4. \A at : Leads(dir, p, at) => at[1] = d /\ at[2] \in 1 .. Len(dir[d]) /\ dir[d][at[2]].name = Last(p)
    BY <1>3 DEF Leads
  <2>  HIDE DEF d, n
  <2>5. CASE n = 0 /\ \A i \in 1 .. Len(dir[d]) : dir[d][i].name # Last(p)
    BY <1>2, <2>4, <2>5 DEF d
  <2>6. CASE n \in 1 .. Len(dir[d]) /\ n # 0 /\ dir[d][n].name = Last(p)
    <3>1. Find(x, p) = <<d, n>> /\ <<d, n>> # NoPlace /\ <<d, n>> \in Nat \X Nat
      BY <1>2, <2>2, <2>6 DEF NoPlace
    <3>2. Leads(dir, p, <<d, n>>)
      BY <2>2, <2>6 DEF Leads
    <3>3. ASSUME NEW at \in Nat \X Nat, Leads(dir, p, at) PROVE at = <<d, n>>
      <4>1. at[1] = d /\ at[2] = n
        BY SMTT(60), <2>3, <2>4, <2>6, <3>3
      <4>2. QED
        BY <4>1
    <3>4. QED
      BY <3>1, <3>2, <3>3
  <2>7. QED
    BY <2>1, <2>5, <2>6
<1>6. QED
  BY <1>4, <1>5
-----------------------------------------------------------------------------
(***************************************************************************)
(* Open files while directories change.                                     *)
(***************************************************************************)
\* The directory a path goes through is still in the root directory.
Keeps(dir, y, p, d) ==
  \A i \in 1 .. Len(dir[RootDir]) : Len(p) # 1 /\ dir[RootDir][i].name = p[1] /\ dir[RootDir][i].anode = d =>
    \E j \in 1 .. Len(y[RootDir]) :
      y[RootDir][j].name = dir[RootDir][i].name /\ y[RootDir][j].anode = dir[RootDir][i].anode
LEMMA LeadsStill ==
  ASSUME NEW dir, NEW y, NEW p, NEW at, NEW to, Leads(dir, p, at), At(y, to), to[1] = at[1],
         EntryOf(y, to).name = EntryOf(dir, at).name, Keeps(dir, y, p, at[1])
  PROVE  Leads(y, p, to)
<1>1. FolderAt(dir, p, at[1]) /\ EntryOf(dir, at).name = Last(p)
  BY DEF Leads, EntryOf
<1>2. FolderAt(y, p, at[1])
  <2>1. CASE Len(p) = 1
    BY <1>1, <2>1 DEF FolderAt
  <2>2. CASE Len(p) # 1
    <3>1. PICK i \in 1 .. Len(dir[RootDir]) : dir[RootDir][i].name = p[1] /\ dir[RootDir][i].anode = at[1]
      BY <1>1, <2>2 DEF FolderAt
    <3>2. \E j \in 1 .. Len(y[RootDir]) : y[RootDir][j].name = p[1] /\ y[RootDir][j].anode = at[1]
      BY SMTT(60), <2>2, <3>1 DEF Keeps
    <3>3. QED
      BY <2>2, <3>2 DEF FolderAt
  <2>3. QED
    BY <2>1, <2>2
<1>3. QED
  BY <1>1, <1>2 DEF Leads, At, EntryOf

\* What RefOK says of an open file, its path's directory included.
LEMMA RefIs ==
  ASSUME NEW dir, NEW le, NEW name, RefsOK(dir, le, name), NEW h \in Handles, le[h] # Closed
  PROVE  /\ name[h] \in Paths /\ Last(name[h]) \notin Folders /\ Leads(dir, name[h], le[h].at)
         /\ At(dir, le[h].at) /\ EntryOf(dir, le[h].at).anode = le[h].anode
         /\ le[h].offset <= EntryOf(dir, le[h].at).size
  BY DEF RefsOK, RefOK, Leads, At, EntryOf

LEMMA RefBack ==
  ASSUME NEW dir, NEW e, NEW p, p \in Paths, Last(p) \notin Folders, Leads(dir, p, e.at),
         EntryOf(dir, e.at).anode = e.anode, e.offset <= EntryOf(dir, e.at).size
  PROVE  RefOK(dir, e, p)
  BY DEF RefOK, EntryOf

\* The open files are as they were but for their positions.
SameFiles(le, le2) ==
  \A h \in Handles : le2[h] # Closed =>
    le[h] # Closed /\ le2[h].at = le[h].at /\ le2[h].anode = le[h].anode

LEMMA RefsSized ==
  ASSUME NEW dir, NEW used, DirsOK(dir, used), NEW le, NEW le2, NEW name, RefsOK(dir, le, name),
         NEW at, At(dir, at), NEW size \in Nat, SameFiles(le, le2),
         \A h \in Handles : le2[h] # Closed =>
           le2[h].offset <= IF le[h].at[1] = at[1] /\ le[h].at[2] = at[2] THEN size ELSE EntryOf(dir, le[h].at).size
  PROVE  /\ DirsOK(Put(dir, at, [EntryOf(dir, at) EXCEPT !.size = size]), used)
         /\ RefsOK(Put(dir, at, [EntryOf(dir, at) EXCEPT !.size = size]), le2, name)
<1>  DEFINE e == EntryOf(dir, at)
            f == [e EXCEPT !.size = size]
            y == Put(dir, at, f)
<1>1. Blocky(dir) /\ RootDir \in DOMAIN dir
  BY DEF DirsOK, Blocky
<1>2. e \in DirEntry /\ at[1] \in DOMAIN dir /\ at[2] \in 1 .. Len(dir[at[1]]) /\ e = dir[at[1]][at[2]]
  BY <1>1, EntryIs DEF At, EntryOf
<1>  HIDE DEF e
<1>3. f \in DirEntry /\ f.name = e.name /\ f.anode = e.anode /\ f.kind = e.kind /\ f.size = size
  BY SMTT(60), <1>2 DEF DirEntry
<1>  HIDE DEF f
<1>4. DirsOK(y, used)
  <2>1. e.kind = "dir" <=> e.name \in Folders
    BY <1>2 DEF DirsOK, Rooted
  <2>2. \A i \in 1 .. Len(dir[at[1]]) : dir[at[1]][i].name = f.name => i = at[2]
    BY SMTT(60), <1>2, <1>3 DEF DirsOK, Told
  <2>3. QED
    BY <1>3, <2>1, <2>2, PutOK DEF e
<1>5. /\ DOMAIN y = DOMAIN dir
      /\ \A d \in DOMAIN dir : Len(y[d]) = Len(dir[d])
      /\ \A d \in DOMAIN dir : \A i \in 1 .. Len(dir[d]) :
           y[d][i] = IF d = at[1] /\ i = at[2] THEN f ELSE dir[d][i]
  BY <1>1, <1>3, PutIs
<1>  HIDE DEF y
<1>6. \A d \in DOMAIN dir : \A i \in 1 .. Len(dir[d]) :
        y[d][i].name = dir[d][i].name /\ y[d][i].anode = dir[d][i].anode
  BY SMTT(60), <1>2, <1>3, <1>5
<1>7. ASSUME NEW h \in Handles, le2[h] # Closed PROVE RefOK(y, le2[h], name[h])
  <2>1. le[h] # Closed /\ le2[h].at = le[h].at /\ le2[h].anode = le[h].anode
    BY <1>7 DEF SameFiles
  <2>2. /\ name[h] \in Paths /\ Last(name[h]) \notin Folders /\ Leads(dir, name[h], le[h].at)
        /\ At(dir, le[h].at) /\ EntryOf(dir, le[h].at).anode = le[h].anode
    BY SMTT(60), <2>1, RefIs
  <2>3. At(y, le[h].at) /\ EntryOf(y, le[h].at).name = EntryOf(dir, le[h].at).name
        /\ EntryOf(y, le[h].at).anode = EntryOf(dir, le[h].at).anode
    BY SMTT(60), <1>5, <1>6, <2>2 DEF At, EntryOf
  <2>4. Keeps(dir, y, name[h], le[h].at[1])
    BY <1>1, <1>5, <1>6 DEF Keeps
  <2>5. Leads(y, name[h], le[h].at)
    BY <2>2, <2>3, <2>4, LeadsStill
  <2>6. le2[h].offset <= EntryOf(y, le[h].at).size
    <3>1. EntryOf(y, le[h].at) = IF le[h].at[1] = at[1] /\ le[h].at[2] = at[2] THEN f ELSE EntryOf(dir, le[h].at)
      BY <1>5, <2>2 DEF At, EntryOf
    <3>2. QED
      BY <1>3, <1>7, <3>1
  <2>7. QED
    BY <2>1, <2>2, <2>3, <2>5, <2>6, RefBack
<1>8. QED
  BY <1>4, <1>7 DEF RefsOK, y, f, e

\* A new name for an entry nobody has open, and nobody's path goes through.
LEMMA RefsRenamed ==
  ASSUME NEW dir, NEW used, DirsOK(dir, used), NEW le, NEW name, RefsOK(dir, le, name),
         NEW at, At(dir, at), NEW n \in Names, EntryOf(dir, at).kind = "dir" <=> n \in Folders,
         \A i \in 1 .. Len(dir[at[1]]) : dir[at[1]][i].name = n => i = at[2],
         \A h \in Handles : le[h] # Closed =>
           /\ le[h].anode # EntryOf(dir, at).anode
           /\ Len(name[h]) # 1 => le[h].at[1] # EntryOf(dir, at).anode
  PROVE  /\ DirsOK(Put(dir, at, [EntryOf(dir, at) EXCEPT !.name = n]), used)
         /\ RefsOK(Put(dir, at, [EntryOf(dir, at) EXCEPT !.name = n]), le, name)
<1>  DEFINE e == EntryOf(dir, at)
            f == [e EXCEPT !.name = n]
            y == Put(dir, at, f)
<1>1. Blocky(dir) /\ RootDir \in DOMAIN dir
  BY DEF DirsOK, Blocky
<1>2. e \in DirEntry /\ at[1] \in DOMAIN dir /\ at[2] \in 1 .. Len(dir[at[1]]) /\ e = dir[at[1]][at[2]]
  BY <1>1, EntryIs DEF At, EntryOf
<1>2a. \A h \in Handles : le[h] # Closed =>
         le[h].anode # e.anode /\ (Len(name[h]) # 1 => le[h].at[1] # e.anode)
  OBVIOUS
<1>2b. e.kind = "dir" <=> n \in Folders
  OBVIOUS
<1>  HIDE DEF e
<1>3. f \in DirEntry /\ f.name = n /\ f.anode = e.anode /\ f.kind = e.kind
  BY SMTT(60), <1>2 DEF DirEntry
<1>  HIDE DEF f
<1>4. DirsOK(y, used)
  BY <1>2b, <1>3, PutOK DEF e
<1>5. /\ DOMAIN y = DOMAIN dir
      /\ \A d \in DOMAIN dir : Len(y[d]) = Len(dir[d])
      /\ \A d \in DOMAIN dir : \A i \in 1 .. Len(dir[d]) :
           y[d][i] = IF d = at[1] /\ i = at[2] THEN f ELSE dir[d][i]
  BY <1>1, <1>3, PutIs
<1>  HIDE DEF y
<1>6. \A d \in DOMAIN dir : \A i \in 1 .. Len(dir[d]) : dir[d][i].anode # e.anode => y[d][i] = dir[d][i]
  BY <1>2, <1>5
<1>7. ASSUME NEW h \in Handles, le[h] # Closed PROVE RefOK(y, le[h], name[h])
  <2>2. /\ name[h] \in Paths /\ Last(name[h]) \notin Folders /\ Leads(dir, name[h], le[h].at)
        /\ At(dir, le[h].at) /\ EntryOf(dir, le[h].at).anode = le[h].anode
        /\ le[h].offset <= EntryOf(dir, le[h].at).size
    BY SMTT(60), <1>7, RefIs
  <2>3. At(y, le[h].at) /\ EntryOf(y, le[h].at) = EntryOf(dir, le[h].at)
    BY ZenonT(60), <1>2a, <1>5, <1>6, <1>7, <2>2 DEF At, EntryOf
  <2>4. Keeps(dir, y, name[h], le[h].at[1])
    BY SMTT(60), <1>1, <1>2a, <1>5, <1>6, <1>7 DEF Keeps
  <2>5. Leads(y, name[h], le[h].at)
    BY <2>2, <2>3, <2>4, LeadsStill
  <2>7. QED
    BY <2>2, <2>3, <2>5, RefBack
<1>8. QED
  BY <1>4, <1>7 DEF RefsOK, y, f, e

LEMMA RefsAdded ==
  ASSUME NEW dir, NEW used, DirsOK(dir, used), NEW le, NEW name, RefsOK(dir, le, name),
         NEW d \in DOMAIN dir, NEW e, NEW y, AddedTo(dir, y, d, e)
  PROVE  /\ RefsOK(y, le, name)
         /\ \A at : At(dir, at) => At(y, at) /\ EntryOf(y, at) = EntryOf(dir, at)
         /\ \A p : \A c : FolderAt(dir, p, c) => FolderAt(y, p, c)
<1>1. Blocky(dir) /\ RootDir \in DOMAIN dir
  BY DEF DirsOK, Blocky
<1>2. \A c \in DOMAIN dir : c \in DOMAIN y /\ \A i \in 1 .. Len(dir[c]) : i \in 1 .. Len(y[c]) /\ y[c][i] = dir[c][i]
  <2>1. \A c \in DOMAIN dir : Len(dir[c]) \in Nat
    BY <1>1, EntryIs
  <2>2. \A c \in DOMAIN dir : Len(y[c]) = Len(dir[c]) \/ Len(y[c]) = Len(dir[c]) + 1
    BY DEF AddedTo
  <2>3. QED
    BY <2>1, <2>2 DEF AddedTo
<1>3. \A at : At(dir, at) => At(y, at) /\ EntryOf(y, at) = EntryOf(dir, at)
  BY <1>2 DEF At, EntryOf
<1>4. \A p : \A c : Keeps(dir, y, p, c)
  BY <1>1, <1>2 DEF Keeps
<1>5. ASSUME NEW h \in Handles, le[h] # Closed PROVE RefOK(y, le[h], name[h])
  <2>2. /\ name[h] \in Paths /\ Last(name[h]) \notin Folders /\ Leads(dir, name[h], le[h].at)
        /\ At(dir, le[h].at) /\ EntryOf(dir, le[h].at).anode = le[h].anode
        /\ le[h].offset <= EntryOf(dir, le[h].at).size
    BY <1>5, RefIs
  <2>3. At(y, le[h].at) /\ EntryOf(y, le[h].at) = EntryOf(dir, le[h].at)
    BY <1>3, <2>2
  <2>4. Leads(y, name[h], le[h].at)
    BY <1>4, <2>2, <2>3, LeadsStill
  <2>5. QED
    BY <2>2, <2>3, <2>4, RefBack
<1>6. \A p : \A c : FolderAt(dir, p, c) => FolderAt(y, p, c)
  BY <1>1, <1>2 DEF FolderAt
<1>7. QED
  BY <1>3, <1>5, <1>6 DEF RefsOK

\* Where the entry at to is when the one at at has gone.
Moved(to, at) == IF to[1] = at[1] /\ to[2] > at[2] THEN <<to[1], to[2] - 1>> ELSE to
AllMoved(le, at) ==
  [h \in Handles |-> IF le[h] # Closed THEN [le[h] EXCEPT !.at = Moved(@, at)] ELSE Closed]
SameSpot(to, at) == to[1] = at[1] /\ to[2] = at[2]

LEMMA MovedIs ==
  ASSUME NEW dir, Blocky(dir), NEW at, At(dir, at), NEW y, RemovedFrom(dir, y, at),
         NEW to, At(dir, to), ~SameSpot(to, at), to[1] \notin Gone(EntryOf(dir, at)),
         at[1] \notin Gone(EntryOf(dir, at))
  PROVE  At(y, Moved(to, at)) /\ EntryOf(y, Moved(to, at)) = EntryOf(dir, to) /\ Moved(to, at)[1] = to[1]
<1>  DEFINE k == at[2]
            n == Len(dir[at[1]])
<1>1. /\ DOMAIN y = DOMAIN dir \ Gone(EntryOf(dir, at))
      /\ Len(y[at[1]]) = n - 1
      /\ \A d \in DOMAIN y \ {at[1]} : y[d] = dir[d]
      /\ \A i \in 1 .. (n - 1) : y[at[1]][i] = dir[at[1]][Gap(i, k)]
  BY DEF RemovedFrom, At
<1>2. n \in Nat /\ k \in 1 .. n /\ to[1] \in DOMAIN y /\ to[2] \in 1 .. Len(dir[to[1]])
  BY <1>1, EntryIs DEF At
<1>3. CASE to[1] # at[1]
  <2>1. Moved(to, at) = to
    BY <1>3 DEF Moved
  <2>2. y[to[1]] = dir[to[1]]
    BY <1>1, <1>2, <1>3
  <2>3. QED
    BY <1>2, <2>1, <2>2 DEF At, EntryOf
<1>4. CASE to[1] = at[1] /\ to[2] > k
  <2>1. Moved(to, at) = <<to[1], to[2] - 1>>
    BY <1>4 DEF Moved
  <2>2. to[2] - 1 \in 1 .. (n - 1) /\ Gap(to[2] - 1, k) = to[2]
    BY SMTT(60), <1>2, <1>4 DEF Gap
  <2>3. QED
    BY SMTT(60), <1>1, <1>2, <1>4, <2>1, <2>2 DEF At, EntryOf
<1>5. CASE to[1] = at[1] /\ ~(to[2] > k)
  <2>1. Moved(to, at) = to
    BY <1>5 DEF Moved
  <2>2. to[2] \in 1 .. (n - 1) /\ Gap(to[2], k) = to[2]
    BY <1>2, <1>5 DEF Gap, SameSpot
  <2>3. QED
    BY ZenonT(60), <1>1, <1>2, <1>5, <2>1, <2>2 DEF At, EntryOf
<1>6. QED
  BY <1>3, <1>4, <1>5

LEMMA RefsRemoved ==
  ASSUME NEW dir, NEW used, DirsOK(dir, used), NEW name,
         NEW le \in [Handles -> {Closed} \cup OpenFileEntry], RefsOK(dir, le, name),
         NEW at, At(dir, at), NEW y, RemovedFrom(dir, y, at),
         \A d \in Gone(EntryOf(dir, at)) : dir[d] = <<>>,
         \A h \in Handles : le[h] # Closed => le[h].anode # EntryOf(dir, at).anode
  PROVE  /\ RefsOK(y, AllMoved(le, at), name)
         /\ AllMoved(le, at) \in [Handles -> {Closed} \cup OpenFileEntry]
         /\ \A h \in Handles : /\ AllMoved(le, at)[h] # Closed <=> le[h] # Closed
                               /\ le[h] # Closed => AllMoved(le, at)[h].anode = le[h].anode
<1>  DEFINE e == EntryOf(dir, at)
            le2 == AllMoved(le, at)
<1>1. Blocky(dir) /\ RootDir \in DOMAIN dir
  BY DEF DirsOK, Blocky
<1>2. e \in DirEntry /\ at[1] \in DOMAIN dir /\ at[2] \in 1 .. Len(dir[at[1]]) /\ e = dir[at[1]][at[2]]
  BY <1>1, EntryIs DEF At, EntryOf
<1>3. \A c \in Gone(e) : Len(dir[c]) = 0 /\ 1 .. 0 = {}
  OBVIOUS
<1>3a. RootDir \notin Gone(e)
  BY <1>2, PfsNumbersAssumption DEF Gone, DirEntry, Anodes
<1>3b. \A h \in Handles : le[h] # Closed => le[h].anode # e.anode
  OBVIOUS
<1>  HIDE DEF e
<1>4. at[1] \notin Gone(e)
  BY <1>2, <1>3
<1>5. Closed \notin OpenFileEntry
  <2>1. Closed.open = FALSE
    BY DEF Closed
  <2>2. \A f \in OpenFileEntry : f.open = TRUE
    BY DEF OpenFileEntry
  <2>3. QED
    BY <2>1, <2>2
<1>6. ASSUME NEW h \in Handles, le[h] # Closed
      PROVE  le2[h] \in OpenFileEntry /\ le2[h].at = Moved(le[h].at, at)
             /\ le2[h].anode = le[h].anode /\ le2[h].offset = le[h].offset
  <2>1. le[h] \in OpenFileEntry
    BY <1>6
  <2>2. le2[h] = [le[h] EXCEPT !.at = Moved(@, at)]
    BY <1>6 DEF AllMoved
  <2>3. Moved(le[h].at, at) \in Nat \X Nat
    <3>1. le[h].at \in Nat \X Nat
      BY <2>1 DEF OpenFileEntry
    <3>2. At(dir, le[h].at)
      BY <1>6, RefIs
    <3>3. at[2] \in Nat /\ at[2] >= 1
      BY <1>1, <1>2, EntryIs
    <3>4. QED
      BY <3>1, <3>3 DEF Moved
  <2>4. QED
    BY ZenonT(60), <2>1, <2>2, <2>3 DEF OpenFileEntry
<1>7. \A h \in Handles : le[h] = Closed => le2[h] = Closed
  BY DEF AllMoved
<1>7a. le2 = [h \in Handles |-> le2[h]]
  BY DEF AllMoved
<1>  HIDE DEF le2
<1>8. le2 \in [Handles -> {Closed} \cup OpenFileEntry]
  BY <1>6, <1>7, <1>7a
<1>9. \A h \in Handles : /\ le2[h] # Closed <=> le[h] # Closed
                         /\ le[h] # Closed => le2[h].anode = le[h].anode
  BY <1>5, <1>6, <1>7
<1>10. ASSUME NEW h \in Handles, le2[h] # Closed PROVE RefOK(y, le2[h], name[h])
  <2>1. le[h] # Closed
    BY <1>9, <1>10
  <2>2. /\ name[h] \in Paths /\ Last(name[h]) \notin Folders /\ Leads(dir, name[h], le[h].at)
        /\ At(dir, le[h].at) /\ EntryOf(dir, le[h].at).anode = le[h].anode
        /\ le[h].offset <= EntryOf(dir, le[h].at).size
    BY SMTT(60), <2>1, RefIs
  <2>3. ~SameSpot(le[h].at, at)
    BY <1>2, <1>3b, <2>1, <2>2 DEF SameSpot, EntryOf
  <2>4. le[h].at[1] \notin Gone(e)
    BY <1>3, <2>2 DEF At
  <2>5. /\ At(y, Moved(le[h].at, at)) /\ EntryOf(y, Moved(le[h].at, at)) = EntryOf(dir, le[h].at)
        /\ Moved(le[h].at, at)[1] = le[h].at[1]
    BY <1>1, <1>4, <2>2, <2>3, <2>4, MovedIs DEF e
  <2>6. Keeps(dir, y, name[h], le[h].at[1])
    <3>  SUFFICES ASSUME NEW i \in 1 .. Len(dir[RootDir]), Len(name[h]) # 1,
                         dir[RootDir][i].name = name[h][1], dir[RootDir][i].anode = le[h].at[1]
                  PROVE  \E j \in 1 .. Len(y[RootDir]) : y[RootDir][j] = dir[RootDir][i]
      BY DEF Keeps
    <3>1. name[h][1] \in Folders
      BY <2>2, PathIs
    <3>2. dir[RootDir][i].kind = "dir"
      BY <1>1, <3>1 DEF DirsOK, Rooted
    <3>3. ~SameSpot(<<RootDir, i>>, at)
      BY <1>2, <2>4, <3>2 DEF SameSpot, Gone
    <3>4. At(dir, <<RootDir, i>>) /\ EntryOf(dir, <<RootDir, i>>) = dir[RootDir][i]
      BY <1>1 DEF At, EntryOf
    <3>5. /\ At(y, Moved(<<RootDir, i>>, at)) /\ EntryOf(y, Moved(<<RootDir, i>>, at)) = dir[RootDir][i]
          /\ Moved(<<RootDir, i>>, at)[1] = RootDir
      <4>1. <<RootDir, i>>[1] = RootDir
        OBVIOUS
      <4>  DEFINE to == <<RootDir, i>>
      <4>2. At(dir, to) /\ ~SameSpot(to, at) /\ to[1] \notin Gone(e) /\ to[1] = RootDir
        BY <1>3a, <3>3, <3>4, <4>1
      <4>3. EntryOf(dir, to) = dir[RootDir][i]
        BY <3>4
      <4>  HIDE DEF to
      <4>4. At(y, Moved(to, at)) /\ EntryOf(y, Moved(to, at)) = EntryOf(dir, to) /\ Moved(to, at)[1] = to[1]
        BY <1>1, <1>4, <4>2, MovedIs DEF e
      <4>5. QED
        BY <4>2, <4>3, <4>4 DEF to
    <3>6. QED
      BY <3>5 DEF At, EntryOf
  <2>7. Leads(y, name[h], Moved(le[h].at, at))
    BY <2>2, <2>5, <2>6, LeadsStill
  <2>8. QED
    BY <1>6, <2>1, <2>2, <2>5, <2>7, RefBack
<1>11. QED
  BY <1>8, <1>9, <1>10 DEF RefsOK, le2
-----------------------------------------------------------------------------
(***************************************************************************)
(* Calls on an open file.                                                   *)
(***************************************************************************)
LEMMA SoundFrom ==
  ASSUME NEW D, NEW U, NEW L, NEW K, NEW A, NEW name,
         L \in [Handles -> {Closed} \cup OpenFileEntry], K \in SUBSET Anodes, A \in Nat,
         DirsOK(D, U), RefsOK(D, L, name),
         NEW y, y = [dir |-> D, used |-> U, le |-> L, locks |-> K, avail |-> A]
  PROVE  /\ Sound(y, name) /\ y.dir = D /\ y.used = U /\ y.le = L /\ y.locks = K /\ y.avail = A
<1>1. y.dir = D /\ y.used = U /\ y.le = L /\ y.locks = K /\ y.avail = A
  OBVIOUS
<1>2. Volume(y)
  BY <1>1 DEF Volume
<1>3. QED
  BY <1>1, <1>2 DEF Sound

LEMMA OpenIs ==
  ASSUME NEW x, NEW name, Sound(x, name), NEW h \in Handles, Opened(x, h)
  PROVE  /\ x.le[h] \in OpenFileEntry /\ x.le[h].offset \in Nat /\ x.le[h].at \in Nat \X Nat
         /\ At(x.dir, x.le[h].at) /\ EntryAt(x, x.le[h].at) = EntryOf(x.dir, x.le[h].at)
         /\ EntryOf(x.dir, x.le[h].at).anode = x.le[h].anode
         /\ SizeOf(x, h) = EntryOf(x.dir, x.le[h].at).size /\ SizeOf(x, h) \in Nat
         /\ x.le[h].offset <= SizeOf(x, h)
         /\ Find(x, name[h]) = x.le[h].at /\ name[h] \in Paths /\ Last(name[h]) \notin Folders
<1>1. Volume(x) /\ DirsOK(x.dir, x.used) /\ RefsOK(x.dir, x.le, name) /\ x.le[h] # Closed /\ Blocky(x.dir)
  BY DEF Sound, Opened, DirsOK
<1>2. x.le[h] \in OpenFileEntry /\ x.le[h].offset \in Nat /\ x.le[h].at \in Nat \X Nat
  BY <1>1 DEF Volume, OpenFileEntry
<1>3. /\ name[h] \in Paths /\ Last(name[h]) \notin Folders /\ Leads(x.dir, name[h], x.le[h].at)
      /\ At(x.dir, x.le[h].at) /\ EntryOf(x.dir, x.le[h].at).anode = x.le[h].anode
      /\ x.le[h].offset <= EntryOf(x.dir, x.le[h].at).size
  BY <1>1, RefIs
<1>4. /\ EntryAt(x, x.le[h].at) = EntryOf(x.dir, x.le[h].at)
      /\ EntryOf(x.dir, x.le[h].at).size \in Nat
  BY <1>1, <1>3, EntryAtIs DEF DirEntry
<1>5. Find(x, name[h]) = x.le[h].at
  BY <1>1, <1>2, <1>3, FindIs
<1>6. QED
  BY <1>2, <1>3, <1>4, <1>5 DEF SizeOf

\* A file entry's position is changed, or those of some.
LEMMA PositionsOK ==
  ASSUME NEW x, NEW name, Sound(x, name), NEW le2 \in [Handles -> {Closed} \cup OpenFileEntry],
         SameFiles(x.le, le2), \A h \in Handles : le2[h] # Closed => le2[h].offset <= SizeOf(x, h)
  PROVE  Sound([x EXCEPT !.le = le2], name)
<1>1. Volume(x) /\ DirsOK(x.dir, x.used) /\ RefsOK(x.dir, x.le, name)
  BY DEF Sound
<1>2. ASSUME NEW h \in Handles, le2[h] # Closed PROVE RefOK(x.dir, le2[h], name[h])
  <2>1. x.le[h] # Closed /\ le2[h].at = x.le[h].at /\ le2[h].anode = x.le[h].anode
    BY <1>2 DEF SameFiles
  <2>2. SizeOf(x, h) = EntryOf(x.dir, x.le[h].at).size
    BY <2>1, OpenIs DEF Opened
  <2>3. /\ name[h] \in Paths /\ Last(name[h]) \notin Folders /\ Leads(x.dir, name[h], x.le[h].at)
        /\ EntryOf(x.dir, x.le[h].at).anode = x.le[h].anode
    BY <1>1, <2>1, RefIs
  <2>4. le2[h].offset <= SizeOf(x, h)
    BY <1>2
  <2>5. QED
    BY <2>1, <2>2, <2>3, <2>4, RefBack
<1>3. [x EXCEPT !.le = le2] = [dir |-> x.dir, used |-> x.used, le |-> le2, locks |-> x.locks, avail |-> x.avail]
  BY <1>1 DEF Volume
<1>4. RefsOK(x.dir, le2, name)
  BY <1>2 DEF RefsOK
<1>5. QED
  BY <1>1, <1>3, <1>4, SoundFrom DEF Volume

\* One position.
LEMMA PositionIs ==
  ASSUME NEW le \in [Handles -> {Closed} \cup OpenFileEntry], NEW h \in Handles, le[h] # Closed, NEW ofs \in Nat
  PROVE  /\ [le EXCEPT ![h].offset = ofs] \in [Handles -> {Closed} \cup OpenFileEntry]
         /\ [le EXCEPT ![h].offset = ofs][h] = [le[h] EXCEPT !.offset = ofs]
         /\ [le EXCEPT ![h].offset = ofs][h].offset = ofs
         /\ [le EXCEPT ![h].offset = ofs][h].at = le[h].at
         /\ [le EXCEPT ![h].offset = ofs][h].anode = le[h].anode
         /\ [le EXCEPT ![h].offset = ofs][h].exclusive = le[h].exclusive
         /\ [le EXCEPT ![h].offset = ofs][h] # Closed
         /\ \A k \in Handles \ {h} : [le EXCEPT ![h].offset = ofs][k] = le[k]
<1>1. le[h] \in OpenFileEntry
  OBVIOUS
<1>  DEFINE e == [le[h] EXCEPT !.offset = ofs]
            le2 == [le EXCEPT ![h] = e]
<1>2. e \in OpenFileEntry /\ e.offset = ofs /\ e.at = le[h].at /\ e.anode = le[h].anode /\ e.exclusive = le[h].exclusive
  BY <1>1 DEF OpenFileEntry
<1>3. e # Closed
  BY <1>2 DEF OpenFileEntry, Closed
<1>4. [le EXCEPT ![h].offset = ofs] = le2
  OBVIOUS
<1>5. e = [le[h] EXCEPT !.offset = ofs]
  OBVIOUS
<1>  HIDE DEF e
<1>6. le2 \in [Handles -> {Closed} \cup OpenFileEntry] /\ le2[h] = e /\ \A k \in Handles \ {h} : le2[k] = le[k]
  BY <1>2
<1>  HIDE DEF le2
<1>7. QED
  BY <1>2, <1>3, <1>4, <1>5, <1>6

LEMMA PositionOK ==
  ASSUME NEW x, NEW name, Sound(x, name), NEW h \in Handles, Opened(x, h),
         NEW ofs \in Nat, ofs <= SizeOf(x, h)
  PROVE  /\ Sound([x EXCEPT !.le[h].offset = ofs], name)
         /\ [x EXCEPT !.le[h].offset = ofs].le = [x.le EXCEPT ![h].offset = ofs]
         /\ Opened([x EXCEPT !.le[h].offset = ofs], h)
         /\ SizeOf([x EXCEPT !.le[h].offset = ofs], h) = SizeOf(x, h)
         /\ [x EXCEPT !.le[h].offset = ofs].dir = x.dir /\ [x EXCEPT !.le[h].offset = ofs].used = x.used
<1>  DEFINE le2 == [x.le EXCEPT ![h].offset = ofs]
            y == [x EXCEPT !.le = le2]
<1>1. x.le \in [Handles -> {Closed} \cup OpenFileEntry] /\ x.le[h] # Closed
      /\ x = [dir |-> x.dir, used |-> x.used, le |-> x.le, locks |-> x.locks, avail |-> x.avail]
  BY DEF Sound, Volume, Opened
<1>2. /\ le2 \in [Handles -> {Closed} \cup OpenFileEntry] /\ le2[h] # Closed /\ le2[h].offset = ofs
      /\ le2[h].at = x.le[h].at /\ le2[h].anode = x.le[h].anode /\ \A k \in Handles \ {h} : le2[k] = x.le[k]
  BY <1>1, PositionIs
<1>3. [x EXCEPT !.le[h].offset = ofs] = y
  BY <1>1
<1>  HIDE DEF le2
<1>4. SameFiles(x.le, le2)
  BY <1>1, <1>2 DEF SameFiles
<1>5. \A k \in Handles : le2[k] # Closed => le2[k].offset <= SizeOf(x, k)
  <2>1. \A k \in Handles : x.le[k] # Closed => x.le[k].offset <= SizeOf(x, k)
    BY OpenIs DEF Opened
  <2>2. QED
    BY <1>2, <2>1
<1>6. Sound(y, name)
  BY <1>2, <1>4, <1>5, PositionsOK
<1>7. y.dir = x.dir /\ y.le = le2 /\ y.used = x.used
  BY SMTT(60), <1>1
<1>  HIDE DEF y
<1>8. Opened(y, h) /\ SizeOf(y, h) = SizeOf(x, h)
  BY <1>2, <1>7 DEF Opened, SizeOf, EntryAt
<1>9. QED
  BY <1>3, <1>6, <1>7, <1>8 DEF le2

\* SeekInFile, SeekUnlessThere
LEMMA SeekOK ==
  ASSUME NEW x, NEW name, Sound(x, name), NEW h \in Handles, Opened(x, h), NEW ofs \in Nat
  PROVE  /\ Sound(Seekfile(x, h, ofs).g, name) /\ Opened(Seekfile(x, h, ofs).g, h)
         /\ Sound(SeekUnlessThere(x, h, ofs).g, name) /\ Opened(SeekUnlessThere(x, h, ofs).g, h)
<1>1. Sound(Seekfile(x, h, ofs).g, name) /\ Opened(Seekfile(x, h, ofs).g, h)
  <2>1. CASE ofs > SizeOf(x, h)
    <3>1. Seekfile(x, h, ofs).g = x
      BY <2>1 DEF Seekfile, Fail, Result
    <3>2. QED
      BY <3>1
  <2>2. CASE ~(ofs > SizeOf(x, h))
    <3>1. Seekfile(x, h, ofs).g = [x EXCEPT !.le[h].offset = ofs]
      BY <2>2 DEF Seekfile, Result
    <3>2. ofs <= SizeOf(x, h)
      BY <2>2, OpenIs
    <3>3. QED
      BY <3>1, <3>2, PositionOK
  <2>3. QED
    BY <2>1, <2>2
<1>2. CASE x.le[h].offset = ofs
  <2>1. SeekUnlessThere(x, h, ofs).g = x
    BY <1>2 DEF SeekUnlessThere, Result
  <2>2. QED
    BY <1>1, <2>1
<1>3. CASE x.le[h].offset # ofs
  BY <1>1, <1>3 DEF SeekUnlessThere
<1>4. QED
  BY <1>2, <1>3

\* ReadFromFile
LEMMA ReadOK ==
  ASSUME NEW x, NEW name, Sound(x, name), NEW h \in Handles, Opened(x, h), NEW n \in Nat
  PROVE  Sound(Readfile(x, h, n).g, name)
<1>  DEFINE to == Min({x.le[h].offset + n, SizeOf(x, h)})
<1>1. x.le[h].offset \in Nat /\ SizeOf(x, h) \in Nat
  BY OpenIs
<1>2. to \in Nat /\ to <= SizeOf(x, h)
  BY <1>1, MinOfTwo
<1>3. Readfile(x, h, n).g = [x EXCEPT !.le[h].offset = to]
  <2>1. x = [dir |-> x.dir, used |-> x.used, le |-> x.le, locks |-> x.locks, avail |-> x.avail]
        /\ x.le \in [Handles -> {Closed} \cup OpenFileEntry] /\ x.le[h] \in OpenFileEntry
    BY SMTT(60), OpenIs DEF Sound, Volume
  <2>2. QED
    BY <2>1 DEF Readfile, Result, OpenFileEntry
<1>  HIDE DEF to
<1>4. QED
  BY <1>2, <1>3, PositionOK

\* SetSize, and what else changes with it.
LEMMA SetSizeIs ==
  ASSUME NEW x, NEW name, Sound(x, name), NEW at, At(x.dir, at), EntryOf(x.dir, at).kind = "file",
         NEW size \in Nat, NEW a
  PROVE  SetSize([x EXCEPT !.avail = a], at, size) =
           [dir |-> Put(x.dir, at, [EntryOf(x.dir, at) EXCEPT !.size = size]),
            used |-> x.used, le |-> x.le, locks |-> x.locks, avail |-> a]
<1>1. x = [dir |-> x.dir, used |-> x.used, le |-> x.le, locks |-> x.locks, avail |-> x.avail] /\ Blocky(x.dir)
  BY DEF Sound, Volume, DirsOK
<1>  DEFINE y == [x EXCEPT !.avail = a]
<1>2. y = [dir |-> x.dir, used |-> x.used, le |-> x.le, locks |-> x.locks, avail |-> a] /\ y.dir = x.dir
  BY <1>1
<1>  HIDE DEF y
<1>3. EntryAt(y, at) = EntryOf(x.dir, at)
  BY <1>1, <1>2, EntryAtIs
<1>4. SetSize(y, at, size) = [y EXCEPT !.dir[at[1]][at[2]].size = size]
  BY <1>3 DEF SetSize, IsFileAt
<1>5. [y EXCEPT !.dir[at[1]][at[2]].size = size] =
        [dir |-> [x.dir EXCEPT ![at[1]][at[2]].size = size],
         used |-> x.used, le |-> x.le, locks |-> x.locks, avail |-> a]
  BY <1>2
<1>6. [x.dir EXCEPT ![at[1]][at[2]].size = size] = Put(x.dir, at, [EntryOf(x.dir, at) EXCEPT !.size = size])
  BY <1>1 DEF Put, EntryOf, At, Blocky
<1>7. QED
  BY <1>4, <1>5, <1>6 DEF y

\* The size of an open file changes, and positions with it.
LEMMA SizedOK ==
  ASSUME NEW x, NEW name, Sound(x, name), NEW at, At(x.dir, at), NEW size \in Nat, NEW a \in Nat,
         NEW le2 \in [Handles -> {Closed} \cup OpenFileEntry], SameFiles(x.le, le2),
         \A h \in Handles : le2[h] # Closed =>
           le2[h].offset <= IF SameSpot(x.le[h].at, at) THEN size ELSE SizeOf(x, h),
         NEW y, y = [dir |-> Put(x.dir, at, [EntryOf(x.dir, at) EXCEPT !.size = size]),
                     used |-> x.used, le |-> le2, locks |-> x.locks, avail |-> a]
  PROVE  Sound(y, name)
<1>1. Volume(x) /\ DirsOK(x.dir, x.used) /\ RefsOK(x.dir, x.le, name)
  BY DEF Sound
<1>2. \A h \in Handles : le2[h] # Closed =>
        le2[h].offset <= IF x.le[h].at[1] = at[1] /\ x.le[h].at[2] = at[2] THEN size ELSE EntryOf(x.dir, x.le[h].at).size
  <2>  SUFFICES ASSUME NEW h \in Handles, le2[h] # Closed
                PROVE  le2[h].offset <= IF x.le[h].at[1] = at[1] /\ x.le[h].at[2] = at[2] THEN size
                                        ELSE EntryOf(x.dir, x.le[h].at).size
    OBVIOUS
  <2>1. x.le[h] # Closed
    BY DEF SameFiles
  <2>2. SizeOf(x, h) = EntryOf(x.dir, x.le[h].at).size
    BY <2>1, OpenIs DEF Opened
  <2>3. le2[h].offset <= IF SameSpot(x.le[h].at, at) THEN size ELSE SizeOf(x, h)
    OBVIOUS
  <2>4. QED
    BY <2>2, <2>3 DEF SameSpot
<1>  DEFINE D == Put(x.dir, at, [EntryOf(x.dir, at) EXCEPT !.size = size])
<1>3. DirsOK(D, x.used) /\ RefsOK(D, le2, name)
  BY <1>1, <1>2, RefsSized
<1>  HIDE DEF D
<1>4. y = [dir |-> D, used |-> x.used, le |-> le2, locks |-> x.locks, avail |-> a]
  BY DEF D
<1>5. x.locks \in SUBSET Anodes
  BY <1>1 DEF Volume
<1>6. QED
  BY <1>3, <1>4, <1>5, SoundFrom

\* A file is in one place, and so are those who have it open.
LEMMA OneSpot ==
  ASSUME NEW x, NEW name, Sound(x, name), NEW at, At(x.dir, at), NEW h \in Handles, Opened(x, h)
  PROVE  SameSpot(x.le[h].at, at) <=> x.le[h].anode = EntryOf(x.dir, at).anode
<1>1. At(x.dir, x.le[h].at) /\ EntryOf(x.dir, x.le[h].at).anode = x.le[h].anode
  BY OpenIs
<1>2. \A d, e \in DOMAIN x.dir : \A i \in 1 .. Len(x.dir[d]), j \in 1 .. Len(x.dir[e]) :
        x.dir[d][i].anode = x.dir[e][j].anode => d = e /\ i = j
  BY DEF Sound, DirsOK, Told
<1>  DEFINE to == x.le[h].at
<1>3. /\ to[1] \in DOMAIN x.dir /\ to[2] \in 1 .. Len(x.dir[to[1]])
      /\ at[1] \in DOMAIN x.dir /\ at[2] \in 1 .. Len(x.dir[at[1]])
  BY <1>1 DEF At
<1>4. x.dir[to[1]][to[2]].anode = x.le[h].anode /\ EntryOf(x.dir, at) = x.dir[at[1]][at[2]]
  BY <1>1 DEF EntryOf
<1>  HIDE DEF to
<1>5. x.le[h].anode = EntryOf(x.dir, at).anode => to[1] = at[1] /\ to[2] = at[2]
  BY SMTT(60), <1>2, <1>3, <1>4
<1>6. to[1] = at[1] /\ to[2] = at[2] => x.le[h].anode = EntryOf(x.dir, at).anode
  BY <1>4
<1>7. QED
  BY <1>5, <1>6 DEF SameSpot, to

\* NewFile of a file that is there and that nobody has open.
LEMMA NewFileFoundOK ==
  ASSUME NEW x, NEW name, Sound(x, name), NEW at, At(x.dir, at), EntryOf(x.dir, at).kind = "file",
         UsersOf(x, EntryOf(x.dir, at).anode) = {}
  PROVE  /\ Sound(NewFileFound(x, at), name) /\ NewFileFound(x, at).le = x.le
         /\ NewFileFound(x, at).locks = x.locks
         /\ \A p : Leads(x.dir, p, at) => Leads(NewFileFound(x, at).dir, p, at)
         /\ EntryOf(NewFileFound(x, at).dir, at).anode = EntryOf(x.dir, at).anode
<1>  DEFINE e == EntryOf(x.dir, at)
            f == [e EXCEPT !.size = 0]
            D == Put(x.dir, at, f)
            y == NewFileFound(x, at)
<1>1. Volume(x) /\ Blocky(x.dir) /\ x.avail \in Nat
  BY DEF Sound, Volume, DirsOK
<1>2. EntryAt(x, at) = e /\ e \in DirEntry /\ e.size \in Nat
  BY <1>1, EntryAtIs DEF DirEntry
<1>3. y = [dir |-> D, used |-> x.used, le |-> x.le, locks |-> x.locks, avail |-> x.avail + e.size]
  BY <1>2, SetSizeIs DEF NewFileFound
<1>4. \A h \in Handles : x.le[h] # Closed => ~SameSpot(x.le[h].at, at) /\ x.le[h].offset <= SizeOf(x, h)
  BY OneSpot, OpenIs DEF UsersOf, Opened
<1>5. f \in DirEntry /\ f.anode = e.anode /\ f.name = e.name
  <2>  HIDE DEF e
  <2>  QED BY <1>2 DEF DirEntry
<1>6. Sound(y, name)
  <2>1. x.avail + e.size \in Nat
    BY <1>1, <1>2
  <2>2. x.le \in [Handles -> {Closed} \cup OpenFileEntry] /\ SameFiles(x.le, x.le)
    BY <1>1 DEF Volume, SameFiles
  <2>3. \A h \in Handles : x.le[h] # Closed =>
          x.le[h].offset <= IF SameSpot(x.le[h].at, at) THEN 0 ELSE SizeOf(x, h)
    BY <1>4
  <2>  HIDE DEF y
  <2>4. QED
    BY <1>3, <2>1, <2>2, <2>3, SizedOK
<1>7. y.dir = D /\ y.le = x.le /\ y.locks = x.locks
  BY <1>3
<1>  HIDE DEF f, y
<1>8. /\ DOMAIN D = DOMAIN x.dir
      /\ \A d \in DOMAIN x.dir : Len(D[d]) = Len(x.dir[d])
      /\ \A d \in DOMAIN x.dir : \A i \in 1 .. Len(x.dir[d]) :
           D[d][i] = IF d = at[1] /\ i = at[2] THEN f ELSE x.dir[d][i]
  BY <1>1, <1>5, PutIs
<1>9. EntryOf(D, at) = f /\ At(D, at)
  <2>  HIDE DEF D
  <2>  QED BY <1>8 DEF At, EntryOf
<1>10. ASSUME NEW p, Leads(x.dir, p, at) PROVE Leads(D, p, at)
  <2>1. Keeps(x.dir, D, p, at[1])
    <3>1. RootDir \in DOMAIN x.dir /\ at[2] \in 1 .. Len(x.dir[at[1]]) /\ e = x.dir[at[1]][at[2]]
      BY <1>1 DEF Blocky, At, EntryOf
    <3>  HIDE DEF D, e
    <3>2. QED
      BY SMTT(60), <1>5, <1>8, <3>1 DEF Keeps
  <2>2. EntryOf(D, at).name = EntryOf(x.dir, at).name
    BY <1>5, <1>9
  <2>  HIDE DEF D
  <2>3. QED
    BY SMTT(60), <1>9, <1>10, <2>1, <2>2, LeadsStill
<1>11. EntryOf(D, at).anode = EntryOf(x.dir, at).anode
  BY <1>5, <1>9
<1>  HIDE DEF D
<1>12. QED
  BY <1>6, <1>7, <1>10, <1>11 DEF y

\* WriteToFile
LEMMA WriteOK ==
  ASSUME NEW x, NEW name, Sound(x, name), NEW h \in Handles, Opened(x, h), NEW n \in Nat
  PROVE  Sound(Writefile(x, h, n).g, name)
<1>  DEFINE at == x.le[h].at
            end == x.le[h].offset + n
            old == SizeOf(x, h)
            size == Max({end, old})
            a == (x.avail + old) - size
            f == [EntryOf(x.dir, at) EXCEPT !.size = size]
            D == Put(x.dir, at, f)
            r == Writefile(x, h, n)
<1>1. /\ At(x.dir, at) /\ EntryAt(x, at) = EntryOf(x.dir, at) /\ old \in Nat /\ x.le[h].offset \in Nat
      /\ x.le \in [Handles -> {Closed} \cup OpenFileEntry] /\ x.avail \in Nat /\ x.le[h] # Closed
  BY OpenIs DEF Sound, Volume, Opened
<1>2. CASE ~IsFileAt(x, at) \/ NoRoom(x, h, end)
  BY <1>2 DEF Writefile, Fail, Result
<1>3. CASE IsFileAt(x, at) /\ ~NoRoom(x, h, end)
  <2>1. end \in Nat /\ end <= old + x.avail
    BY <1>1, <1>3 DEF NoRoom
  <2>2. size \in Nat /\ end <= size /\ old <= size /\ size \in {end, old}
    BY <1>1, <2>1, MaxOfTwo
  <2>3. a \in Nat
    BY <1>1, <2>1, <2>2
  <2>  DEFINE y == Resized(x, h, size)
              le2 == [x.le EXCEPT ![h].offset = end]
  <2>4. y = [dir |-> D, used |-> x.used, le |-> x.le, locks |-> x.locks, avail |-> a]
    <3>1. EntryOf(x.dir, at).kind = "file"
      BY <1>1, <1>3 DEF IsFileAt
    <3>2. y = SetSize([x EXCEPT !.avail = (@ + old) - size], at, size)
      BY DEF Resized
    <3>3. [x EXCEPT !.avail = (@ + old) - size] = [x EXCEPT !.avail = a]
      BY DEF Sound, Volume
    <3>  HIDE DEF a, size
    <3>4. QED
      BY <1>1, <2>2, <3>1, <3>2, <3>3, SetSizeIs
  <2>5. r.g = [y EXCEPT !.le[h].offset = end]
    BY <1>3 DEF Writefile, Result
  <2>6. r.g = [dir |-> D, used |-> x.used, le |-> le2, locks |-> x.locks, avail |-> a]
    <3>  HIDE DEF D, a, end, r, y
    <3>  QED BY <2>4, <2>5
  <2>7. /\ le2 \in [Handles -> {Closed} \cup OpenFileEntry] /\ le2[h] # Closed /\ le2[h].offset = end
        /\ le2[h].at = x.le[h].at /\ le2[h].anode = x.le[h].anode /\ \A k \in Handles \ {h} : le2[k] = x.le[k]
    BY <1>1, <2>1, PositionIs
  <2>8. \A k \in Handles : x.le[k] # Closed => x.le[k].offset <= SizeOf(x, k) /\ x.le[k].offset \in Nat
          /\ SizeOf(x, k) \in Nat /\ SizeOf(x, k) = EntryOf(x.dir, x.le[k].at).size
    BY SMTT(60), OpenIs DEF Opened
  <2>9. \A k \in Handles : SameSpot(x.le[k].at, at) /\ x.le[k] # Closed => SizeOf(x, k) = old
    BY ZenonT(60), <1>1, <2>8 DEF SameSpot, EntryOf
  <2>10. SameSpot(x.le[h].at, at)
    BY DEF SameSpot
  <2>  HIDE DEF le2, end, size, old, a, r, y
  <2>11. SameFiles(x.le, le2)
    BY <1>1, <2>7 DEF SameFiles
  <2>12. \A k \in Handles : le2[k] # Closed =>
           le2[k].offset <= IF SameSpot(x.le[k].at, at) THEN size ELSE SizeOf(x, k)
    <3>1. \A k \in Handles \ {h} : le2[k] # Closed =>
            le2[k].offset <= IF SameSpot(x.le[k].at, at) THEN size ELSE SizeOf(x, k)
      <4>  SUFFICES ASSUME NEW k \in Handles \ {h}, le2[k] # Closed
                    PROVE  le2[k].offset <= IF SameSpot(x.le[k].at, at) THEN size ELSE SizeOf(x, k)
        OBVIOUS
      <4>1. le2[k].offset <= SizeOf(x, k) /\ le2[k].offset \in Nat /\ SizeOf(x, k) \in Nat
            /\ (SameSpot(x.le[k].at, at) => SizeOf(x, k) = old)
        BY <2>7, <2>8, <2>9
      <4>2. SameSpot(x.le[k].at, at) => le2[k].offset <= size
        BY <1>1, <2>2, <4>1
      <4>3. QED
        BY <4>1, <4>2
    <3>2. le2[h].offset <= size
      BY <2>2, <2>7
    <3>3. QED
      BY <2>10, <3>1, <3>2
  <2>13. QED
    BY SMTT(60), <1>1, <2>2, <2>3, <2>6, <2>7, <2>11, <2>12, SizedOK DEF r
<1>4. QED
  BY <1>2, <1>3

\* ChangeFileSize
LEMMA ChangefileSizeOK ==
  ASSUME NEW x, NEW name, Sound(x, name), NEW h \in Handles, Opened(x, h), NEW size \in Nat
  PROVE  Sound(ChangefileSize(x, h, size).g, name)
<1>  DEFINE at == x.le[h].at
            b == x.le[h].anode
            old == SizeOf(x, h)
            a == (x.avail + old) - size
            f == [EntryOf(x.dir, at) EXCEPT !.size = size]
            D == Put(x.dir, at, f)
            r == ChangefileSize(x, h, size)
<1>1. /\ At(x.dir, at) /\ EntryAt(x, at) = EntryOf(x.dir, at) /\ old \in Nat /\ EntryOf(x.dir, at).anode = b
      /\ x.le \in [Handles -> {Closed} \cup OpenFileEntry] /\ x.avail \in Nat
  BY OpenIs DEF Sound, Volume, Opened
<1>2. CASE ~IsFileAt(x, at) \/ NoRoom(x, h, size)
  BY <1>2 DEF ChangefileSize, Fail, Result
<1>3. CASE IsFileAt(x, at) /\ ~NoRoom(x, h, size)
  <2>1. a \in Nat
    BY <1>1, <1>3 DEF NoRoom
  <2>  DEFINE y == Resized(x, h, size)
              cut(k) == Min({x.le[k].offset, size})
              le2 == [k \in Handles |-> IF k \in UsersOf(y, b) THEN [x.le[k] EXCEPT !.offset = Min({@, size})] ELSE x.le[k]]
  <2>2. y = [dir |-> D, used |-> x.used, le |-> x.le, locks |-> x.locks, avail |-> a]
    <3>1. EntryOf(x.dir, at).kind = "file"
      BY <1>1, <1>3 DEF IsFileAt
    <3>2. y = SetSize([x EXCEPT !.avail = (@ + old) - size], at, size)
      BY DEF Resized
    <3>3. [x EXCEPT !.avail = (@ + old) - size] = [x EXCEPT !.avail = a]
      BY DEF Sound, Volume
    <3>  HIDE DEF a
    <3>4. QED
      BY <1>1, <3>1, <3>2, <3>3, SetSizeIs
  <2>3. y.le = x.le
    BY <2>2
  <2>4. r.g = PositionsCut(y, b, size)
    BY <1>3 DEF ChangefileSize, Result
  <2>5. PositionsCut(y, b, size) = [y EXCEPT !.le = le2]
    BY <2>2 DEF PositionsCut
  <2>6. r.g = [dir |-> D, used |-> x.used, le |-> le2, locks |-> x.locks, avail |-> a]
    <3>  HIDE DEF D, a, r, y, le2
    <3>  QED BY <2>2, <2>4, <2>5
  <2>7. UsersOf(y, b) = UsersOf(x, b) /\ \A k \in UsersOf(x, b) : x.le[k] # Closed /\ x.le[k].anode = b
    BY <2>3 DEF UsersOf, Opened
  <2>8. \A k \in Handles : x.le[k] # Closed => x.le[k].offset <= SizeOf(x, k) /\ x.le[k].offset \in Nat
          /\ SizeOf(x, k) \in Nat /\ x.le[k] \in OpenFileEntry
    BY OpenIs DEF Opened
  <2>9. \A k \in Handles : x.le[k] # Closed => (SameSpot(x.le[k].at, at) <=> k \in UsersOf(x, b))
    BY <1>1, OneSpot DEF UsersOf, Opened
  <2>10. ASSUME NEW k \in Handles, x.le[k] # Closed, k \in UsersOf(x, b)
         PROVE  le2[k] \in OpenFileEntry /\ le2[k].offset <= size /\ le2[k].at = x.le[k].at /\ le2[k].anode = x.le[k].anode
    <3>1. le2[k] = [x.le[k] EXCEPT !.offset = cut(k)] /\ x.le[k] \in OpenFileEntry
      BY <2>7, <2>8, <2>10 DEF OpenFileEntry
    <3>2. cut(k) \in Nat /\ cut(k) <= size
      BY <2>8, <2>10, MinOfTwo
    <3>  HIDE DEF le2, cut
    <3>3. QED
      BY ZenonT(60), <3>1, <3>2 DEF OpenFileEntry
  <2>11. \A k \in Handles : k \notin UsersOf(x, b) => le2[k] = x.le[k]
    BY <2>7
  <2>11a. \A k \in Handles : x.le[k] = Closed => k \notin UsersOf(x, b)
    BY <2>7
  <2>12. le2 = [k \in Handles |-> le2[k]]
    OBVIOUS
  <2>  HIDE DEF le2, old, a, r, y
  <2>13. le2 \in [Handles -> {Closed} \cup OpenFileEntry]
    <3>1. \A k \in Handles : le2[k] \in {Closed} \cup OpenFileEntry
      BY <1>1, <2>10, <2>11, <2>11a
    <3>2. QED
      BY <2>12, <3>1
  <2>14. SameFiles(x.le, le2)
    BY <2>10, <2>11, <2>11a DEF SameFiles
  <2>15. \A k \in Handles : le2[k] # Closed =>
           le2[k].offset <= IF SameSpot(x.le[k].at, at) THEN size ELSE SizeOf(x, k)
    <3>  SUFFICES ASSUME NEW k \in Handles, le2[k] # Closed
                  PROVE  le2[k].offset <= IF SameSpot(x.le[k].at, at) THEN size ELSE SizeOf(x, k)
      OBVIOUS
    <3>1. x.le[k] # Closed
      BY <2>14 DEF SameFiles
    <3>2. QED
      BY <2>8, <2>9, <2>10, <2>11, <3>1
  <2>16. QED
    BY <1>1, <2>1, <2>6, <2>13, <2>14, <2>15, SizedOK DEF r
<1>4. QED
  BY <1>2, <1>3

\* WriteToFile and ChangeFileSize after a seek.
LEMMA WriteAtOK ==
  ASSUME NEW s, NEW name, Sound(s.g, name), NEW h \in Handles, Opened(s.g, h), NEW n \in Nat
  PROVE  Sound(WriteAt(s, h, n).g, name)
  BY WriteOK DEF WriteAt

LEMMA TruncateAtOK ==
  ASSUME NEW s, NEW name, Sound(s.g, name), NEW h \in Handles, Opened(s.g, h)
  PROVE  Sound(TruncateAt(s, h).g, name)
<1>1. s.g.le[h].offset \in Nat
  BY OpenIs
<1>2. QED
  BY <1>1, ChangefileSizeOK DEF TruncateAt
-----------------------------------------------------------------------------
(***************************************************************************)
(* Files are opened, made and closed.                                       *)
(***************************************************************************)
\* h has got the file, or nothing changed.
AddEnds(r, x, h, p, name) ==
  /\ r.error = "eOK" => Sound(r.g, [name EXCEPT ![h] = p])
  /\ r.error # "eOK" => r.g = x
LEMMA AddListEntryOK ==
  ASSUME NEW x, NEW name \in [Handles -> Paths \cup {<<>>}], Sound(x, name), NEW h \in Handles, ~Opened(x, h),
         NEW p \in Paths, Last(p) \notin Folders, NEW at \in Nat \X Nat, Leads(x.dir, p, at),
         NEW exclusive \in BOOLEAN
  PROVE  AddEnds(AddListEntry(x, h, at, exclusive), x, h, p, name)
<1>  DEFINE e == EntryAt(x, at)
            f == [open |-> TRUE, anode |-> e.anode, at |-> at, exclusive |-> exclusive, offset |-> 0]
            le2 == [x.le EXCEPT ![h] = f]
            name2 == [name EXCEPT ![h] = p]
            r == AddListEntry(x, h, at, exclusive)
<1>1. /\ x = [dir |-> x.dir, used |-> x.used, le |-> x.le, locks |-> x.locks, avail |-> x.avail]
      /\ x.le \in [Handles -> {Closed} \cup OpenFileEntry] /\ x.locks \in SUBSET Anodes /\ x.avail \in Nat
      /\ DirsOK(x.dir, x.used) /\ RefsOK(x.dir, x.le, name) /\ Blocky(x.dir)
  BY DEF Sound, Volume, DirsOK
<1>2. At(x.dir, at)
  BY DEF Leads, At
<1>3. e = EntryOf(x.dir, at) /\ e \in DirEntry
  BY <1>1, <1>2, EntryAtIs
<1>4. CASE AccessConflict(x, e.anode, exclusive)
  BY <1>4 DEF AddListEntry, Fail, Result, AddEnds
<1>5. CASE ~AccessConflict(x, e.anode, exclusive)
  <2>1. r.error = "eOK" /\ r.g = [x EXCEPT !.le[h] = f]
    BY <1>5 DEF AddListEntry, Result
  <2>2. r.g = [dir |-> x.dir, used |-> x.used, le |-> le2, locks |-> x.locks, avail |-> x.avail]
    <3>  HIDE DEF f, r
    <3>  QED BY <1>1, <2>1
  <2>3. f \in OpenFileEntry /\ f.at = at /\ f.anode = e.anode /\ f.offset = 0
    BY <1>3 DEF OpenFileEntry, DirEntry
  <2>  HIDE DEF f
  <2>4. le2 \in [Handles -> {Closed} \cup OpenFileEntry] /\ le2[h] = f
        /\ \A k \in Handles \ {h} : le2[k] = x.le[k] /\ name2[k] = name[k]
    BY <1>1, <2>3
  <2>5. name2[h] = p
    OBVIOUS
  <2>  HIDE DEF name2, le2, r
  <2>6. RefOK(x.dir, f, p)
    BY <1>3, <2>3, RefBack DEF DirEntry
  <2>7. RefsOK(x.dir, le2, name2)
    BY <1>1, <2>4, <2>5, <2>6 DEF RefsOK
  <2>8. Sound(r.g, name2)
    <3>1. x.locks \in SUBSET Anodes /\ x.avail \in Nat /\ DirsOK(x.dir, x.used)
          /\ le2 \in [Handles -> {Closed} \cup OpenFileEntry]
      BY <1>1, <2>4
    <3>2. /\ r.g.dir = x.dir /\ r.g.used = x.used /\ r.g.le = le2 /\ r.g.locks = x.locks /\ r.g.avail = x.avail
          /\ r.g = [dir |-> r.g.dir, used |-> r.g.used, le |-> r.g.le, locks |-> r.g.locks, avail |-> r.g.avail]
      BY <2>2
    <3>3. QED
      BY <2>7, <3>1, <3>2 DEF Sound, Volume
  <2>9. QED
    BY <2>1, <2>8 DEF r, name2, AddEnds
<1>6. QED
  BY <1>4, <1>5

\* A new file, in a directory where its name is free.
LEMMA NewFileOK ==
  ASSUME NEW x, NEW name, Sound(x, name), NEW p \in Paths, Last(p) \notin Folders,
         FolderOf(x, p) # 0, Find(x, p) = NoPlace, FreeAnodes(x) # {}
  PROVE  /\ Sound(NewEntry(x, FolderOf(x, p), Last(p), "file"), name)
         /\ NewEntry(x, FolderOf(x, p), Last(p), "file").le = x.le
         /\ Added(NewEntry(x, FolderOf(x, p), Last(p), "file"), FolderOf(x, p)) \in Nat \X Nat
         /\ Leads(NewEntry(x, FolderOf(x, p), Last(p), "file").dir, p,
                  Added(NewEntry(x, FolderOf(x, p), Last(p), "file"), FolderOf(x, p)))
<1>  DEFINE d == FolderOf(x, p)
            a == AllocAnode(x)
            e == [name |-> Last(p), anode |-> a, kind |-> "file", size |-> 0]
            D == With(x.dir, d, e)
            y == NewEntry(x, d, Last(p), "file")
<1>1. /\ x = [dir |-> x.dir, used |-> x.used, le |-> x.le, locks |-> x.locks, avail |-> x.avail]
      /\ x.le \in [Handles -> {Closed} \cup OpenFileEntry] /\ x.locks \in SUBSET Anodes /\ x.avail \in Nat
      /\ DirsOK(x.dir, x.used) /\ RefsOK(x.dir, x.le, name) /\ Blocky(x.dir)
  BY DEF Sound, Volume, DirsOK
<1>2. d \in DOMAIN x.dir /\ FolderAt(x.dir, p, d) /\ d \in Nat
  BY <1>1, FolderIs, PfsNumbersAssumption DEF Blocky, Folder, Anodes
<1>3. \A i \in 1 .. Len(x.dir[d]) : x.dir[d][i].name # Last(p)
  BY <1>1, FindIs
<1>4. a \in Anodes /\ a \notin x.used
  <2>1. FreeAnodes(x) \in SUBSET Nat
    BY PfsNumbersAssumption DEF FreeAnodes, Anodes
  <2>2. a \in FreeAnodes(x)
    BY <2>1, MinIs DEF AllocAnode
  <2>3. QED
    BY <2>2 DEF FreeAnodes
<1>  HIDE DEF a, d
<1>5. e \in DirEntry /\ e.name = Last(p) /\ e.anode = a /\ e.kind = "file"
  BY <1>4, PathIs DEF DirEntry
<1>6. y = [dir |-> D, used |-> x.used \cup {a}, le |-> x.le, locks |-> x.locks, avail |-> x.avail]
  <2>1. y = [[x EXCEPT !.used = @ \cup {a}] EXCEPT !.dir[d] = Append(@, e)]
    BY DEF NewEntry, AddDirectoryEntry, a
  <2>  HIDE DEF e, y
  <2>2. QED
    BY <1>1, <2>1 DEF With
<1>  HIDE DEF e, y
<1>7. DirsOK(D, x.used \cup {a}) /\ AddedTo(x.dir, D, d, e)
  BY <1>1, <1>2, <1>3, <1>4, <1>5, WithOK
<1>8. RefsOK(D, x.le, name) /\ FolderAt(D, p, d)
  <2>  HIDE DEF D
  <2>  QED BY <1>1, <1>2, <1>7, RefsAdded
<1>9. /\ d \in DOMAIN D /\ Len(D[d]) = Len(x.dir[d]) + 1 /\ D[d][Len(x.dir[d]) + 1] = e
      /\ Len(x.dir[d]) \in Nat
  <2>1. Len(x.dir[d]) \in Nat
    BY <1>1, <1>2, EntryIs
  <2>2. /\ DOMAIN With(x.dir, d, e) = DOMAIN x.dir
        /\ \A c \in DOMAIN x.dir : Len(With(x.dir, d, e)[c]) = IF c = d THEN Len(x.dir[d]) + 1 ELSE Len(x.dir[c])
        /\ With(x.dir, d, e)[d][Len(x.dir[d]) + 1] = e
    BY SMTT(60), <1>1, <1>2, <1>5, WithIs
  <2>3. QED
    BY <1>2, <2>1, <2>2
<1>  HIDE DEF D
<1>10. Sound(y, name) /\ y.dir = D /\ y.le = x.le
  <2>  DEFINE U == x.used \cup {a}
  <2>1. DirsOK(D, U) /\ y = [dir |-> D, used |-> U, le |-> x.le, locks |-> x.locks, avail |-> x.avail]
    BY <1>6, <1>7
  <2>  HIDE DEF U
  <2>2. QED
    BY <1>1, <1>8, <2>1, SoundFrom
<1>11. Added(y, d) = <<d, Len(x.dir[d]) + 1>>
  BY <1>9, <1>10 DEF Added
<1>12. Leads(D, p, Added(y, d))
  BY <1>5, <1>8, <1>9, <1>11 DEF Leads
<1>13. QED
  BY <1>2, <1>9, <1>10, <1>11, <1>12 DEF y, d

\* PFS3::Createfile
CreateEnds(r, h, p, name) ==
  /\ r.error = "eOK" => Sound(r.g, [name EXCEPT ![h] = p])
  /\ r.error # "eOK" => Sound(r.g, name)
LEMMA CreatefileOK ==
  ASSUME NEW x, NEW name \in [Handles -> Paths \cup {<<>>}], Sound(x, name), NEW h \in Handles, ~Opened(x, h),
         NEW p \in Paths, Last(p) \notin Folders, NEW mode, NEW readOnly \in BOOLEAN,
         mode \in {"omCreateAlways", "omTruncateExisting"} => UsersOf(x, EntryAt(x, Find(x, p)).anode) = {}
  PROVE  CreateEnds(Createfile(x, h, p, mode, readOnly), h, p, name)
<1>  DEFINE at == Find(x, p)
            d == FolderOf(x, p)
            empties == mode \in {"omCreateAlways", "omTruncateExisting"}
            z == IF empties THEN NewFileFound(x, at) ELSE x
            y == NewEntry(x, d, Last(p), "file")
            r == Createfile(x, h, p, mode, readOnly)
<1>0. DirsOK(x.dir, x.used) /\ Blocky(x.dir) /\ (~readOnly) \in BOOLEAN
  <2>1. DirsOK(x.dir, x.used) /\ Blocky(x.dir)
    BY DEF Sound, DirsOK
  <2>2. QED
    BY <2>1
<1>1. CASE Exists(x, p)
  <2>1. Leads(x.dir, p, at) /\ at \in Nat \X Nat
    BY <1>0, <1>1, FindIs DEF Exists
  <2>2. At(x.dir, at) /\ EntryAt(x, at) = EntryOf(x.dir, at)
    BY <1>0, <2>1, EntryAtIs DEF Leads, At
  <2>3. CASE r.g = x /\ r.error # "eOK"
    BY <2>3 DEF CreateEnds
  <2>4. CASE IsFileAt(x, at) /\ r = AddListEntry(z, h, at, ~readOnly)
    <3>1. Sound(z, name) /\ z.le = x.le /\ Leads(z.dir, p, at)
      <4>1. CASE empties
        <5>1. EntryOf(x.dir, at).kind = "file" /\ UsersOf(x, EntryOf(x.dir, at).anode) = {}
          BY <2>2, <2>4, <4>1 DEF IsFileAt
        <5>2. z = NewFileFound(x, at)
          BY <4>1
        <5>  HIDE DEF z, at
        <5>3. QED
          BY <2>1, <2>2, <5>1, <5>2, NewFileFoundOK
      <4>2. CASE ~empties
        BY <2>1, <4>2
      <4>3. QED
        BY <4>1, <4>2
    <3>2. ~Opened(z, h)
      BY <3>1 DEF Opened
    <3>  HIDE DEF z, at, r
    <3>3. AddEnds(AddListEntry(z, h, at, ~readOnly), z, h, p, name)
      <4>  DEFINE w == ~readOnly
      <4>1. w \in BOOLEAN /\ at \in Nat \X Nat
        BY <1>0, <2>1 DEF at
      <4>  HIDE DEF w
      <4>2. AddEnds(AddListEntry(z, h, at, w), z, h, p, name)
        BY <3>1, <3>2, <4>1, AddListEntryOK
      <4>3. QED
        BY <4>2 DEF w
    <3>4. r = AddListEntry(z, h, at, ~readOnly)
      BY <2>4 DEF r, z, at
    <3>5. QED
      BY <3>1, <3>3, <3>4 DEF CreateEnds, AddEnds, r
  <2>5. (r.g = x /\ r.error # "eOK") \/ (IsFileAt(x, at) /\ r = AddListEntry(z, h, at, ~readOnly))
    <3>1. r = CreatefileFound(x, h, at, mode, readOnly)
      BY <1>1 DEF Createfile
    <3>2. Fail(x, "eNotFile") = [g |-> x, error |-> "eNotFile"] /\ Fail(x, "eAlreadyExists") = [g |-> x, error |-> "eAlreadyExists"]
          /\ Fail(x, "eAccessDenied") = [g |-> x, error |-> "eAccessDenied"]
      BY DEF Fail, Result
    <3>  HIDE DEF r, at
    <3>3. QED
      BY <3>1, <3>2 DEF CreatefileFound
  <2>6. QED
    BY <2>3, <2>4, <2>5
<1>2. CASE ~Exists(x, p)
  <2>1. at = NoPlace
    BY <1>2 DEF Exists
  <2>2. CASE r.g = x /\ r.error # "eOK"
    BY <2>2 DEF CreateEnds
  <2>3. CASE d # 0 /\ FreeAnodes(x) # {} /\ r = AddListEntry(y, h, Added(y, d), ~readOnly)
    <3>1. Sound(y, name) /\ y.le = x.le /\ Added(y, d) \in Nat \X Nat /\ Leads(y.dir, p, Added(y, d))
      BY <2>1, <2>3, NewFileOK
    <3>2. ~Opened(y, h)
      BY <3>1 DEF Opened
    <3>  HIDE DEF y, d, r
    <3>3. AddEnds(AddListEntry(y, h, Added(y, d), ~readOnly), y, h, p, name)
      <4>  DEFINE w == ~readOnly
                  at2 == Added(y, d)
      <4>1. w \in BOOLEAN /\ at2 \in Nat \X Nat /\ Leads(y.dir, p, at2)
        BY <1>0, <3>1
      <4>  HIDE DEF w, at2
      <4>2. AddEnds(AddListEntry(y, h, at2, w), y, h, p, name)
        BY <3>1, <3>2, <4>1, AddListEntryOK
      <4>3. QED
        BY <4>2 DEF w, at2
    <3>4. r = AddListEntry(y, h, Added(y, d), ~readOnly)
      BY <2>3 DEF r, y, d
    <3>5. QED
      BY <3>1, <3>3, <3>4 DEF CreateEnds, AddEnds, r
  <2>4. (r.g = x /\ r.error # "eOK") \/ (d # 0 /\ FreeAnodes(x) # {} /\ r = AddListEntry(y, h, Added(y, d), ~readOnly))
    <3>1. r = CreatefileNew(x, h, d, Last(p), mode, readOnly)
      BY <1>2 DEF Createfile
    <3>2. Fail(x, "eNotFound") = [g |-> x, error |-> "eNotFound"] /\ Fail(x, "eDiskFull") = [g |-> x, error |-> "eDiskFull"]
          /\ Fail(x, "eAccessDenied") = [g |-> x, error |-> "eAccessDenied"]
      BY DEF Fail, Result
    <3>  HIDE DEF r, d
    <3>3. QED
      BY <3>1, <3>2 DEF CreatefileNew, AddLast
  <2>5. QED
    BY <2>2, <2>3, <2>4
<1>3. QED
  BY <1>1, <1>2

\* Closefile
LEMMA ClosedOK ==
  ASSUME NEW x, NEW name \in [Handles -> Paths \cup {<<>>}], Sound(x, name), NEW h \in Handles, NEW q
  PROVE  Sound([x EXCEPT !.le[h] = Closed], [name EXCEPT ![h] = q])
<1>  DEFINE le2 == [x.le EXCEPT ![h] = Closed]
            name2 == [name EXCEPT ![h] = q]
            y == [x EXCEPT !.le[h] = Closed]
<1>1. /\ x = [dir |-> x.dir, used |-> x.used, le |-> x.le, locks |-> x.locks, avail |-> x.avail]
      /\ x.le \in [Handles -> {Closed} \cup OpenFileEntry] /\ x.locks \in SUBSET Anodes /\ x.avail \in Nat
      /\ DirsOK(x.dir, x.used) /\ RefsOK(x.dir, x.le, name)
  BY DEF Sound, Volume
<1>2. y = [dir |-> x.dir, used |-> x.used, le |-> le2, locks |-> x.locks, avail |-> x.avail]
  BY <1>1
<1>3. le2 \in [Handles -> {Closed} \cup OpenFileEntry] /\ le2[h] = Closed
      /\ \A k \in Handles \ {h} : le2[k] = x.le[k] /\ name2[k] = name[k]
  BY <1>1
<1>  HIDE DEF le2, name2, y
<1>4. RefsOK(x.dir, le2, name2)
  BY <1>1, <1>3 DEF RefsOK
<1>5. Sound(y, name2)
  <2>1. x.locks \in SUBSET Anodes /\ x.avail \in Nat /\ DirsOK(x.dir, x.used)
        /\ le2 \in [Handles -> {Closed} \cup OpenFileEntry]
    BY <1>1, <1>3
  <2>2. /\ y.dir = x.dir /\ y.used = x.used /\ y.le = le2 /\ y.locks = x.locks /\ y.avail = x.avail
        /\ y = [dir |-> y.dir, used |-> y.used, le |-> y.le, locks |-> y.locks, avail |-> y.avail]
    BY <1>2
  <2>3. QED
    BY <1>4, <2>1, <2>2 DEF Sound, Volume
<1>6. QED
  BY <1>5 DEF y, name2
-----------------------------------------------------------------------------
(***************************************************************************)
(* Directories are made, objects deleted and renamed.                       *)
(***************************************************************************)
LEMMA FreeAnodeIs ==
  ASSUME NEW x, FreeAnodes(x) # {}
  PROVE  AllocAnode(x) \in Anodes /\ AllocAnode(x) \notin x.used
<1>1. FreeAnodes(x) \in SUBSET Nat
  BY PfsNumbersAssumption DEF FreeAnodes, Anodes
<1>2. AllocAnode(x) \in FreeAnodes(x)
  BY <1>1, MinIs DEF AllocAnode
<1>3. QED
  BY <1>2 DEF FreeAnodes

\* The directories that have blocks have anodes in use.
LEMMA BlocksInUse ==
  ASSUME NEW dir, NEW used, DirsOK(dir, used)
  PROVE  DOMAIN dir \subseteq used \cup {RootDir} /\ RootDir \in DOMAIN dir /\ RootDir \notin Anodes
<1>1. RootDir \in DOMAIN dir /\ RootDir \notin Anodes
  BY PfsNumbersAssumption DEF DirsOK, Blocky, Anodes
<1>2. ASSUME NEW d \in DOMAIN dir \ {RootDir} PROVE d \in used
  <2>1. PICK i \in 1 .. Len(dir[RootDir]) : dir[RootDir][i].anode = d
    BY DEF DirsOK, Rooted
  <2>2. QED
    BY <1>1, <2>1 DEF DirsOK, Told
<1>3. QED
  BY <1>1, <1>2

\* PFS3::MkDir: the lock is what was there already if it is refused.
MkDirEnds(r, x, name) ==
  /\ Sound(r.g, name)
  /\ x.locks \subseteq DOMAIN x.dir \ {RootDir} => r.g.locks \subseteq DOMAIN r.g.dir \ {RootDir} /\ r.error # "alarm"
LEMMA MkDirOK ==
  ASSUME NEW x, NEW name, Sound(x, name), NEW p \in Paths, Last(p) \in Folders
  PROVE  MkDirEnds(MkDir(x, p), x, name)
<1>  DEFINE d == FolderOf(x, p)
            a == AllocAnode(x)
            e == [name |-> Last(p), anode |-> a, kind |-> "dir", size |-> 0]
            s == x.dir[RootDir]
            z == NewEntry(x, RootDir, Last(p), "dir")
            D == With(x.dir, RootDir, e)
            E == WithBlock(D, a)
            U == x.used \cup {a}
            K == x.locks \cup {a}
            r == MkDir(x, p)
<1>1. /\ x = [dir |-> x.dir, used |-> x.used, le |-> x.le, locks |-> x.locks, avail |-> x.avail]
      /\ x.le \in [Handles -> {Closed} \cup OpenFileEntry] /\ x.locks \in SUBSET Anodes /\ x.avail \in Nat
      /\ DirsOK(x.dir, x.used) /\ RefsOK(x.dir, x.le, name) /\ Blocky(x.dir)
  BY DEF Sound, Volume, DirsOK
<1>2. d = RootDir
  BY PathIs DEF FolderOf
<1>2a. RootDir \in DOMAIN x.dir /\ RootDir # 0 /\ s \in Seq(DirEntry) /\ Len(s) \in Nat
  BY <1>1, PfsNumbersAssumption DEF Blocky
<1>3. CASE r.g = x /\ r.error # "alarm"
  BY <1>3 DEF MkDirEnds
<1>4. CASE Find(x, p) = NoPlace /\ FreeAnodes(x) # {} /\ r = NewDirLocked(z, RootDir, a)
  <2>1. a \in Anodes /\ a \notin x.used
    BY <1>4, FreeAnodeIs
  <2>  HIDE DEF a
  <2>2. e \in DirEntry /\ e.name = Last(p) /\ e.anode = a /\ e.kind = "dir"
    BY <2>1, PathIs DEF DirEntry
  <2>3. z = [dir |-> D, used |-> U, le |-> x.le, locks |-> x.locks, avail |-> x.avail]
    <3>1. z = [[x EXCEPT !.used = @ \cup {a}] EXCEPT !.dir[RootDir] = Append(@, e)]
      BY DEF NewEntry, AddDirectoryEntry, a
    <3>  HIDE DEF e, z
    <3>2. QED
      BY <1>1, <3>1 DEF With
  <2>  HIDE DEF e, z
  <2>4. \A i \in 1 .. Len(s) : s[i].name # Last(p)
    BY <1>1, <1>2, <1>2a, <1>4, FindIs
  <2>5. /\ DOMAIN D = DOMAIN x.dir /\ Len(D[RootDir]) = Len(s) + 1 /\ D[RootDir] = Append(s, e)
        /\ Blocky(D)
    BY <1>1, <1>2a, <2>2, WithIs
  <2>6. D = [x.dir EXCEPT ![RootDir] = Append(@, e)] /\ D = [c \in DOMAIN D |-> D[c]]
    BY <2>5 DEF With, Blocky
  <2>7. DirsOK(E, U) /\ AddedTo(x.dir, E, RootDir, e)
    <3>1. DirsOK(WithBlock(With(x.dir, RootDir, e), e.anode), x.used \cup {e.anode})
          /\ AddedTo(x.dir, WithBlock(With(x.dir, RootDir, e), e.anode), RootDir, e)
      BY <1>1, <2>1, <2>2, <2>4, WithFolderOK
    <3>2. QED
      BY <2>2, <3>1
  <2>  HIDE DEF D
  <2>8. CASE AccessConflict(z, a, TRUE)
    <3>  DEFINE y == RemoveDirEntry(z, Added(z, RootDir))
                n == Len(s) + 1
    <3>1. r.g = [y EXCEPT !.used = @ \ {a}] /\ r.error = "alarm"
      BY <1>4, <2>8 DEF NewDirLocked, Fail, Result
    <3>2. Added(z, RootDir) = <<RootDir, n>> /\ z.dir = D
      BY <2>3, <2>5 DEF Added
    <3>3. n \in DOMAIN D[RootDir]
      BY <1>2a, <2>2, <2>5, AppendIs
    <3>4. y = [z EXCEPT !.dir[RootDir] = RemoveAt(@, n)]
      BY <3>2, <3>3 DEF RemoveDirEntry
    <3>5. RemoveAt(Append(s, e), n) = s
      <4>1. Append(s, e) \in Seq(DirEntry) /\ Len(Append(s, e)) = n /\ n \in 1 .. n
            /\ \A i \in 1 .. Len(s) : Append(s, e)[i] = s[i]
        BY <1>2a, <2>2, AppendIs
      <4>  DEFINE q == Append(s, e)
                  t == RemoveAt(q, n)
      <4>  HIDE DEF q, s
      <4>2. n \in 1 .. Len(q) /\ q \in Seq(DirEntry) /\ Len(q) = Len(s) + 1 /\ \A i \in 1 .. Len(s) : q[i] = s[i]
        BY <4>1 DEF q
      <4>  HIDE DEF n
      <4>3. t \in Seq(DirEntry) /\ Len(t) = Len(q) - 1 /\ \A i \in 1 .. (Len(q) - 1) : t[i] = q[Gap(i, n)]
        BY <4>2, RemoveAtIs
      <4>  HIDE DEF t
      <4>4. Len(t) = Len(s) /\ Len(q) - 1 = Len(s)
        BY <1>2a, <4>2, <4>3
      <4>5. \A i \in 1 .. Len(s) : t[i] = s[i]
        BY SMTT(60), <1>2a, <4>2, <4>3, <4>4 DEF Gap, n
      <4>6. t = s
        BY SMTT(60), <1>2a, <4>3, <4>4, <4>5 DEF s
      <4>7. QED
        BY <4>6 DEF t, q, s
    <3>6. [D EXCEPT ![RootDir] = RemoveAt(@, n)] = x.dir
      <4>1. [D EXCEPT ![RootDir] = RemoveAt(@, n)] = [D EXCEPT ![RootDir] = s]
        BY <1>2a, <2>5, <3>5
      <4>2. x.dir = [c \in DOMAIN x.dir |-> x.dir[c]]
        BY <1>1 DEF Blocky
      <4>3. \A c \in DOMAIN x.dir \ {RootDir} : D[c] = x.dir[c]
        BY <2>5, <2>6
      <4>  DEFINE F == [D EXCEPT ![RootDir] = s]
      <4>4. F = [c \in DOMAIN x.dir |-> F[c]] /\ \A c \in DOMAIN x.dir : F[c] = x.dir[c]
        BY <2>5, <4>3
      <4>  HIDE DEF F
      <4>5. F = x.dir
        BY <4>2, <4>4
      <4>6. QED
        BY <4>1, <4>5 DEF F
    <3>7. U \ {a} = x.used
      BY <2>1
    <3>  HIDE DEF U, y, r
    <3>8. y = [dir |-> x.dir, used |-> U, le |-> x.le, locks |-> x.locks, avail |-> x.avail]
      BY <2>3, <3>4, <3>6
    <3>9. r.g = x
      BY <1>1, <3>1, <3>7, <3>8
    <3>10. z.le = x.le /\ z.locks = x.locks
      BY <2>3
    <3>11. a \in x.locks
      <4>1. UsersOf(z, a) = {}
        <5>1. \A h \in Handles : x.le[h] # Closed => x.le[h].anode # a
          <6>1. \A h \in Handles : x.le[h] # Closed => At(x.dir, x.le[h].at) /\ EntryOf(x.dir, x.le[h].at).anode = x.le[h].anode
            BY <1>1, RefIs
          <6>2. \A at : At(x.dir, at) => EntryOf(x.dir, at).anode \in x.used
            BY <1>1 DEF DirsOK, Told, At, EntryOf
          <6>3. QED
            BY <2>1, <6>1, <6>2
        <5>2. QED
          BY <3>10, <5>1 DEF UsersOf, Opened
      <4>2. QED
        BY <2>8, <3>10, <4>1 DEF AccessConflict
    <3>12. ~(x.locks \subseteq DOMAIN x.dir \ {RootDir})
      BY <1>1, <2>1, <3>11, BlocksInUse
    <3>13. QED
      BY <3>9, <3>12 DEF MkDirEnds, r
  <2>9. CASE ~AccessConflict(z, a, TRUE)
    <3>1. r.error = "eOK" /\ r.g = [z EXCEPT !.locks = @ \cup {a}, !.dir = [c \in DOMAIN @ \cup {a} |-> IF c = a THEN <<>> ELSE @[c]]]
      BY <1>4, <2>9 DEF NewDirLocked, Result
    <3>2. r.g = [dir |-> E, used |-> U, le |-> x.le, locks |-> K, avail |-> x.avail]
      <4>1. z.dir = D /\ z.locks = x.locks
        BY <2>3
      <4>2. r.g = [z EXCEPT !.locks = K, !.dir = E]
        <5>1. [z EXCEPT !.locks = @ \cup {a}, !.dir = [c \in DOMAIN @ \cup {a} |-> IF c = a THEN <<>> ELSE @[c]]]
                = [z EXCEPT !.locks = z.locks \cup {a}, !.dir = [c \in DOMAIN z.dir \cup {a} |-> IF c = a THEN <<>> ELSE z.dir[c]]]
          BY <2>3
        <5>2. QED
          BY <3>1, <4>1, <5>1 DEF WithBlock
      <4>  HIDE DEF U, r, E, K
      <4>3. QED
        BY <2>3, <4>2
    <3>3. DOMAIN E = DOMAIN x.dir \cup {a}
      BY <2>5 DEF WithBlock
    <3>4. K \in SUBSET Anodes
      BY <1>1, <2>1
    <3>  HIDE DEF E, U, K, r
    <3>5. RefsOK(E, x.le, name)
      BY <1>1, <1>2a, <2>7, RefsAdded
    <3>6. /\ r.g.dir = E /\ r.g.used = U /\ r.g.le = x.le /\ r.g.locks = K /\ r.g.avail = x.avail
          /\ r.g = [dir |-> r.g.dir, used |-> r.g.used, le |-> r.g.le, locks |-> r.g.locks, avail |-> r.g.avail]
      BY <3>2
    <3>7. Sound(r.g, name)
      BY <1>1, <2>7, <3>4, <3>5, <3>6 DEF Sound, Volume
    <3>8. a # RootDir
      BY <2>1, PfsNumbersAssumption DEF Anodes
    <3>9. x.locks \subseteq DOMAIN x.dir \ {RootDir} => r.g.locks \subseteq DOMAIN r.g.dir \ {RootDir}
      BY <3>3, <3>6, <3>8 DEF K
    <3>10. QED
      BY <3>1, <3>7, <3>9 DEF MkDirEnds, r
  <2>10. QED
    BY <2>8, <2>9
<1>5. (r.g = x /\ r.error # "alarm") \/ (Find(x, p) = NoPlace /\ FreeAnodes(x) # {} /\ r = NewDirLocked(z, RootDir, a))
  <2>1. Fail(x, "eNotFound") = [g |-> x, error |-> "eNotFound"] /\ Fail(x, "eDiskFull") = [g |-> x, error |-> "eDiskFull"]
        /\ Fail(x, "eAlreadyExists") = [g |-> x, error |-> "eAlreadyExists"]
    BY DEF Fail, Result
  <2>  HIDE DEF a
  <2>2. QED
    BY <1>2, <2>1 DEF MkDir, Exists, a
<1>6. QED
  BY <1>3, <1>4, <1>5

\* UpdateChangedRef, for files that are not where the change is.
LEMMA RefMovedIs ==
  ASSUME NEW x, x.le \in [Handles -> {Closed} \cup OpenFileEntry], NEW from \in Nat \X Nat, NEW to,
         \A h \in Handles : x.le[h] # Closed => x.le[h].at # from \/ to = NoPlace
  PROVE  UpdateChangedRef(x, from, to, TRUE) = [x EXCEPT !.le = AllMoved(x.le, from)]
<1>1. ASSUME NEW h \in Handles, x.le[h] # Closed
      PROVE  RefMoved(x.le[h].at, from, to, TRUE) = Moved(x.le[h].at, from)
  <2>1. x.le[h].at \in Nat \X Nat
    BY <1>1 DEF OpenFileEntry
  <2>2. CASE x.le[h].at[1] # from[1]
    BY <2>2 DEF RefMoved, Moved
  <2>3. CASE x.le[h].at[1] = from[1] /\ x.le[h].at = from
    BY <1>1, <2>1, <2>3 DEF RefMoved, Moved
  <2>4. CASE x.le[h].at[1] = from[1] /\ x.le[h].at # from
    BY <2>4 DEF RefMoved, Moved
  <2>5. QED
    BY <2>2, <2>3, <2>4
<1>2. [h \in Handles |-> IF Opened(x, h) THEN [x.le[h] EXCEPT !.at = RefMoved(@, from, to, TRUE)] ELSE Closed]
        = AllMoved(x.le, from)
  BY <1>1 DEF AllMoved, Opened
<1>3. QED
  BY <1>2 DEF UpdateChangedRef

\* An entry that has not a directory's name is no directory.
LEMMA NotFolder ==
  ASSUME NEW dir, NEW used, DirsOK(dir, used), NEW at, At(dir, at), EntryOf(dir, at).name \notin Folders
  PROVE  EntryOf(dir, at).kind # "dir"
<1>  DEFINE d == at[1]
            i == at[2]
<1>1. d \in DOMAIN dir /\ i \in 1 .. Len(dir[d]) /\ dir[d][i].name \notin Folders
  BY DEF At, EntryOf
<1>2. Rooted(dir)
  BY DEF DirsOK
<1>  HIDE DEF d, i
<1>3. dir[d][i].kind # "dir"
  BY ONLY <1>1, <1>2 DEF Rooted
<1>4. QED
  BY <1>3 DEF EntryOf, d, i

\* DeleteObject, where nobody has the file open.
DeleteEnds(r, x, at) ==
  \/ r.g = x /\ r.error # "eOK"
  \/ /\ r.error = "eOK" /\ RemovedFrom(x.dir, r.g.dir, at) /\ r.g.le = AllMoved(x.le, at)
     /\ \A h \in Handles : /\ r.g.le[h] # Closed <=> x.le[h] # Closed
                           /\ x.le[h] # Closed => r.g.le[h].anode = x.le[h].anode
LEMMA DeleteObjectOK ==
  ASSUME NEW x, NEW name, Sound(x, name), NEW at \in Nat \X Nat, At(x.dir, at),
         EntryOf(x.dir, at).kind = "file" => UsersOf(x, EntryOf(x.dir, at).anode) = {}
  PROVE  Sound(DeleteObject(x, at).g, name) /\ DeleteEnds(DeleteObject(x, at), x, at)
<1>  DEFINE e == EntryOf(x.dir, at)
            D == Minus(x.dir, Gone(e))
            E == Without(D, at)
            L == AllMoved(x.le, at)
            U == x.used \ {e.anode}
            r == DeleteObject(x, at)
<1>1. /\ x = [dir |-> x.dir, used |-> x.used, le |-> x.le, locks |-> x.locks, avail |-> x.avail]
      /\ x.le \in [Handles -> {Closed} \cup OpenFileEntry] /\ x.locks \in SUBSET Anodes /\ x.avail \in Nat
      /\ DirsOK(x.dir, x.used) /\ RefsOK(x.dir, x.le, name) /\ Blocky(x.dir)
  BY DEF Sound, Volume, DirsOK
<1>2. EntryAt(x, at) = e /\ e \in DirEntry /\ at[1] \in DOMAIN x.dir /\ at[2] \in DOMAIN x.dir[at[1]]
  BY <1>1, EntryAtIs
<1>3. CASE r.g = x /\ r.error # "eOK"
  BY <1>3 DEF DeleteEnds
<1>4. CASE /\ e.kind = "dir" => x.dir[e.anode] = <<>>
           /\ r.error = "eOK"
           /\ \E a \in Nat : r.g = [dir |-> E, used |-> U, le |-> L, locks |-> x.locks, avail |-> a]
  <2>1. \A d \in Gone(e) : x.dir[d] = <<>>
    BY <1>4 DEF Gone
  <2>2. DirsOK(E, U) /\ RemovedFrom(x.dir, E, at)
    BY <1>1, <2>1, WithoutOK
  <2>3. \A h \in Handles : x.le[h] # Closed => x.le[h].anode # e.anode
    <3>1. CASE e.kind = "file"
      <4>1. UsersOf(x, e.anode) = {}
        BY <3>1
      <4>  DEFINE a == e.anode
      <4>  HIDE DEF a
      <4>2. UsersOf(x, a) = {} => \A h \in Handles : x.le[h] # Closed => x.le[h].anode # a
        BY Zenon DEF UsersOf, Opened
      <4>3. QED
        BY <4>1, <4>2 DEF a
    <3>2. CASE e.kind # "file"
      <4>1. ASSUME NEW h \in Handles, x.le[h] # Closed, x.le[h].anode = e.anode PROVE FALSE
        <5>1. At(x.dir, x.le[h].at) /\ EntryOf(x.dir, x.le[h].at).anode = e.anode
              /\ EntryOf(x.dir, x.le[h].at).name = Last(name[h]) /\ Last(name[h]) \notin Folders
          BY SMTT(60), <1>1, <4>1, RefIs DEF Leads, EntryOf
        <5>2. EntryOf(x.dir, x.le[h].at).kind # "dir"
          <6>1. DirsOK(x.dir, x.used) /\ EntryOf(x.dir, x.le[h].at).name \notin Folders
            BY ONLY <1>1, <5>1
          <6>2. QED
            BY ONLY <6>1, <5>1, NotFolder
        <5>3. SameSpot(x.le[h].at, at)
          BY <4>1, OneSpot DEF Opened
        <5>4. e.kind # "dir"
          BY <5>2, <5>3 DEF SameSpot, EntryOf
        <5>5. QED
          BY SMTT(60), <1>2, <3>2, <5>4 DEF DirEntry
      <4>2. QED
        BY <4>1
    <3>3. QED
      BY <3>1, <3>2
  <2>4. /\ RefsOK(E, L, name) /\ L \in [Handles -> {Closed} \cup OpenFileEntry]
        /\ \A h \in Handles : /\ L[h] # Closed <=> x.le[h] # Closed
                              /\ x.le[h] # Closed => L[h].anode = x.le[h].anode
    <3>  HIDE DEF E
    <3>  QED BY <1>1, <2>1, <2>2, <2>3, RefsRemoved
  <2>  HIDE DEF E, U, L, r
  <2>5. PICK a \in Nat : r.g = [dir |-> E, used |-> U, le |-> L, locks |-> x.locks, avail |-> a]
    BY <1>4
  <2>6. /\ r.g.dir = E /\ r.g.used = U /\ r.g.le = L /\ r.g.locks = x.locks /\ r.g.avail = a
        /\ r.g = [dir |-> r.g.dir, used |-> r.g.used, le |-> r.g.le, locks |-> r.g.locks, avail |-> r.g.avail]
    BY <2>5
  <2>7. Sound(r.g, name)
    BY <1>1, <2>2, <2>4, <2>6 DEF Sound, Volume
  <2>8. DeleteEnds(r, x, at)
    <3>1. r.error = "eOK"
      BY <1>4
    <3>2. QED
      BY <2>2, <2>4, <2>6, <3>1 DEF DeleteEnds, L
  <2>9. QED
    BY <2>7, <2>8 DEF r
<1>5. CASE e.kind = "dir" /\ x.dir[e.anode] # <<>>
  <2>1. r = [g |-> x, error |-> "eNotEmpty"]
    BY <1>2, <1>5 DEF DeleteObject, Fail, Result
  <2>2. QED
    BY <1>3, <2>1
<1>6. CASE e.kind = "dir" /\ x.dir[e.anode] = <<>>
  <2>  DEFINE y == DirGone(x, e.anode)
              z == RemoveDirEntry(y, at)
  <2>1. r.g = EntryRemoved(y, at) /\ r.error = "eOK"
    BY <1>2, <1>6 DEF DeleteObject, Result
  <2>2. Gone(e) = {e.anode}
    BY <1>6 DEF Gone
  <2>3. y = [dir |-> D, used |-> U, le |-> x.le, locks |-> x.locks, avail |-> x.avail]
    <3>  DEFINE b == e.anode
    <3>1. D = [d \in DOMAIN x.dir \ {b} |-> x.dir[d]] /\ U = x.used \ {b}
      BY <2>2 DEF Minus
    <3>  HIDE DEF b, D, U
    <3>2. y = [x EXCEPT !.dir = [d \in DOMAIN x.dir \ {b} |-> x.dir[d]], !.used = x.used \ {b}]
      BY <1>1 DEF DirGone, b
    <3>  HIDE DEF y
    <3>3. y = [x EXCEPT !.dir = D, !.used = U]
      BY <3>1, <3>2
    <3>4. QED
      BY <1>1, <3>3
  <2>4. at[1] # e.anode
    <3>1. x.dir[at[1]] # <<>>
      <4>1. Len(<<>>) = 0 /\ 1 .. 0 = {}
        OBVIOUS
      <4>2. QED
        BY <4>1 DEF At
    <3>2. QED
      BY <1>6, <3>1
  <2>5. D[at[1]] = x.dir[at[1]]
    BY <1>2, <2>2, <2>4 DEF Minus
  <2>6. z = [dir |-> E, used |-> U, le |-> x.le, locks |-> x.locks, avail |-> x.avail]
    <3>1. z = [y EXCEPT !.dir[at[1]] = RemoveAt(@, at[2])]
      BY <1>2, <2>3, <2>5 DEF RemoveDirEntry
    <3>  HIDE DEF y, z, D, U
    <3>2. QED
      BY <2>3, <3>1 DEF Without
  <2>7. EntryRemoved(y, at) = [z EXCEPT !.le = L]
    <3>1. z.le = x.le
      BY <2>6
    <3>  HIDE DEF z, L
    <3>2. UpdateChangedRef(z, at, NoPlace, TRUE) = [z EXCEPT !.le = AllMoved(z.le, at)]
      BY <1>1, <3>1, RefMovedIs
    <3>3. QED
      BY <3>1, <3>2 DEF EntryRemoved, z, L
  <2>8. r.g = [dir |-> E, used |-> U, le |-> L, locks |-> x.locks, avail |-> x.avail]
    <3>  HIDE DEF y, z, E, U, L, r
    <3>  QED BY <2>1, <2>6, <2>7
  <2>9. QED
    BY <1>1, <1>4, <1>6, <2>1, <2>8
<1>7. CASE e.kind # "dir"
  <2>  DEFINE z == RemoveDirEntry(x, at)
              a == x.avail + e.size
  <2>1. r.g = FileGone(EntryRemoved(x, at), e) /\ r.error = "eOK"
    BY <1>2, <1>7 DEF DeleteObject, Result
  <2>2. D = x.dir
    <3>1. Gone(e) = {}
      BY <1>7 DEF Gone
    <3>2. QED
      BY <1>1, <3>1 DEF Minus, Blocky
  <2>3. z = [dir |-> E, used |-> x.used, le |-> x.le, locks |-> x.locks, avail |-> x.avail]
    <3>1. z = [x EXCEPT !.dir[at[1]] = RemoveAt(@, at[2])]
      BY <1>2 DEF RemoveDirEntry
    <3>  HIDE DEF z, D
    <3>2. QED
      BY <1>1, <2>2, <3>1 DEF Without
  <2>4. EntryRemoved(x, at) = [z EXCEPT !.le = L]
    <3>1. z.le = x.le
      BY <2>3
    <3>  HIDE DEF z, L
    <3>2. UpdateChangedRef(z, at, NoPlace, TRUE) = [z EXCEPT !.le = AllMoved(z.le, at)]
      BY <1>1, <3>1, RefMovedIs
    <3>3. QED
      BY <3>1, <3>2 DEF EntryRemoved, z, L
  <2>5. EntryRemoved(x, at) = [dir |-> E, used |-> x.used, le |-> L, locks |-> x.locks, avail |-> x.avail]
    <3>  HIDE DEF z, E, U, L, r
    <3>  QED BY <2>3, <2>4
  <2>6. r.g = [dir |-> E, used |-> U, le |-> L, locks |-> x.locks, avail |-> a]
    <3>  DEFINE w == EntryRemoved(x, at)
    <3>1. FileGone(w, e) = [w EXCEPT !.used = @ \ {e.anode}, !.avail = @ + e.size]
      BY DEF FileGone
    <3>  HIDE DEF w, E, L, r, e
    <3>2. w = [dir |-> E, used |-> x.used, le |-> L, locks |-> x.locks, avail |-> x.avail] /\ r.g = FileGone(w, e)
      BY <2>1, <2>5 DEF w
    <3>3. QED
      BY <3>1, <3>2
  <2>7. a \in Nat
    BY <1>1, <1>2 DEF DirEntry
  <2>8. QED
    <3>  HIDE DEF E, U, L, r, a
    <3>  QED BY <1>4, <1>7, <2>1, <2>6, <2>7
<1>8. QED
  BY <1>5, <1>6, <1>7

\* A name that is not taken, or by the entry that gets it.
LEMMA PlaceInIs ==
  ASSUME NEW x, Blocky(x.dir), NEW d \in DOMAIN x.dir, NEW n, NEW from, PlaceIn(x, d, n) \in {NoPlace, from},
         \A i, j \in 1 .. Len(x.dir[d]) : x.dir[d][i].name = x.dir[d][j].name => i = j
  PROVE  \A i \in 1 .. Len(x.dir[d]) : x.dir[d][i].name = n => from[1] = d /\ from[2] = i
<1>  DEFINE k == Search(x, d, n)
<1>1. \/ k = 0 /\ \A i \in 1 .. Len(x.dir[d]) : x.dir[d][i].name # n
      \/ k \in 1 .. Len(x.dir[d]) /\ k # 0 /\ x.dir[d][k].name = n
  BY SearchIs
<1>2. PlaceIn(x, d, n) = IF k = 0 THEN NoPlace ELSE <<d, k>>
  BY DEF PlaceIn
<1>  HIDE DEF k
<1>3. CASE k # 0
  <2>1. <<d, k>> # NoPlace
    BY <1>3 DEF NoPlace
  <2>2. from = <<d, k>>
    BY <1>2, <1>3, <2>1
  <2>3. QED
    BY <1>1, <1>3, <2>2
<1>4. QED
  BY <1>1, <1>3

\* RenameAndMove: to a free name, and nobody has the file open or goes through
\* the directory.
RenameEnds(r, x) ==
  \A h \in Handles : r.g.le[h] # Closed => x.le[h] # Closed
LEMMA RenameAndMoveOK ==
  ASSUME NEW x, NEW name, Sound(x, name), NEW from \in Nat \X Nat, At(x.dir, from),
         NEW d \in DOMAIN x.dir, NEW n \in Names, EntryOf(x.dir, from).kind = "dir" <=> n \in Folders,
         EntryOf(x.dir, from).kind = "dir" => d = RootDir,
         \A h \in Handles : x.le[h] # Closed =>
           /\ x.le[h].anode # EntryOf(x.dir, from).anode
           /\ Len(name[h]) # 1 => x.le[h].at[1] # EntryOf(x.dir, from).anode
  PROVE  Sound(RenameAndMove(x, from, d, n).g, name) /\ RenameEnds(RenameAndMove(x, from, d, n), x)
<1>  DEFINE e == EntryOf(x.dir, from)
            f == [e EXCEPT !.name = n]
            r == RenameAndMove(x, from, d, n)
<1>1. /\ x = [dir |-> x.dir, used |-> x.used, le |-> x.le, locks |-> x.locks, avail |-> x.avail]
      /\ x.le \in [Handles -> {Closed} \cup OpenFileEntry] /\ x.locks \in SUBSET Anodes /\ x.avail \in Nat
      /\ DirsOK(x.dir, x.used) /\ RefsOK(x.dir, x.le, name) /\ Blocky(x.dir)
  BY DEF Sound, Volume, DirsOK
<1>2. EntryAt(x, from) = e /\ e \in DirEntry /\ from[1] \in DOMAIN x.dir /\ from[2] \in DOMAIN x.dir[from[1]]
  BY <1>1, EntryAtIs
<1>3. CASE PlaceIn(x, d, n) \notin {NoPlace, from}
  <2>1. r.g = x
    BY <1>3 DEF RenameAndMove, Fail, Result
  <2>2. QED
    BY <2>1 DEF RenameEnds
<1>4. CASE PlaceIn(x, d, n) \in {NoPlace, from}
  <2>1. r.g = ChangeDirEntry(x, from, d, f)
    BY <1>2, <1>4 DEF RenameAndMove, Result
  <2>2. \A i \in 1 .. Len(x.dir[d]) : x.dir[d][i].name = n => from[1] = d /\ from[2] = i
    <3>1. \A i, j \in 1 .. Len(x.dir[d]) : x.dir[d][i].name = x.dir[d][j].name => i = j
      BY <1>1 DEF DirsOK, Told
    <3>2. QED
      BY SMTT(60), <1>1, <1>4, <3>1, PlaceInIs
  <2>3. CASE from[1] = d
    <3>  DEFINE D == Put(x.dir, from, f)
    <3>1. r.g = [x EXCEPT !.dir[from[1]][from[2]] = f]
      BY <1>2, <2>1, <2>3 DEF ChangeDirEntry, RenameInPlace
    <3>2. r.g = [dir |-> D, used |-> x.used, le |-> x.le, locks |-> x.locks, avail |-> x.avail]
      <4>1. [x.dir EXCEPT ![from[1]][from[2]] = f] = D
        <5>  HIDE DEF f
        <5>  QED BY <1>1, <1>2 DEF Put, Blocky
      <4>  HIDE DEF f, r, D
      <4>2. r.g = [x EXCEPT !.dir = [x.dir EXCEPT ![from[1]][from[2]] = f]]
        BY <1>1, <3>1
      <4>3. QED
        BY <1>1, <4>1, <4>2
    <3>3. DirsOK(D, x.used) /\ RefsOK(D, x.le, name)
      <4>1. \A i \in 1 .. Len(x.dir[from[1]]) : x.dir[from[1]][i].name = n => i = from[2]
        BY <2>2, <2>3
      <4>2. QED
        BY <1>1, <4>1, RefsRenamed
    <3>  HIDE DEF D, r
    <3>4. /\ r.g.dir = D /\ r.g.used = x.used /\ r.g.le = x.le /\ r.g.locks = x.locks /\ r.g.avail = x.avail
          /\ r.g = [dir |-> r.g.dir, used |-> r.g.used, le |-> r.g.le, locks |-> r.g.locks, avail |-> r.g.avail]
      BY <3>2
    <3>5. Sound(r.g, name)
      BY <1>1, <3>3, <3>4 DEF Sound, Volume
    <3>6. QED
      BY <3>4, <3>5 DEF RenameEnds, r
  <2>4. CASE from[1] # d
    <3>  DEFINE y == RemoveDirEntry(x, from)
                z == AddDirectoryEntry(y, d, f)
                D == Without(Minus(x.dir, Gone(e)), from)
                E == With(D, d, f)
                L == AllMoved(x.le, from)
                U == x.used \ {e.anode}
    <3>1. r.g = UpdateChangedRef(z, from, Added(z, d), TRUE)
      BY <2>1, <2>4 DEF ChangeDirEntry, RenameAcrossDirs, Across
    <3>2. e.kind = "file"
      <4>1. e.kind = "dir" => from[1] = RootDir
        BY <1>1, <1>2 DEF DirsOK, Rooted, At, EntryOf
      <4>2. QED
        BY SMTT(60), <1>2, <2>4, <4>1 DEF DirEntry
    <3>3. Gone(e) = {} /\ Minus(x.dir, Gone(e)) = x.dir
      <4>1. Gone(e) = {}
        BY <3>2 DEF Gone
      <4>2. QED
        BY <1>1, <4>1 DEF Minus, Blocky
    <3>4. y = [dir |-> D, used |-> x.used, le |-> x.le, locks |-> x.locks, avail |-> x.avail]
      <4>1. y = [x EXCEPT !.dir[from[1]] = RemoveAt(@, from[2])]
        BY <1>2 DEF RemoveDirEntry
      <4>2. D = Without(x.dir, from)
        BY <3>3
      <4>  HIDE DEF y, D
      <4>3. QED
        BY <1>1, <4>1, <4>2 DEF Without
    <3>5. z = [dir |-> E, used |-> x.used, le |-> x.le, locks |-> x.locks, avail |-> x.avail]
      <4>  HIDE DEF y, D, f
      <4>1. z = [y EXCEPT !.dir[d] = Append(@, f)]
        BY DEF AddDirectoryEntry
      <4>2. QED
        BY <3>4, <4>1 DEF With
    <3>6. r.g = [dir |-> E, used |-> x.used, le |-> L, locks |-> x.locks, avail |-> x.avail]
      <4>1. \A h \in Handles : x.le[h] # Closed => x.le[h].at # from
        BY <1>1, RefIs
      <4>2. z.le = x.le
        BY <3>5
      <4>  DEFINE to == Added(z, d)
      <4>  HIDE DEF z, L, to, E, r
      <4>3. UpdateChangedRef(z, from, to, TRUE) = [z EXCEPT !.le = AllMoved(z.le, from)]
        <5>1. z.le \in [Handles -> {Closed} \cup OpenFileEntry]
              /\ \A h \in Handles : z.le[h] # Closed => z.le[h].at # from \/ to = NoPlace
          BY <1>1, <4>1, <4>2
        <5>2. QED
          BY ZenonT(60), <5>1, RefMovedIs
      <4>4. r.g = [z EXCEPT !.le = L]
        BY <3>1, <4>2, <4>3 DEF L, to
      <4>5. QED
        BY <3>5, <4>4
    <3>7. /\ DirsOK(D, U) /\ RemovedFrom(x.dir, D, from)
          /\ \A c \in Gone(e) : x.dir[c] = <<>>
      <4>1. \A c \in Gone(e) : x.dir[c] = <<>>
        BY <3>3
      <4>2. QED
        BY <1>1, <4>1, WithoutOK
    <3>8. RefsOK(D, L, name) /\ L \in [Handles -> {Closed} \cup OpenFileEntry]
          /\ \A h \in Handles : L[h] # Closed <=> x.le[h] # Closed
      <4>  HIDE DEF D
      <4>  QED BY <1>1, <3>7, RefsRemoved
    <3>9. d \in DOMAIN D /\ D[d] = x.dir[d]
      <4>  HIDE DEF D
      <4>  QED BY <2>4, <3>3, <3>7 DEF RemovedFrom
    <3>10. f \in DirEntry /\ f.anode = e.anode /\ f.kind = "file" /\ f.name = n
      <4>1. e \in DirEntry /\ e.kind = "file"
        BY <1>2, <3>2
      <4>  HIDE DEF e
      <4>2. QED
        BY <4>1 DEF DirEntry
    <3>11. \A i \in 1 .. Len(D[d]) : D[d][i].name # n
      BY <2>2, <2>4, <3>9
    <3>12. n \notin Folders
      BY <3>2
    <3>13. U \cup {f.anode} = x.used /\ f.anode \notin U
      <4>1. e.anode \in x.used
        BY <1>1, <1>2 DEF DirsOK, Told, At, EntryOf
      <4>2. QED
        BY SMTT(60), <3>10, <4>1
    <3>  HIDE DEF D, L, U, f, r, y, z
    <3>14. DirsOK(E, U \cup {f.anode}) /\ AddedTo(D, E, d, f)
      BY <3>7, <3>9, <3>10, <3>11, <3>12, <3>13, WithOK
    <3>  HIDE DEF E
    <3>15. RefsOK(E, L, name)
      BY <3>7, <3>8, <3>9, <3>14, RefsAdded
    <3>16. /\ r.g.dir = E /\ r.g.used = x.used /\ r.g.le = L /\ r.g.locks = x.locks /\ r.g.avail = x.avail
           /\ r.g = [dir |-> r.g.dir, used |-> r.g.used, le |-> r.g.le, locks |-> r.g.locks, avail |-> r.g.avail]
      BY <3>6
    <3>17. DirsOK(E, x.used)
      BY <3>13, <3>14
    <3>18. Sound(r.g, name)
      BY <1>1, <3>8, <3>15, <3>16, <3>17 DEF Sound, Volume
    <3>19. QED
      BY <3>8, <3>16, <3>18 DEF RenameEnds, r
  <2>5. QED
    BY <2>3, <2>4
<1>5. QED
  BY <1>3, <1>4

LEMMA DeletefileOK ==
  ASSUME NEW x, NEW name, Sound(x, name), NEW p \in Paths,
         EntryAt(x, Find(x, p)).kind = "file" => UsersOf(x, EntryAt(x, Find(x, p)).anode) = {}
  PROVE  /\ Sound(Deletefile(x, p).g, name)
         /\ Exists(x, p) => DeleteEnds(Deletefile(x, p), x, Find(x, p))
<1>1. CASE ~Exists(x, p)
  BY <1>1 DEF Deletefile, Fail, Result
<1>2. CASE Exists(x, p)
  <2>  DEFINE at == Find(x, p)
  <2>1. DirsOK(x.dir, x.used) /\ Blocky(x.dir)
    BY DEF Sound, DirsOK
  <2>2. Leads(x.dir, p, at) /\ at \in Nat \X Nat
    BY <1>2, <2>1, FindIs DEF Exists
  <2>3. At(x.dir, at)
    BY <2>2 DEF Leads, At
  <2>4. EntryAt(x, at) = EntryOf(x.dir, at)
    BY <2>1, <2>3, EntryAtIs
  <2>5. EntryOf(x.dir, at).kind = "file" => UsersOf(x, EntryOf(x.dir, at).anode) = {}
    BY <2>4
  <2>  HIDE DEF at
  <2>6. Sound(DeleteObject(x, at).g, name) /\ DeleteEnds(DeleteObject(x, at), x, at)
    BY <2>2, <2>3, <2>5, DeleteObjectOK
  <2>7. QED
    BY <1>2, <2>6 DEF Deletefile, at
<1>3. QED
  BY <1>1, <1>2

LEMMA RmDirOK ==
  ASSUME NEW x, NEW name, Sound(x, name), NEW p \in Paths
  PROVE  Sound(RmDir(x, p).g, name)
<1>1. CASE EntryAt(x, Find(x, p)).kind = "dir"
  <2>1. Blocky(x.dir)
    BY DEF Sound, DirsOK
  <2>2. Exists(x, p)
    BY <1>1, <2>1, NoEntry DEF Exists
  <2>3. EntryAt(x, Find(x, p)).kind # "file"
    BY <1>1
  <2>4. Sound(Deletefile(x, p).g, name)
    BY <2>3, DeletefileOK
  <2>5. QED
    BY <1>1, <2>2, <2>4 DEF RmDir, Deletefile
<1>2. CASE EntryAt(x, Find(x, p)).kind # "dir"
  BY <1>2 DEF RmDir, Fail, Result
<1>3. QED
  BY <1>1, <1>2

\* A target that stands before its source in one directory is not replaced,
\* and the source is still where it was found.
LEMMA MovefileOK ==
  ASSUME NEW x, NEW name, Sound(x, name), NEW p \in Paths, NEW q \in Paths, NEW replace \in BOOLEAN,
         Last(p) \in Folders <=> Last(q) \in Folders,
         UsersOf(x, EntryAt(x, Find(x, p)).anode) = {},
         replace => UsersOf(x, EntryAt(x, Find(x, q)).anode) = {},
         replace => \/ Find(x, q) = NoPlace \/ Find(x, q)[1] # Find(x, p)[1]
                    \/ Find(x, q)[2] > Find(x, p)[2],
         \A h \in Handles : Len(name[h]) = 2 => p # <<name[h][1]>>
  PROVE  /\ Sound(Movefile(x, p, q, replace).g, name)
         /\ RenameEnds(Movefile(x, p, q, replace), x)
<1>  DEFINE from == Find(x, p)
            to == Find(x, q)
            d == FolderOf(x, q)
            n == Last(q)
            r0 == IF replace /\ Exists(x, q) THEN Deletefile(x, q) ELSE Result(x, "eOK")
            z == r0.g
            e == EntryOf(x.dir, from)
            r == Movefile(x, p, q, replace)
<1>1. DirsOK(x.dir, x.used) /\ Blocky(x.dir) /\ RefsOK(x.dir, x.le, name)
  BY DEF Sound, DirsOK
<1>2. CASE r.g = x
  BY <1>2 DEF RenameEnds
<1>3. CASE Exists(x, p) /\ d # 0 /\ r0.error = "eOK" /\ r = RenameAndMove(z, from, d, n)
  <2>1. Leads(x.dir, p, from) /\ from \in Nat \X Nat
    BY <1>1, <1>3, FindIs DEF Exists
  <2>2. At(x.dir, from) /\ e.name = Last(p)
    BY <2>1 DEF Leads, At, EntryOf
  <2>3. EntryAt(x, from) = e /\ e \in DirEntry
    BY <1>1, <2>2, EntryAtIs
  <2>4. d \in DOMAIN x.dir /\ FolderAt(x.dir, q, d)
    BY <1>1, <1>3, FolderIs
  <2>5. /\ e.kind = "dir" <=> n \in Folders
        /\ e.kind = "dir" => d = RootDir /\ from[1] = RootDir
    <3>1. e.kind = "dir" <=> e.name \in Folders
      BY <1>1, <2>2 DEF DirsOK, Rooted, At, EntryOf
    <3>2. n \in Folders => Len(q) = 1
      BY PathIs
    <3>3. Len(q) = 1 => d = RootDir
      BY DEF FolderOf
    <3>4. e.kind = "dir" => from[1] = RootDir
      BY <1>1, <2>2 DEF DirsOK, Rooted, At, EntryOf
    <3>5. QED
      BY SMTT(60), <2>2, <3>1, <3>2, <3>3, <3>4
  <2>6. UsersOf(x, e.anode) = {}
    BY <2>3
  <2>7. /\ Sound(z, name) /\ At(z.dir, from) /\ EntryOf(z.dir, from) = e /\ d \in DOMAIN z.dir
        /\ \A h \in Handles : /\ z.le[h] # Closed <=> x.le[h] # Closed
                              /\ x.le[h] # Closed => z.le[h].anode = x.le[h].anode
    <3>1. CASE ~(replace /\ Exists(x, q))
      <4>1. z = x
        BY <3>1 DEF Result
      <4>2. QED
        BY <2>2, <2>4, <4>1
    <3>2. CASE replace /\ Exists(x, q)
      <4>  DEFINE t == EntryOf(x.dir, to)
      <4>1. r0 = Deletefile(x, q)
        BY <3>2
      <4>2. UsersOf(x, EntryAt(x, to).anode) = {}
        BY <3>2
      <4>3. Sound(z, name) /\ DeleteEnds(r0, x, to)
        BY SMTT(60), <3>2, <4>1, <4>2, DeletefileOK
      <4>4. /\ RemovedFrom(x.dir, z.dir, to)
            /\ \A h \in Handles : /\ z.le[h] # Closed <=> x.le[h] # Closed
                                  /\ x.le[h] # Closed => z.le[h].anode = x.le[h].anode
        BY <1>3, <4>3 DEF DeleteEnds
      <4>5. Leads(x.dir, q, to) /\ to \in Nat \X Nat /\ to # NoPlace
        BY <1>1, <3>2, FindIs DEF Exists
      <4>6. At(x.dir, to) /\ t.name = n
        BY <4>5 DEF Leads, At, EntryOf
      <4>7. to[1] # from[1] \/ to[2] > from[2]
        BY <3>2, <4>5
      <4>8. t.kind = "dir" => n \in Folders /\ to[1] = RootDir /\ t.anode # RootDir
        <5>1. t.kind = "dir" => n \in Folders /\ to[1] = RootDir
          BY <1>1, <4>6 DEF DirsOK, Rooted, At, EntryOf
        <5>2. t \in DirEntry
          BY <1>1, <4>6, EntryAtIs
        <5>3. QED
          BY SMTT(60), <5>1, <5>2, PfsNumbersAssumption DEF DirEntry, Anodes
      <4>9. from[1] \notin Gone(t) /\ to[1] \notin Gone(t) /\ d \notin Gone(t)
        BY <2>5, <4>8 DEF Gone
      <4>10. ~SameSpot(from, to) /\ Moved(from, to) = from
        BY <2>1, <4>5, <4>7 DEF SameSpot, Moved
      <4>  HIDE DEF t, z, r0, from, to, e, d
      <4>11. At(z.dir, Moved(from, to)) /\ EntryOf(z.dir, Moved(from, to)) = EntryOf(x.dir, from)
        BY <1>1, <2>2, <4>4, <4>6, <4>9, <4>10, MovedIs DEF t
      <4>12. d \in DOMAIN z.dir
        BY <2>4, <4>4, <4>9 DEF RemovedFrom, t
      <4>13. QED
        BY <4>3, <4>4, <4>10, <4>11, <4>12 DEF e
    <3>3. QED
      BY <3>1, <3>2
  <2>  HIDE DEF z, r0, from, to, e, d, n, r
  <2>8. ASSUME NEW h \in Handles, z.le[h] # Closed
        PROVE  /\ z.le[h].anode # EntryOf(z.dir, from).anode
               /\ Len(name[h]) # 1 => z.le[h].at[1] # EntryOf(z.dir, from).anode
    <3>1. x.le[h] # Closed /\ z.le[h].anode = x.le[h].anode
      BY <2>7, <2>8
    <3>2. z.le[h].anode # e.anode
      BY <2>6, <3>1 DEF UsersOf, Opened
    <3>3. ASSUME Len(name[h]) # 1, z.le[h].at[1] = e.anode PROVE FALSE
      <4>1. RefsOK(z.dir, z.le, name) /\ DirsOK(z.dir, z.used) /\ RootDir \in DOMAIN z.dir
        BY SMTT(60), <2>7 DEF Sound, DirsOK, Blocky
      <4>2. name[h] \in Paths /\ FolderAt(z.dir, name[h], z.le[h].at[1])
        BY <2>8, <4>1, RefIs DEF Leads
      <4>3. PICK i \in 1 .. Len(z.dir[RootDir]) : z.dir[RootDir][i].name = name[h][1] /\ z.dir[RootDir][i].anode = e.anode
        BY <3>3, <4>2 DEF FolderAt
      <4>4. EntryOf(z.dir, from).anode = e.anode /\ from[1] \in DOMAIN z.dir /\ from[2] \in 1 .. Len(z.dir[from[1]])
            /\ EntryOf(z.dir, from) = z.dir[from[1]][from[2]]
        BY SMTT(60), <2>7 DEF At, EntryOf
      <4>5. from[1] = RootDir /\ from[2] = i
        BY SMTT(60), <4>1, <4>3, <4>4 DEF DirsOK, Told
      <4>6. Last(p) = name[h][1]
        BY <2>2, <2>7, <4>3, <4>4, <4>5
      <4>7. Last(p) \in Folders /\ Len(name[h]) = 2
        BY <3>3, <4>2, <4>6, PathIs
      <4>8. p = <<Last(p)>>
        BY <4>7, PathIs
      <4>9. QED
        BY <4>6, <4>7, <4>8
    <3>4. QED
      BY <2>7, <3>2, <3>3
  <2>9. Sound(RenameAndMove(z, from, d, n).g, name) /\ RenameEnds(RenameAndMove(z, from, d, n), z)
    <3>1. n \in Names
      BY PathIs DEF n
    <3>2. EntryOf(z.dir, from).kind = "dir" <=> n \in Folders
      BY <2>5, <2>7
    <3>3. EntryOf(z.dir, from).kind = "dir" => d = RootDir
      BY <2>5, <2>7
    <3>4. QED
      BY <2>1, <2>7, <2>8, <3>1, <3>2, <3>3, RenameAndMoveOK
  <2>10. QED
    BY <1>3, <2>7, <2>9 DEF RenameEnds, r
<1>4. r.g = x \/ (Exists(x, p) /\ d # 0 /\ r0.error = "eOK" /\ r = RenameAndMove(z, from, d, n))
  <2>1. r = IF ~Exists(x, p) \/ d = 0 THEN Fail(x, "eNotFound")
            ELSE IF r0.error # "eOK" THEN r0 ELSE RenameAndMove(z, from, d, n)
    BY DEF Movefile
  <2>2. Fail(x, "eNotFound").g = x /\ Result(x, "eOK").error = "eOK"
    BY DEF Fail, Result
  <2>3. r0.error # "eOK" => z = x
    <3>1. CASE replace /\ Exists(x, q)
      <4>1. DeleteEnds(Deletefile(x, q), x, to)
        BY <3>1, DeletefileOK
      <4>2. QED
        BY <3>1, <4>1 DEF DeleteEnds
    <3>2. CASE ~(replace /\ Exists(x, q))
      BY <2>2, <3>2
    <3>3. QED
      BY <3>1, <3>2
  <2>  HIDE DEF r0, r, d, from
  <2>4. QED
    BY <2>1, <2>2, <2>3
<1>5. QED
  BY <1>2, <1>3, <1>4
-----------------------------------------------------------------------------
(***************************************************************************)
(* Every call keeps files and references in order.                          *)
(***************************************************************************)
LEMMA NamesOK ==
  ASSUME NEW x, NEW name, NEW name2, Sound(x, name),
         \A h \in Handles : x.le[h] # Closed => name2[h] = name[h]
  PROVE  Sound(x, name2)
  BY DEF Sound, RefsOK

LEMMA SetToSeqIs ==
  ASSUME NEW S, IsFiniteSet(S)
  PROVE  /\ SetToSeq(S) \in [1 .. Cardinality(S) -> S] /\ Cardinality(S) \in Nat
         /\ \A i, j \in 1 .. Cardinality(S) : SetToSeq(S)[i] = SetToSeq(S)[j] => i = j
<1>1. Cardinality(S) \in Nat /\ ExistsBijection(1 .. Cardinality(S), S)
  BY FS_CardinalityType
<1>2. \E f \in [1 .. Cardinality(S) -> S] : IsInjective(f)
  BY <1>1 DEF ExistsBijection, Bijection, Injection
<1>3. SetToSeq(S) \in [1 .. Cardinality(S) -> S] /\ IsInjective(SetToSeq(S))
  BY <1>2 DEF SetToSeq
<1>4. QED
  BY <1>1, <1>3 DEF IsInjective

LEMMA FormattedOK ==
  ASSUME NEW n \in Nat, n <= Cardinality(Anodes), NEW order \in [1 .. n -> Folders],
         \A i, j \in 1 .. n : order[i] = order[j] => i = j, NEW name
  PROVE  Sound(Formatted(order), name)
<1>  DEFINE A == {RootDir + i : i \in DOMAIN order}
            s == [i \in DOMAIN order |-> [name |-> order[i], anode |-> RootDir + i, kind |-> "dir", size |-> 0]]
            D == [d \in {RootDir} \cup A |-> IF d = RootDir THEN s ELSE <<>>]
            L == [h \in Handles |-> Closed]
            y == Formatted(order)
<1>1. RootDir \in Nat /\ RootDir # 0 /\ MaxAnode \in Nat /\ Room \in Nat /\ Folders \subseteq Names
  BY PfsNumbersAssumption, PfsNamesAssumption
<1>2. \A i \in 1 .. n : RootDir + i \in Anodes /\ RootDir + i # RootDir /\ i \in Nat
  <2>1. Cardinality(Anodes) = IF RootDir + 1 > MaxAnode THEN 0 ELSE MaxAnode - (RootDir + 1) + 1
    <3>1. RootDir + 1 \in Int /\ MaxAnode \in Int
      BY <1>1
    <3>2. QED
      BY <3>1, FS_Interval DEF Anodes
  <2>2. QED
    BY <1>1, <2>1 DEF Anodes
<1>3. DOMAIN order = 1 .. n /\ \A i \in 1 .. n : order[i] \in Folders /\ order[i] \in Names
  BY <1>1
<1>4. /\ s \in Seq(DirEntry) /\ Len(s) = n
      /\ \A i \in 1 .. n : s[i].name = order[i] /\ s[i].anode = RootDir + i /\ s[i].kind = "dir"
  <2>1. s = [i \in 1 .. n |-> [name |-> order[i], anode |-> RootDir + i, kind |-> "dir", size |-> 0]]
    BY <1>3
  <2>2. \A i \in 1 .. n : [name |-> order[i], anode |-> RootDir + i, kind |-> "dir", size |-> 0] \in DirEntry
    BY <1>2, <1>3 DEF DirEntry
  <2>  HIDE DEF s
  <2>3. \A i \in 1 .. n : s[i] \in DirEntry
    BY <2>1, <2>2
  <2>4. s \in Seq(DirEntry) /\ Len(s) = n
    BY <2>1, <2>2
  <2>5. QED
    BY <2>1, <2>4
<1>5. A = {RootDir + i : i \in 1 .. n} /\ A \in SUBSET Anodes /\ RootDir \notin A
  BY <1>2, <1>3
<1>6. /\ DOMAIN D = {RootDir} \cup A /\ D[RootDir] = s /\ \A d \in A : D[d] = <<>>
      /\ D = [d \in DOMAIN D |-> D[d]]
  BY <1>5
<1>7. y = [dir |-> D, used |-> A, le |-> L, locks |-> {}, avail |-> Room]
  BY DEF Formatted
<1>  HIDE DEF A, s, D, y
<1>8. \A d \in A : Len(D[d]) = 0 /\ 1 .. 0 = {}
  BY <1>6
<1>9. \A d \in DOMAIN D : \A i \in 1 .. Len(D[d]) : d = RootDir /\ i \in 1 .. n /\ D[d][i] = s[i]
  BY <1>4, <1>6, <1>8
<1>10. \A i, j \in 1 .. n : s[i].name = s[j].name \/ s[i].anode = s[j].anode => i = j
  BY <1>1, <1>2, <1>4
<1>11. Blocky(D)
  <2>1. <<>> \in Seq(DirEntry)
    OBVIOUS
  <2>2. \A d \in DOMAIN D : D[d] \in Seq(DirEntry)
    BY ZenonT(60), <1>4, <1>6, <2>1
  <2>3. DOMAIN D \subseteq Folder /\ RootDir \in DOMAIN D
    BY <1>5, <1>6 DEF Folder
  <2>4. QED
    BY <1>6, <2>2, <2>3 DEF Blocky
<1>12. Told(D, A)
  <2>1. \A d \in DOMAIN D : \A i \in 1 .. Len(D[d]) : D[d][i].anode \in A
    BY <1>4, <1>5, <1>9
  <2>2. \A a \in A : \E d \in DOMAIN D : \E i \in 1 .. Len(D[d]) : D[d][i].anode = a
    BY <1>4, <1>5, <1>6
  <2>3. QED
    BY SMTT(60), <1>9, <1>10, <2>1, <2>2 DEF Told
<1>13. Rooted(D)
  BY SMTT(60), <1>3, <1>4, <1>5, <1>6, <1>9 DEF Rooted
<1>14. RefsOK(D, L, name) /\ L \in [Handles -> {Closed} \cup OpenFileEntry]
  BY DEF RefsOK
<1>  HIDE DEF L
<1>15. /\ y.dir = D /\ y.used = A /\ y.le = L /\ y.locks = {} /\ y.avail = Room
       /\ y = [dir |-> y.dir, used |-> y.used, le |-> y.le, locks |-> y.locks, avail |-> y.avail]
  BY <1>7
<1>16. QED
  BY <1>1, <1>5, <1>11, <1>12, <1>13, <1>14, <1>15 DEF Sound, Volume, DirsOK, y

LEMMA FilesInit == Init => FilesInv
<1>  SUFFICES ASSUME Init PROVE FilesInv
  OBVIOUS
<1>1. PICK S \in SUBSET Folders :
        IsFiniteSet(S) /\ Cardinality(S) <= Cardinality(Anodes) /\ g = Formatted(SetToSeq(S))
  BY DEF Init
<1>  DEFINE n == Cardinality(S)
            order == SetToSeq(S)
<1>2. n \in Nat /\ order \in [1 .. n -> S] /\ \A i, j \in 1 .. n : order[i] = order[j] => i = j
  BY <1>1, SetToSeqIs
<1>3. n <= Cardinality(Anodes) /\ g = Formatted(order)
  BY <1>1
<1>  HIDE DEF n, order
<1>4. order \in [1 .. n -> Folders]
  BY <1>2
<1>5. Sound(g, path)
  BY <1>2, <1>3, <1>4, FormattedOK
<1>6. path \in [Handles -> Paths \cup {<<>>}]
  BY DEF Init
<1>7. QED
  BY <1>5, <1>6 DEF FilesInv

\* The actions, as long as nobody touches what somebody has open.
LEMMA CarefulIs ==
  ASSUME Considerate, NEW p, Careful(p)
  PROVE  UsersOf(g, EntryAt(g, Find(g, p)).anode) = {}
  BY DEF Careful, Considerate

LEMMA OpenFileStep ==
  ASSUME FilesInv, Considerate, NEW h \in Handles, NEW p \in Paths, NEW readOnly \in BOOLEAN,
         NEW disp \in DOMAIN Modes, OpenFile(h, p, readOnly, disp)
  PROVE  FilesInv'
<1>  DEFINE mode == Modes[disp]
            r == Createfile(g, h, p, mode, readOnly)
<1>1. /\ Sound(g, path) /\ path \in [Handles -> Paths \cup {<<>>}] /\ ~Opened(g, h) /\ Last(p) \notin Folders
      /\ g' = r.g
      /\ r.error = "eOK" => path' = [path EXCEPT ![h] = p]
      /\ r.error # "eOK" => path' = path
  BY DEF FilesInv, OpenFile, VolumeBecomes
<1>2. mode \in {"omCreateAlways", "omTruncateExisting"} => UsersOf(g, EntryAt(g, Find(g, p)).anode) = {}
  <2>1. mode \in {"omCreateAlways", "omTruncateExisting"} => disp \in {"CREATE_ALWAYS", "TRUNCATE_EXISTING"}
    BY DEF Modes
  <2>2. disp \in {"CREATE_ALWAYS", "TRUNCATE_EXISTING"} => Careful(p)
    BY DEF OpenFile
  <2>3. QED
    BY <2>1, <2>2, CarefulIs
<1>  HIDE DEF mode
<1>3. CreateEnds(r, h, p, path)
  BY <1>1, <1>2, CreatefileOK
<1>  HIDE DEF r
<1>4. Sound(g', path')
  BY <1>1, <1>3 DEF CreateEnds
<1>5. path' \in [Handles -> Paths \cup {<<>>}]
  BY <1>1
<1>6. QED
  BY <1>4, <1>5 DEF FilesInv

LEMMA MakeDirectoryStep ==
  ASSUME FilesInv, NEW p \in Paths, MakeDirectory(p)
  PROVE  FilesInv'
<1>1. /\ Sound(g, path) /\ path \in [Handles -> Paths \cup {<<>>}] /\ Last(p) \in Folders
      /\ g' = MkDir(g, p).g /\ path' = path
  BY DEF FilesInv, MakeDirectory, VolumeBecomes
<1>2. Sound(g', path')
  BY <1>1, MkDirOK DEF MkDirEnds
<1>3. QED
  BY <1>1, <1>2 DEF FilesInv

\* What Leaves leaves.
LEMMA LeavesIs ==
  ASSUME FilesInv, NEW r, Leaves(r), Sound(r.g, path)
  PROVE  FilesInv'
<1>1. g' = r.g /\ path' = path
  BY DEF Leaves, VolumeBecomes
<1>2. QED
  BY <1>1 DEF FilesInv

LEMMA DataStep ==
  ASSUME FilesInv, NEW h \in Handles, NEW ofs \in Ends, NEW n \in Ends, NEW paging \in BOOLEAN,
         \/ ReadFile(h, ofs, n) \/ WriteFile(h, ofs, n, paging) \/ AppendFile(h, n)
         \/ SetEndOfFile(h, ofs) \/ SetAllocationSize(h, ofs)
  PROVE  FilesInv'
<1>  DEFINE s == SeekUnlessThere(g, h, ofs)
<1>1. Sound(g, path) /\ Opened(g, h) /\ ofs \in Nat /\ n \in Nat
  BY PfsNumbersAssumption DEF FilesInv, ReadFile, WriteFile, AppendFile, SetEndOfFile, SetAllocationSize
<1>2. Sound(s.g, path) /\ Opened(s.g, h) /\ SizeOf(g, h) \in Nat
  BY <1>1, SeekOK, OpenIs
<1>  HIDE DEF s
<1>3. CASE ReadFile(h, ofs, n)
  <2>  DEFINE r == IF s.error = "eOK" THEN Readfile(s.g, h, n) ELSE s
  <2>1. Leaves(r)
    BY <1>3 DEF ReadFile, s
  <2>2. Sound(r.g, path)
    <3>1. Sound(Readfile(s.g, h, n).g, path)
      BY <1>1, <1>2, ReadOK
    <3>2. QED
      BY <1>2, <3>1
  <2>  HIDE DEF r
  <2>3. QED
    BY <2>1, <2>2, LeavesIs
<1>4. CASE WriteFile(h, ofs, n, paging)
  <2>  DEFINE m == IF paging THEN Min({n, SizeOf(g, h) - ofs}) ELSE n
              r == WriteAt(s, h, m)
  <2>1. Leaves(r)
    BY <1>4 DEF WriteFile, s
  <2>2. m \in Nat
    <3>1. CASE paging
      <4>1. SizeOf(g, h) - ofs \in Nat
        BY <1>1, <1>2, <1>4, <3>1 DEF WriteFile
      <4>2. QED
        BY <1>1, <3>1, <4>1, MinOfTwo
    <3>2. QED
      BY <1>1, <3>1
  <2>  HIDE DEF m
  <2>3. Sound(r.g, path)
    BY SMTT(60), <1>2, <2>2, WriteAtOK
  <2>  HIDE DEF r
  <2>4. QED
    BY <2>1, <2>3, LeavesIs
<1>5. CASE AppendFile(h, n)
  <2>  DEFINE t == Seekfile(g, h, SizeOf(g, h))
              r == WriteAt(t, h, n)
  <2>1. Leaves(r)
    BY <1>5 DEF AppendFile
  <2>2. Sound(t.g, path) /\ Opened(t.g, h)
    BY <1>1, <1>2, SeekOK
  <2>  HIDE DEF t
  <2>3. Sound(r.g, path)
    BY <1>1, <2>2, WriteAtOK
  <2>  HIDE DEF r
  <2>4. QED
    BY <2>1, <2>3, LeavesIs
<1>6. CASE SetEndOfFile(h, ofs)
  <2>  DEFINE r == TruncateAt(s, h)
  <2>1. Leaves(r)
    BY <1>6 DEF SetEndOfFile, s
  <2>2. Sound(r.g, path)
    BY <1>2, TruncateAtOK
  <2>  HIDE DEF r
  <2>3. QED
    BY <2>1, <2>2, LeavesIs
<1>7. CASE SetAllocationSize(h, ofs)
  <2>  DEFINE t == Seekfile(g, h, ofs)
              r == IF ofs < SizeOf(g, h) THEN TruncateAt(t, h) ELSE ChangefileSize(g, h, ofs)
  <2>1. Leaves(r)
    BY <1>7 DEF SetAllocationSize
  <2>2. Sound(t.g, path) /\ Opened(t.g, h)
    BY <1>1, SeekOK
  <2>  HIDE DEF t
  <2>3. Sound(TruncateAt(t, h).g, path) /\ Sound(ChangefileSize(g, h, ofs).g, path)
    BY <1>1, <2>2, TruncateAtOK, ChangefileSizeOK
  <2>4. Sound(r.g, path)
    BY <2>3
  <2>  HIDE DEF r
  <2>5. QED
    BY <2>1, <2>4, LeavesIs
<1>8. QED
  BY <1>3, <1>4, <1>5, <1>6, <1>7

LEMMA DeleteStep ==
  ASSUME FilesInv, Considerate, NEW p \in Paths, DeleteFile(p) \/ DeleteDirectory(p)
  PROVE  FilesInv'
<1>1. Sound(g, path)
  BY DEF FilesInv
<1>2. CASE DeleteFile(p)
  <2>1. UsersOf(g, EntryAt(g, Find(g, p)).anode) = {} /\ Leaves(Deletefile(g, p))
    BY <1>2, CarefulIs DEF DeleteFile
  <2>2. Sound(Deletefile(g, p).g, path)
    BY <1>1, <2>1, DeletefileOK
  <2>3. QED
    BY <2>1, <2>2, LeavesIs
<1>3. CASE DeleteDirectory(p)
  <2>1. Leaves(RmDir(g, p)) /\ Sound(RmDir(g, p).g, path)
    BY <1>1, <1>3, RmDirOK DEF DeleteDirectory
  <2>2. QED
    BY <2>1, LeavesIs
<1>4. QED
  BY <1>2, <1>3

LEMMA MoveFileStep ==
  ASSUME FilesInv, Considerate, NEW p \in Paths, NEW q \in Paths, NEW replace \in BOOLEAN, MoveFile(p, q, replace)
  PROVE  FilesInv'
<1>  DEFINE r == Movefile(g, p, q, replace)
            from == Find(g, p)
            to == Find(g, q)
<1>1. Sound(g, path) /\ path \in [Handles -> Paths \cup {<<>>}]
  BY DEF FilesInv
<1>2. /\ Last(p) \in Folders <=> Last(q) \in Folders
      /\ Careful(p) /\ (replace => Careful(q) /\ ReplacesBehind(p, q))
      /\ g' = r.g
      /\ path' = [h \in Handles |-> IF r.error = "eOK" /\ path[h] = p THEN q ELSE path[h]]
  BY DEF MoveFile, VolumeBecomes
<1>3. \A h \in Handles : Len(path[h]) = 2 => p # <<path[h][1]>>
  BY DEF MoveFile, Considerate
<1>4. UsersOf(g, EntryAt(g, from).anode) = {} /\ (replace => UsersOf(g, EntryAt(g, to).anode) = {})
  BY <1>2, CarefulIs
<1>5. replace => to = NoPlace \/ to[1] # from[1] \/ to[2] > from[2]
  BY <1>2 DEF ReplacesBehind, Considerate
<1>6. Sound(r.g, path) /\ RenameEnds(r, g)
  BY <1>1, <1>2, <1>3, <1>4, <1>5, MovefileOK
<1>7. \A h \in Handles : g.le[h] # Closed => path[h] # p
  <2>  SUFFICES ASSUME NEW h \in Handles, g.le[h] # Closed, path[h] = p PROVE FALSE
    OBVIOUS
  <2>1. from = g.le[h].at /\ EntryAt(g, from).anode = g.le[h].anode
    BY <1>1, OpenIs DEF Opened
  <2>2. h \in UsersOf(g, EntryAt(g, from).anode)
    BY <2>1 DEF UsersOf, Opened
  <2>3. QED
    BY <1>4, <2>2
<1>  HIDE DEF r
<1>8. \A h \in Handles : r.g.le[h] # Closed => path'[h] = path[h]
  BY <1>2, <1>6, <1>7 DEF RenameEnds
<1>9. Sound(g', path')
  <2>  DEFINE name2 == path'
  <2>1. \A h \in Handles : r.g.le[h] # Closed => name2[h] = path[h]
    BY <1>8
  <2>  HIDE DEF name2
  <2>2. Sound(r.g, name2)
    BY <1>6, <2>1, NamesOK
  <2>3. QED
    BY <1>2, <2>2 DEF name2
<1>10. path' \in [Handles -> Paths \cup {<<>>}]
  BY <1>1, <1>2
<1>11. QED
  BY <1>9, <1>10 DEF FilesInv

LEMMA CleanupStep ==
  ASSUME FilesInv, Considerate, NEW h \in Handles, NEW deleteOnClose \in BOOLEAN, Cleanup(h, deleteOnClose)
  PROVE  FilesInv'
<1>  DEFINE p == path[h]
            x == ClosedBy(h)
            name2 == [path EXCEPT ![h] = <<>>]
<1>1. /\ Sound(g, path) /\ path \in [Handles -> Paths \cup {<<>>}] /\ Opened(g, h)
      /\ path' = name2
      /\ \/ g' = x
         \/ deleteOnClose /\ g' = Deletefile(x, p).g
  BY DEF FilesInv, Cleanup, VolumeBecomes
<1>2. path' \in [Handles -> Paths \cup {<<>>}]
  BY <1>1
<1>3. Sound(x, name2)
  BY <1>1, ClosedOK DEF ClosedBy
<1>4. p \in Paths
  BY <1>1, OpenIs
<1>5. ASSUME deleteOnClose PROVE UsersOf(x, EntryAt(x, Find(x, p)).anode) = {}
  <2>1. UsersOf(g, g.le[h].anode) = {h}
    BY <1>5 DEF Cleanup, Considerate
  <2>2. Find(g, p) = g.le[h].at /\ EntryAt(g, g.le[h].at).anode = g.le[h].anode
    BY <1>1, OpenIs
  <2>3. x.dir = g.dir /\ x.le = [g.le EXCEPT ![h] = Closed] /\ g.le \in [Handles -> {Closed} \cup OpenFileEntry]
    BY <1>1 DEF ClosedBy, Sound, Volume
  <2>4. Find(x, p) = Find(g, p) /\ \A at : EntryAt(x, at) = EntryAt(g, at)
    <3>1. \A at : EntryAt(x, at) = EntryAt(g, at)
      BY <2>3 DEF EntryAt
    <3>2. \A d, n : Search(x, d, n) = Search(g, d, n)
      BY <2>3 DEF Search
    <3>3. FolderOf(x, p) = FolderOf(g, p)
      BY <3>1, <3>2 DEF FolderOf
    <3>4. QED
      BY <3>1, <3>2, <3>3 DEF Find, PlaceIn
  <2>5. UsersOf(x, g.le[h].anode) = {}
    BY <2>1, <2>3 DEF UsersOf, Opened
  <2>6. QED
    BY <2>2, <2>4, <2>5
<1>  HIDE DEF x, name2, p
<1>6. deleteOnClose => Sound(Deletefile(x, p).g, name2)
  BY <1>3, <1>4, <1>5, DeletefileOK
<1>7. QED
  BY <1>1, <1>2, <1>3, <1>6 DEF FilesInv

LEMMA FilesNext == FilesInv /\ Considerate /\ [Next]_vars => FilesInv'
<1>  SUFFICES ASSUME FilesInv, Considerate, [Next]_vars PROVE FilesInv'
  OBVIOUS
<1>1. CASE UNCHANGED vars
  BY <1>1 DEF vars, FilesInv
<1>2. ASSUME NEW p \in Paths, MakeDirectory(p) \/ DeleteFile(p) \/ DeleteDirectory(p)
      PROVE  FilesInv'
  BY <1>2, MakeDirectoryStep, DeleteStep
<1>3. ASSUME NEW p \in Paths, NEW q \in Paths, NEW replace \in BOOLEAN, MoveFile(p, q, replace)
      PROVE  FilesInv'
  BY <1>3, MoveFileStep
<1>4. ASSUME NEW h \in Handles, NEW p \in Paths, NEW readOnly \in BOOLEAN, NEW disp \in DOMAIN Modes,
             OpenFile(h, p, readOnly, disp)
      PROVE  FilesInv'
  BY <1>4, OpenFileStep
<1>5. ASSUME NEW h \in Handles, NEW ofs \in Ends, NEW n \in Ends,
             ReadFile(h, ofs, n) \/ (\E paging \in BOOLEAN : WriteFile(h, ofs, n, paging))
      PROVE  FilesInv'
  BY <1>5, DataStep
<1>6. ASSUME NEW h \in Handles, NEW n \in Ends, AppendFile(h, n) PROVE FilesInv'
  BY <1>6, DataStep
<1>7. ASSUME NEW h \in Handles, NEW ofs \in Ends, SetEndOfFile(h, ofs) \/ SetAllocationSize(h, ofs) PROVE FilesInv'
  BY <1>7, DataStep
<1>8. ASSUME NEW h \in Handles, NEW deleteOnClose \in BOOLEAN, Cleanup(h, deleteOnClose) PROVE FilesInv'
  BY <1>8, CleanupStep
<1>9. QED
  BY <1>1, <1>2, <1>3, <1>4, <1>5, <1>6, <1>7, <1>8 DEF Next
-----------------------------------------------------------------------------
(***************************************************************************)
(* What follows of it.                                                      *)
(***************************************************************************)
LEMMA FilesAlways ==
  ASSUME Considerate
  PROVE  Spec => []FilesInv
<1>1. Init => FilesInv
  BY FilesInit
<1>2. FilesInv /\ [Next]_vars => FilesInv'
  BY FilesNext
<1>3. QED
  BY <1>1, <1>2, PTL DEF Spec

LEMMA EntriesAre ==
  ASSUME Sound(g, path)
  PROVE  /\ \A at : At(g.dir, at) => EntryAt(g, at) = EntryOf(g.dir, at)
         /\ \A d \in DOMAIN g.dir : \A i \in 1 .. Len(g.dir[d]) :
              <<d, i>> \in Entries /\ EntryAt(g, <<d, i>>) = g.dir[d][i]
         /\ \A at \in Entries : /\ at = <<at[1], at[2]>> /\ At(g.dir, at)
                                /\ EntryAt(g, at) = g.dir[at[1]][at[2]]
<1>1. Blocky(g.dir)
  BY DEF Sound, DirsOK
<1>2. \A d \in DOMAIN g.dir : DOMAIN g.dir[d] = 1 .. Len(g.dir[d])
  BY <1>1, EntryIs
<1>3. \A at : At(g.dir, at) => EntryAt(g, at) = EntryOf(g.dir, at)
  BY <1>1, EntryAtIs
<1>4. \A at \in Entries : at = <<at[1], at[2]>> /\ At(g.dir, at)
  BY <1>2 DEF Entries, At
<1>5. ASSUME NEW d \in DOMAIN g.dir, NEW i \in 1 .. Len(g.dir[d])
      PROVE  <<d, i>> \in Entries /\ EntryAt(g, <<d, i>>) = g.dir[d][i]
  <2>1. <<d, i>> \in Entries
    BY <1>2 DEF Entries
  <2>2. At(g.dir, <<d, i>>) /\ EntryOf(g.dir, <<d, i>>) = g.dir[d][i]
    BY DEF At, EntryOf
  <2>3. QED
    BY <1>3, <2>1, <2>2
<1>6. \A at \in Entries : EntryAt(g, at) = g.dir[at[1]][at[2]]
  BY <1>3, <1>4 DEF EntryOf
<1>7. QED
  BY <1>3, <1>4, <1>5, <1>6

LEMMA OneEntryEachHolds == FilesInv => OneEntryEach
<1>  SUFFICES ASSUME FilesInv PROVE OneEntryEach
  OBVIOUS
<1>1. Sound(g, path) /\ Told(g.dir, g.used) /\ Rooted(g.dir) /\ Blocky(g.dir)
  BY DEF FilesInv, Sound, DirsOK
<1>2. /\ \A d \in DOMAIN g.dir : \A i \in 1 .. Len(g.dir[d]) :
           <<d, i>> \in Entries /\ EntryAt(g, <<d, i>>) = g.dir[d][i]
      /\ \A at \in Entries : /\ at = <<at[1], at[2]>> /\ at[1] \in DOMAIN g.dir /\ at[2] \in 1 .. Len(g.dir[at[1]])
                             /\ EntryAt(g, at) = g.dir[at[1]][at[2]]
  BY <1>1, EntriesAre DEF At
<1>3. {EntryAt(g, at).anode : at \in Entries} = g.used
  <2>1. \A at \in Entries : EntryAt(g, at).anode \in g.used
    BY SMTT(60), <1>1, <1>2 DEF Told
  <2>2. \A a \in g.used : \E at \in Entries : EntryAt(g, at).anode = a
    <3>  SUFFICES ASSUME NEW a \in g.used PROVE \E at \in Entries : EntryAt(g, at).anode = a
      OBVIOUS
    <3>1. PICK d \in DOMAIN g.dir : \E i \in 1 .. Len(g.dir[d]) : g.dir[d][i].anode = a
      BY <1>1 DEF Told
    <3>2. PICK i \in 1 .. Len(g.dir[d]) : g.dir[d][i].anode = a
      BY <3>1
    <3>3. <<d, i>> \in Entries /\ EntryAt(g, <<d, i>>).anode = a
      BY <1>2, <3>2
    <3>4. QED
      BY <3>3
  <2>3. QED
    BY <2>1, <2>2
<1>4. ASSUME NEW at \in Entries, NEW to \in Entries, EntryAt(g, at).anode = EntryAt(g, to).anode PROVE at = to
  <2>1. at[1] = to[1] /\ at[2] = to[2]
    BY SMTT(60), <1>1, <1>2, <1>4 DEF Told
  <2>2. at = <<at[1], at[2]>> /\ to = <<to[1], to[2]>>
    BY <1>2
  <2>3. QED
    BY <2>1, <2>2
<1>5. DOMAIN g.dir = {RootDir} \cup {EntryAt(g, at).anode : at \in {x \in Entries : EntryAt(g, x).kind = "dir"}}
  <2>1. ASSUME NEW at \in Entries, EntryAt(g, at).kind = "dir" PROVE EntryAt(g, at).anode \in DOMAIN g.dir
    BY <1>1, <1>2, <2>1 DEF Rooted
  <2>2. ASSUME NEW d \in DOMAIN g.dir \ {RootDir}
        PROVE  \E at \in Entries : EntryAt(g, at).kind = "dir" /\ EntryAt(g, at).anode = d
    <3>1. PICK i \in 1 .. Len(g.dir[RootDir]) : g.dir[RootDir][i].anode = d /\ g.dir[RootDir][i].kind = "dir"
      BY <1>1 DEF Rooted
    <3>2. RootDir \in DOMAIN g.dir
      BY <1>1 DEF Blocky
    <3>3. <<RootDir, i>> \in Entries /\ EntryAt(g, <<RootDir, i>>) = g.dir[RootDir][i]
      BY <1>2, <3>2
    <3>4. QED
      BY <3>1, <3>3
  <2>3. RootDir \in DOMAIN g.dir
    BY <1>1 DEF Blocky
  <2>4. QED
    BY <2>1, <2>2, <2>3
<1>6. \A d \in DOMAIN g.dir : \A i, j \in DOMAIN g.dir[d] : g.dir[d][i].name = g.dir[d][j].name => i = j
  <2>1. \A d \in DOMAIN g.dir : DOMAIN g.dir[d] = 1 .. Len(g.dir[d])
    BY <1>1, EntryIs
  <2>2. QED
    BY <1>1, <2>1 DEF Told
<1>7. QED
  BY <1>3, <1>4, <1>5, <1>6 DEF OneEntryEach

\* Every anode in use has one entry, every entry an anode of its own, and no two
\* entries of a directory have one name, whatever is made, deleted and renamed.
THEOREM EntriesGoWithAnodes ==
  ASSUME Considerate
  PROVE  Spec => []OneEntryEach
<1>1. FilesInv => OneEntryEach
  BY OneEntryEachHolds
<1>2. QED
  BY <1>1, FilesAlways, PTL

\* The address of an open file is that of its entry, and its path leads there,
\* although entries move when others are removed: UpdateChangedRef.
THEOREM AddressesStayRight ==
  ASSUME Considerate
  PROVE  Spec => []ReferencesCurrent
<1>1. FilesInv => ReferencesCurrent
  <2>  SUFFICES ASSUME FilesInv, NEW h \in Handles, Opened(g, h)
                PROVE  EntryAt(g, g.le[h].at).anode = g.le[h].anode /\ g.le[h].at = Find(g, path[h])
    BY DEF ReferencesCurrent
  <2>1. QED
    BY OpenIs DEF FilesInv
<1>2. QED
  BY <1>1, FilesAlways, PTL

\* Nobody's position is behind the end of the file.
THEOREM PositionsStayInside ==
  ASSUME Considerate
  PROVE  Spec => []OffsetsInside
<1>1. FilesInv => OffsetsInside
  <2>  SUFFICES ASSUME FilesInv, NEW h \in Handles, Opened(g, h)
                PROVE  g.le[h].offset <= SizeOf(g, h)
    BY DEF OffsetsInside
  <2>1. QED
    BY OpenIs DEF FilesInv
<1>2. QED
  BY <1>1, FilesAlways, PTL
-----------------------------------------------------------------------------
(***************************************************************************)
(* Who may write a file, whatever programs do: only AddListEntry gives a    *)
(* file to somebody, and it asks AccessConflict.                            *)
(***************************************************************************)
Has(e) == [open |-> e.open, anode |-> e.anode, at |-> e.at, exclusive |-> e.exclusive, offset |-> e.offset]
Shape(x) ==
  /\ x = [dir |-> x.dir, used |-> x.used, le |-> x.le, locks |-> x.locks, avail |-> x.avail]
  /\ x.le = [h \in Handles |-> x.le[h]]
  /\ \A h \in Handles : x.le[h] = Closed \/ (x.le[h] = Has(x.le[h]) /\ x.le[h].open # Closed.open)
Alone(x) ==
  \A h, k \in Handles : x.le[h] # Closed /\ x.le[k] # Closed /\ x.le[h].anode = x.le[k].anode /\ h # k
                          => ~x.le[h].exclusive
\* Nobody has got a file between x and y.
NoneGot(x, y) ==
  /\ Shape(y)
  /\ \A h \in Handles : y.le[h] # Closed =>
       x.le[h] # Closed /\ y.le[h].anode = x.le[h].anode /\ y.le[h].exclusive = x.le[h].exclusive

LEMMA NoneGotAlone ==
  ASSUME NEW x, NEW y, Alone(x), NoneGot(x, y)
  PROVE  Alone(y)
  BY DEF Alone, NoneGot

LEMMA NoneGotTwice ==
  ASSUME NEW x, NEW y, NEW z, NoneGot(x, y), NoneGot(y, z)
  PROVE  NoneGot(x, z)
  BY DEF NoneGot

\* ... nor has a directory come or gone.
Still(x, y) == y.locks = x.locks /\ DOMAIN y.dir = DOMAIN x.dir
Calm(x, y) == NoneGot(x, y) /\ Still(x, y)
\* ... or none has gone but a.
Left(x, y, a) == y.locks = x.locks /\ DOMAIN x.dir \ {a} \subseteq DOMAIN y.dir

LEMMA CalmTwice ==
  ASSUME NEW x, NEW y, NEW z, Calm(x, y), Calm(y, z)
  PROVE  Calm(x, z)
  BY NoneGotTwice DEF Calm, Still

LEMMA CalmIs ==
  ASSUME NEW x, NEW y, Calm(x, y)
  PROVE  NoneGot(x, y) /\ Shape(y) /\ Still(x, y) /\ \A a : Left(x, y, a)
  BY DEF Calm, NoneGot, Still, Left

\* Whatever leaves the list of open files alone.
Record(x) == x = [dir |-> x.dir, used |-> x.used, le |-> x.le, locks |-> x.locks, avail |-> x.avail]
SameList(x, y) == Record(y) /\ y.le = x.le /\ Still(x, y)

LEMMA ListKept ==
  ASSUME NEW x, Shape(x), NEW y, Record(y), y.le = x.le
  PROVE  NoneGot(x, y)
  BY DEF NoneGot, Shape, Record

LEMMA SameListIs ==
  ASSUME NEW x, Shape(x), NEW y, SameList(x, y)
  PROVE  Calm(x, y)
  BY ListKept DEF Calm, SameList, Still

LEMMA SetSizeAlone ==
  ASSUME NEW x, Record(x), NEW at, NEW size
  PROVE  SameList(x, SetSize(x, at, size))
<1>1. CASE IsFileAt(x, at)
  <2>  DEFINE y == [x EXCEPT !.dir[at[1]][at[2]].size = size]
              D == [x.dir EXCEPT ![at[1]][at[2]].size = size]
  <2>1. y = [dir |-> D, used |-> x.used, le |-> x.le, locks |-> x.locks, avail |-> x.avail]
    BY DEF Record
  <2>  HIDE DEF D
  <2>2. QED
    BY <1>1, <2>1 DEF SetSize, SameList, Still, Record
<1>2. CASE ~IsFileAt(x, at)
  BY <1>2 DEF SetSize, SameList, Still
<1>3. QED
  BY <1>1, <1>2

LEMMA AvailAlone ==
  ASSUME NEW x, Record(x), NEW a
  PROVE  SameList(x, [x EXCEPT !.avail = a])
<1>1. [x EXCEPT !.avail = a] = [dir |-> x.dir, used |-> x.used, le |-> x.le, locks |-> x.locks, avail |-> a]
  BY DEF Record
<1>2. QED
  BY <1>1 DEF SameList, Still, Record

LEMMA RemoveAlone ==
  ASSUME NEW x, Record(x), NEW at
  PROVE  SameList(x, RemoveDirEntry(x, at))
<1>1. CASE at[2] \in DOMAIN x.dir[at[1]]
  <2>  DEFINE D == [x.dir EXCEPT ![at[1]] = RemoveAt(@, at[2])]
  <2>1. RemoveDirEntry(x, at) = [dir |-> D, used |-> x.used, le |-> x.le, locks |-> x.locks, avail |-> x.avail]
    <3>1. RemoveDirEntry(x, at) = [x EXCEPT !.dir = D]
      BY <1>1 DEF RemoveDirEntry, Record
    <3>  HIDE DEF D
    <3>2. QED
      BY <3>1 DEF Record
  <2>2. DOMAIN D = DOMAIN x.dir
    OBVIOUS
  <2>  HIDE DEF D
  <2>3. QED
    BY <2>1, <2>2 DEF SameList, Still, Record
<1>2. CASE at[2] \notin DOMAIN x.dir[at[1]]
  BY <1>2 DEF RemoveDirEntry, SameList, Still
<1>3. QED
  BY <1>1, <1>2

LEMMA AddAlone ==
  ASSUME NEW x, Record(x), NEW d, NEW e
  PROVE  SameList(x, AddDirectoryEntry(x, d, e))
<1>  DEFINE D == [x.dir EXCEPT ![d] = Append(@, e)]
<1>1. AddDirectoryEntry(x, d, e) = [x EXCEPT !.dir = D]
  BY DEF AddDirectoryEntry, Record
<1>2. DOMAIN D = DOMAIN x.dir
  OBVIOUS
<1>  HIDE DEF D
<1>3. [x EXCEPT !.dir = D] = [dir |-> D, used |-> x.used, le |-> x.le, locks |-> x.locks, avail |-> x.avail]
  BY DEF Record
<1>4. QED
  BY <1>1, <1>2, <1>3 DEF SameList, Still, Record

LEMMA NewEntryAlone ==
  ASSUME NEW x, Record(x), NEW d, NEW n, NEW kind
  PROVE  SameList(x, NewEntry(x, d, n, kind))
<1>  DEFINE U == x.used \cup {AllocAnode(x)}
            y == [x EXCEPT !.used = U]
            e == [name |-> n, anode |-> AllocAnode(x), kind |-> kind, size |-> 0]
<1>1. NewEntry(x, d, n, kind) = AddDirectoryEntry(y, d, e)
  BY DEF NewEntry, Record
<1>  HIDE DEF U, e
<1>2. y = [dir |-> x.dir, used |-> U, le |-> x.le, locks |-> x.locks, avail |-> x.avail]
  BY DEF Record
<1>3. SameList(x, y)
  BY <1>2 DEF SameList, Still, Record
<1>  HIDE DEF y
<1>4. SameList(y, AddDirectoryEntry(y, d, e))
  BY <1>3, AddAlone DEF SameList, Still
<1>5. QED
  BY <1>1, <1>3, <1>4 DEF SameList, Still

\* One field of the entry of an open file.
LEMMA FieldIs ==
  ASSUME NEW e, e = Has(e), e.open # Closed.open, NEW f, NEW v,
         f = [e EXCEPT !.offset = v] \/ f = [e EXCEPT !.at = v]
  PROVE  f.anode = e.anode /\ f.exclusive = e.exclusive /\ f = Has(f) /\ f.open # Closed.open /\ f # Closed
<1>1. \/ f = [open |-> e.open, anode |-> e.anode, at |-> e.at, exclusive |-> e.exclusive, offset |-> v]
      \/ f = [open |-> e.open, anode |-> e.anode, at |-> v, exclusive |-> e.exclusive, offset |-> e.offset]
  BY DEF Has
<1>2. f.anode = e.anode /\ f.exclusive = e.exclusive /\ f.open = e.open /\ f = Has(f)
  BY <1>1 DEF Has
<1>3. QED
  BY <1>2

\* The list with such changes, and files closed.
Touched(e, f) ==
  \/ f = e \/ f = Closed
  \/ e # Closed /\ \E v : f = [e EXCEPT !.offset = v] \/ f = [e EXCEPT !.at = v]
LEMMA TouchedAlone ==
  ASSUME NEW x, Shape(x), NEW L, L = [h \in Handles |-> L[h]],
         \A h \in Handles : Touched(x.le[h], L[h])
  PROVE  Calm(x, [x EXCEPT !.le = L])
<1>  DEFINE y == [x EXCEPT !.le = L]
<1>1. y = [dir |-> x.dir, used |-> x.used, le |-> L, locks |-> x.locks, avail |-> x.avail]
  BY DEF Shape
<1>2. y.le = L /\ y = [dir |-> y.dir, used |-> y.used, le |-> y.le, locks |-> y.locks, avail |-> y.avail]
  BY <1>1
<1>  HIDE DEF y
<1>3. ASSUME NEW h \in Handles
      PROVE  \/ L[h] = Closed
             \/ /\ x.le[h] # Closed /\ L[h].anode = x.le[h].anode /\ L[h].exclusive = x.le[h].exclusive
                /\ L[h] = Has(L[h]) /\ L[h].open # Closed.open
  <2>1. Touched(x.le[h], L[h])
    OBVIOUS
  <2>2. x.le[h] = Closed \/ (x.le[h] = Has(x.le[h]) /\ x.le[h].open # Closed.open)
    BY DEF Shape
  <2>3. CASE L[h] = x.le[h] \/ L[h] = Closed
    BY <2>2, <2>3
  <2>4. CASE x.le[h] # Closed /\ \E v : L[h] = [x.le[h] EXCEPT !.offset = v] \/ L[h] = [x.le[h] EXCEPT !.at = v]
    <3>1. PICK v : L[h] = [x.le[h] EXCEPT !.offset = v] \/ L[h] = [x.le[h] EXCEPT !.at = v]
      BY <2>4
    <3>  DEFINE e == x.le[h]
                f == L[h]
    <3>2. e = Has(e) /\ e.open # Closed.open /\ (f = [e EXCEPT !.offset = v] \/ f = [e EXCEPT !.at = v])
      BY <2>2, <2>4, <3>1
    <3>  HIDE DEF e, f
    <3>3. f.anode = e.anode /\ f.exclusive = e.exclusive /\ f = Has(f) /\ f.open # Closed.open
      BY <3>2, FieldIs
    <3>4. QED
      BY <2>4, <3>3 DEF e, f
  <2>5. QED
    BY <2>1, <2>3, <2>4 DEF Touched
<1>4. Shape(y)
  BY <1>2, <1>3 DEF Shape
<1>5. QED
  BY <1>1, <1>2, <1>3, <1>4 DEF Calm, Still, NoneGot, y

LEMMA ShapeIs ==
  ASSUME NEW x, Shape(x)
  PROVE  Record(x) /\ Calm(x, x) /\ x.le = [h \in Handles |-> x.le[h]]
  BY DEF Shape, Record, Calm, Still, NoneGot

LEMMA UpdateAlone ==
  ASSUME NEW x, Shape(x), NEW from, NEW to, NEW gone
  PROVE  Calm(x, UpdateChangedRef(x, from, to, gone))
<1>  DEFINE R(h) == RefMoved(x.le[h].at, from, to, gone)
            L == [h \in Handles |-> IF Opened(x, h) THEN [x.le[h] EXCEPT !.at = R(h)] ELSE Closed]
<1>1. UpdateChangedRef(x, from, to, gone) = [x EXCEPT !.le = L]
  BY DEF UpdateChangedRef
<1>2. \A h \in Handles : Touched(x.le[h], L[h])
  <2>  SUFFICES ASSUME NEW h \in Handles PROVE Touched(x.le[h], L[h])
    OBVIOUS
  <2>1. L[h] = IF Opened(x, h) THEN [x.le[h] EXCEPT !.at = R(h)] ELSE Closed
    OBVIOUS
  <2>  HIDE DEF L, R
  <2>2. QED
    BY <2>1 DEF Touched, Opened
<1>3. L = [h \in Handles |-> L[h]]
  OBVIOUS
<1>  HIDE DEF L
<1>4. QED
  BY <1>1, <1>2, <1>3, TouchedAlone

LEMMA CutAlone ==
  ASSUME NEW x, Shape(x), NEW a, NEW size
  PROVE  Calm(x, PositionsCut(x, a, size))
<1>  DEFINE M(h) == Min({x.le[h].offset, size})
            L == [h \in Handles |-> IF h \in UsersOf(x, a) THEN [x.le[h] EXCEPT !.offset = M(h)] ELSE x.le[h]]
<1>1. PositionsCut(x, a, size) = [x EXCEPT !.le = L]
  BY DEF PositionsCut
<1>2. \A h \in Handles : Touched(x.le[h], L[h])
  <2>  SUFFICES ASSUME NEW h \in Handles PROVE Touched(x.le[h], L[h])
    OBVIOUS
  <2>1. L[h] = IF h \in UsersOf(x, a) THEN [x.le[h] EXCEPT !.offset = M(h)] ELSE x.le[h]
    OBVIOUS
  <2>2. h \in UsersOf(x, a) => x.le[h] # Closed
    BY DEF UsersOf, Opened
  <2>  HIDE DEF L, M
  <2>3. QED
    BY <2>1, <2>2 DEF Touched
<1>3. L = [h \in Handles |-> L[h]]
  OBVIOUS
<1>  HIDE DEF L
<1>4. QED
  BY <1>1, <1>2, <1>3, TouchedAlone

LEMMA OffsetAlone ==
  ASSUME NEW x, Shape(x), NEW h \in Handles, Opened(x, h), NEW v
  PROVE  Calm(x, [x EXCEPT !.le[h].offset = v])
<1>  DEFINE f == [x.le[h] EXCEPT !.offset = v]
            L == [k \in Handles |-> IF k = h THEN f ELSE x.le[k]]
<1>1. [x EXCEPT !.le[h].offset = v] = [x EXCEPT !.le = [x.le EXCEPT ![h] = f]]
  BY ShapeIs DEF Record
<1>2. [x.le EXCEPT ![h] = f] = L
  <2>  HIDE DEF f
  <2>1. DOMAIN x.le = Handles
    BY ShapeIs
  <2>2. QED
    BY <2>1
<1>3. \A k \in Handles : Touched(x.le[k], L[k])
  <2>  SUFFICES ASSUME NEW k \in Handles PROVE Touched(x.le[k], L[k])
    OBVIOUS
  <2>1. CASE k = h
    <3>1. L[k] = f
      BY <2>1
    <3>  HIDE DEF L
    <3>2. QED
      BY <2>1, <3>1 DEF Touched, Opened
  <2>2. CASE k # h
    BY <2>2 DEF Touched
  <2>3. QED
    BY <2>1, <2>2
<1>4. L = [k \in Handles |-> L[k]]
  OBVIOUS
<1>  HIDE DEF L, f
<1>5. Calm(x, [x EXCEPT !.le = L])
  BY <1>3, <1>4, TouchedAlone
<1>6. QED
  BY <1>1, <1>2, <1>5

LEMMA CloseAlone ==
  ASSUME NEW x, Shape(x), NEW h \in Handles
  PROVE  Calm(x, [x EXCEPT !.le[h] = Closed])
<1>  DEFINE L == [k \in Handles |-> IF k = h THEN Closed ELSE x.le[k]]
<1>1. [x EXCEPT !.le[h] = Closed] = [x EXCEPT !.le = [x.le EXCEPT ![h] = Closed]]
  BY ShapeIs DEF Record
<1>2. [x.le EXCEPT ![h] = Closed] = L
  <2>1. DOMAIN x.le = Handles
    BY ShapeIs
  <2>2. QED
    BY <2>1
<1>3. \A k \in Handles : Touched(x.le[k], L[k])
  BY DEF Touched
<1>4. L = [k \in Handles |-> L[k]]
  OBVIOUS
<1>  HIDE DEF L
<1>5. Calm(x, [x EXCEPT !.le = L])
  BY <1>3, <1>4, TouchedAlone
<1>6. QED
  BY <1>1, <1>2, <1>5

LEMMA SameThen ==
  ASSUME NEW x, Shape(x), NEW y, SameList(x, y)
  PROVE  Shape(y) /\ Record(y) /\ Calm(x, y) /\ \A h \in Handles : y.le[h] = x.le[h]
<1>1. Calm(x, y)
  BY SameListIs
<1>2. QED
  BY <1>1 DEF Calm, NoneGot, SameList, Still

\* What the calls of the library do to the list: those on directories.
LEMMA EntryRemovedAlone ==
  ASSUME NEW x, Shape(x), NEW at
  PROVE  Calm(x, EntryRemoved(x, at))
<1>  DEFINE y == RemoveDirEntry(x, at)
<1>1. Shape(y) /\ Calm(x, y)
  BY RemoveAlone, SameThen, ShapeIs
<1>  HIDE DEF y
<1>2. Calm(y, UpdateChangedRef(y, at, NoPlace, TRUE))
  BY <1>1, UpdateAlone
<1>3. QED
  BY <1>1, <1>2, CalmTwice DEF EntryRemoved, y

LEMMA DirGoneAlone ==
  ASSUME NEW x, Shape(x), NEW a
  PROVE  Shape(DirGone(x, a)) /\ NoneGot(x, DirGone(x, a)) /\ Left(x, DirGone(x, a), a)
<1>  DEFINE D == [d \in DOMAIN x.dir \ {a} |-> x.dir[d]]
            U == x.used \ {a}
            y == DirGone(x, a)
<1>0. DOMAIN D = DOMAIN x.dir \ {a}
  OBVIOUS
<1>1. y = [x EXCEPT !.dir = D, !.used = U]
  BY DEF DirGone
<1>2. x = [dir |-> x.dir, used |-> x.used, le |-> x.le, locks |-> x.locks, avail |-> x.avail]
  BY DEF Shape
<1>  HIDE DEF D, U, y
<1>3. y = [dir |-> D, used |-> U, le |-> x.le, locks |-> x.locks, avail |-> x.avail]
  BY <1>1, <1>2
<1>4. NoneGot(x, y)
  BY <1>3, ListKept DEF Record
<1>5. Left(x, y, a)
  BY <1>0, <1>3 DEF Left
<1>6. QED
  BY <1>4, <1>5 DEF NoneGot, y

LEMMA FileGoneAlone ==
  ASSUME NEW x, Shape(x), NEW e
  PROVE  Shape(FileGone(x, e)) /\ Calm(x, FileGone(x, e))
<1>  DEFINE a == x.avail + e.size
            U == x.used \ {e.anode}
            y == FileGone(x, e)
<1>1. y = [x EXCEPT !.used = U, !.avail = a]
  BY DEF FileGone
<1>2. x = [dir |-> x.dir, used |-> x.used, le |-> x.le, locks |-> x.locks, avail |-> x.avail]
  BY DEF Shape
<1>  HIDE DEF a, U, y
<1>3. y = [dir |-> x.dir, used |-> U, le |-> x.le, locks |-> x.locks, avail |-> a]
  BY <1>1, <1>2
<1>4. SameList(x, y)
  BY <1>3 DEF SameList, Still, Record
<1>5. QED
  BY <1>4, SameThen DEF y

LEMMA DeleteObjectAlone ==
  ASSUME NEW x, Shape(x), NEW at
  PROVE  NoneGot(x, DeleteObject(x, at).g) /\ Left(x, DeleteObject(x, at).g, EntryAt(x, at).anode)
<1>  DEFINE e == EntryAt(x, at)
            b == e.anode
            y == DirGone(x, b)
            z == EntryRemoved(x, at)
            Fine(w) == NoneGot(x, w) /\ Left(x, w, b)
<1>1. Fine(x)
  BY ShapeIs, CalmIs
<1>2. Fine(EntryRemoved(y, at))
  <2>1. Shape(y) /\ NoneGot(x, y) /\ Left(x, y, b)
    BY DirGoneAlone
  <2>  HIDE DEF y, b
  <2>2. Calm(y, EntryRemoved(y, at))
    BY <2>1, EntryRemovedAlone
  <2>3. NoneGot(x, EntryRemoved(y, at))
    BY <2>1, <2>2, NoneGotTwice DEF Calm
  <2>4. Left(x, EntryRemoved(y, at), b)
    BY <2>1, <2>2 DEF Calm, Still, Left
  <2>5. QED
    BY <2>3, <2>4
<1>3. Fine(FileGone(z, e))
  <2>1. Shape(z) /\ Calm(x, z)
    BY EntryRemovedAlone, CalmIs
  <2>  HIDE DEF z, e
  <2>2. Calm(z, FileGone(z, e))
    BY <2>1, FileGoneAlone
  <2>3. Calm(x, FileGone(z, e))
    BY <2>1, <2>2, CalmTwice
  <2>4. QED
    BY <2>3, CalmIs
<1>4. DeleteObject(x, at).g \in {x, EntryRemoved(y, at), FileGone(z, e)}
  BY DEF DeleteObject, Result, Fail
<1>5. Fine(DeleteObject(x, at).g)
  <2>  HIDE DEF Fine, y, z, e, b
  <2>1. QED
    BY <1>1, <1>2, <1>3, <1>4
<1>6. QED
  BY <1>5

LEMMA DeletefileAlone ==
  ASSUME NEW x, Shape(x), NEW p
  PROVE  /\ NoneGot(x, Deletefile(x, p).g) /\ Left(x, Deletefile(x, p).g, EntryAt(x, Find(x, p)).anode)
         /\ NoneGot(x, RmDir(x, p).g) /\ Left(x, RmDir(x, p).g, EntryAt(x, Find(x, p)).anode)
<1>  DEFINE at == Find(x, p)
            b == EntryAt(x, at).anode
            r == DeleteObject(x, at)
<1>1. NoneGot(x, r.g) /\ Left(x, r.g, b) /\ NoneGot(x, x) /\ Left(x, x, b)
  BY DeleteObjectAlone, ShapeIs, CalmIs
<1>2. Deletefile(x, p).g \in {r.g, x} /\ RmDir(x, p).g \in {r.g, x}
  BY DEF Deletefile, RmDir, Result, Fail
<1>  HIDE DEF r, b
<1>3. QED
  BY <1>1, <1>2 DEF b

LEMMA RenameInPlaceAlone ==
  ASSUME NEW x, Shape(x), NEW from, NEW e
  PROVE  Calm(x, RenameInPlace(x, from, e))
<1>1. CASE from[2] \in DOMAIN x.dir[from[1]]
  <2>  DEFINE D == [x.dir EXCEPT ![from[1]][from[2]] = e]
              y == [x EXCEPT !.dir[from[1]][from[2]] = e]
  <2>1. y = [dir |-> D, used |-> x.used, le |-> x.le, locks |-> x.locks, avail |-> x.avail]
    <3>1. Record(x)
      BY ShapeIs
    <3>2. QED
      BY <3>1 DEF Record
  <2>  HIDE DEF D
  <2>2. SameList(x, y)
    BY <2>1 DEF SameList, Still, Record
  <2>3. QED
    BY <1>1, <2>2, SameListIs DEF RenameInPlace
<1>2. CASE from[2] \notin DOMAIN x.dir[from[1]]
  <2>1. Calm(x, AddDirectoryEntry(x, from[1], e))
    BY AddAlone, SameListIs, ShapeIs
  <2>2. QED
    BY <1>2, <2>1 DEF RenameInPlace
<1>3. QED
  BY <1>1, <1>2

LEMMA RenameAcrossAlone ==
  ASSUME NEW x, Shape(x), NEW from, NEW d, NEW e
  PROVE  Calm(x, RenameAcrossDirs(x, from, d, e))
<1>  DEFINE y == RemoveDirEntry(x, from)
            z == AddDirectoryEntry(y, d, e)
            to == Added(z, d)
<1>1. Shape(y) /\ Record(y) /\ Calm(x, y)
  BY RemoveAlone, SameThen, ShapeIs
<1>2. Shape(z) /\ Calm(y, z)
  <2>  HIDE DEF y
  <2>1. SameList(y, AddDirectoryEntry(y, d, e))
    BY <1>1, AddAlone
  <2>2. QED
    BY <1>1, <2>1, SameThen
<1>3. RenameAcrossDirs(x, from, d, e) = UpdateChangedRef(z, from, to, TRUE)
  BY DEF RenameAcrossDirs, Across
<1>  HIDE DEF y, z, to
<1>4. Calm(z, UpdateChangedRef(z, from, to, TRUE))
  BY <1>2, UpdateAlone
<1>5. Calm(x, z)
  BY <1>1, <1>2, CalmTwice
<1>6. QED
  BY <1>3, <1>4, <1>5, CalmTwice

LEMMA RenameAndMoveAlone ==
  ASSUME NEW x, Shape(x), NEW from, NEW d, NEW n
  PROVE  Calm(x, RenameAndMove(x, from, d, n).g)
<1>  DEFINE e == [EntryAt(x, from) EXCEPT !.name = n]
<1>1. RenameAndMove(x, from, d, n).g \in {x, RenameInPlace(x, from, e), RenameAcrossDirs(x, from, d, e)}
  BY DEF RenameAndMove, ChangeDirEntry, Result, Fail
<1>  HIDE DEF e
<1>2. Calm(x, x)
  BY ShapeIs
<1>3. Calm(x, RenameInPlace(x, from, e))
  BY RenameInPlaceAlone
<1>4. Calm(x, RenameAcrossDirs(x, from, d, e))
  BY RenameAcrossAlone
<1>5. QED
  BY <1>1, <1>2, <1>3, <1>4

LEMMA MovefileAlone ==
  ASSUME NEW x, Shape(x), NEW p, NEW q, NEW replace
  PROVE  /\ NoneGot(x, Movefile(x, p, q, replace).g)
         /\ \/ Still(x, Movefile(x, p, q, replace).g)
            \/ replace /\ Left(x, Movefile(x, p, q, replace).g, EntryAt(x, Find(x, q)).anode)
<1>  DEFINE b == EntryAt(x, Find(x, q)).anode
            Fine(w) == NoneGot(x, w) /\ (Still(x, w) \/ (replace /\ Left(x, w, b)))
            r == IF replace /\ Exists(x, q) THEN Deletefile(x, q) ELSE Result(x, "eOK")
            s == RenameAndMove(r.g, Find(x, p), FolderOf(x, q), Last(q))
<1>1. Fine(x)
  BY ShapeIs, CalmIs
<1>2. Fine(r.g)
  <2>1. CASE replace /\ Exists(x, q)
    BY <2>1, DeletefileAlone
  <2>2. CASE ~(replace /\ Exists(x, q))
    BY <1>1, <2>2 DEF Result
  <2>3. QED
    BY <2>1, <2>2
<1>3. Movefile(x, p, q, replace) \in {Fail(x, "eNotFound"), r, s}
  BY DEF Movefile
<1>4. Shape(r.g)
  BY <1>2 DEF NoneGot
<1>  HIDE DEF r, b
<1>5. Calm(r.g, s.g)
  BY <1>4, RenameAndMoveAlone
<1>  HIDE DEF s
<1>6. NoneGot(x, s.g)
  BY <1>2, <1>5, NoneGotTwice DEF Calm
<1>7. Still(x, s.g) \/ (replace /\ Left(x, s.g, b))
  BY <1>2, <1>5 DEF Calm, Still, Left
<1>8. Fine(Fail(x, "eNotFound").g)
  BY <1>1 DEF Fail, Result
<1>9. Fine(Movefile(x, p, q, replace).g)
  <2>1. Fine(s.g)
    BY <1>6, <1>7
  <2>  HIDE DEF Fine
  <2>2. QED
    BY <1>2, <1>3, <1>8, <2>1
<1>10. QED
  BY <1>9 DEF b

\* ... and those on an open file, which stays open.
Stays(x, y, h) == Calm(x, y) /\ Opened(y, h)

LEMMA OffsetStays ==
  ASSUME NEW x, Shape(x), NEW h \in Handles, Opened(x, h), NEW v
  PROVE  Stays(x, [x EXCEPT !.le[h].offset = v], h)
<1>  DEFINE e == x.le[h]
            f == [e EXCEPT !.offset = v]
            y == [x EXCEPT !.le[h].offset = v]
<1>1. Calm(x, y)
  BY OffsetAlone
<1>2. y.le[h] = f
  <2>1. y = [x EXCEPT !.le = [x.le EXCEPT ![h] = f]]
    BY ShapeIs DEF Record
  <2>2. x = [dir |-> x.dir, used |-> x.used, le |-> x.le, locks |-> x.locks, avail |-> x.avail]
    BY DEF Shape
  <2>3. DOMAIN x.le = Handles
    BY ShapeIs
  <2>  HIDE DEF f, y
  <2>4. y.le = [x.le EXCEPT ![h] = f]
    BY <2>1, <2>2
  <2>5. QED
    BY <2>3, <2>4
<1>3. e = Has(e) /\ e.open # Closed.open
  BY DEF Shape, Opened
<1>  HIDE DEF e, y
<1>4. f # Closed
  BY <1>3, FieldIs
<1>5. Stays(x, y, h)
  BY <1>1, <1>2, <1>4 DEF Stays, Opened
<1>6. QED
  BY <1>5 DEF y

LEMMA SeekStays ==
  ASSUME NEW x, Shape(x), NEW h \in Handles, Opened(x, h), NEW ofs
  PROVE  Stays(x, Seekfile(x, h, ofs).g, h) /\ Stays(x, SeekUnlessThere(x, h, ofs).g, h)
<1>1. Stays(x, x, h)
  BY ShapeIs DEF Stays
<1>2. Stays(x, [x EXCEPT !.le[h].offset = ofs], h)
  BY OffsetStays
<1>3. QED
  BY <1>1, <1>2 DEF Seekfile, SeekUnlessThere, Fail, Result

LEMMA ReadStays ==
  ASSUME NEW x, Shape(x), NEW h \in Handles, Opened(x, h), NEW n
  PROVE  Stays(x, Readfile(x, h, n).g, h)
<1>  DEFINE v == Min({x.le[h].offset + n, SizeOf(x, h)})
<1>1. Readfile(x, h, n).g = [x EXCEPT !.le[h].offset = v]
  BY ShapeIs DEF Readfile, Result, Record
<1>  HIDE DEF v
<1>2. QED
  BY <1>1, OffsetStays

LEMMA ResizedAlone ==
  ASSUME NEW x, Shape(x), NEW h \in Handles, NEW size
  PROVE  Calm(x, Resized(x, h, size)) /\ Shape(Resized(x, h, size))
         /\ Resized(x, h, size).le[h] = x.le[h]
<1>  DEFINE a == (x.avail + SizeOf(x, h)) - size
            y == [x EXCEPT !.avail = a]
<1>1. SameList(x, y) /\ Record(y)
  BY AvailAlone, ShapeIs DEF SameList, Still
<1>2. Resized(x, h, size) = SetSize(y, x.le[h].at, size)
  BY ShapeIs DEF Resized, Record
<1>  HIDE DEF y
<1>3. SameList(y, SetSize(y, x.le[h].at, size))
  BY <1>1, SetSizeAlone
<1>4. SameList(x, Resized(x, h, size))
  BY <1>1, <1>2, <1>3 DEF SameList, Still
<1>5. QED
  BY <1>4, SameThen

LEMMA WriteStays ==
  ASSUME NEW x, Shape(x), NEW h \in Handles, Opened(x, h), NEW n
  PROVE  Calm(x, Writefile(x, h, n).g)
<1>  DEFINE end == x.le[h].offset + n
            y == Resized(x, h, Max({end, SizeOf(x, h)}))
            z == [y EXCEPT !.le[h].offset = end]
<1>1. Calm(x, x)
  BY ShapeIs
<1>2. Calm(x, y) /\ Shape(y) /\ Opened(y, h)
  BY ResizedAlone DEF Opened
<1>3. Writefile(x, h, n).g \in {x, z}
  BY DEF Writefile, Fail, Result
<1>  HIDE DEF y, end
<1>4. Calm(y, z)
  BY <1>2, OffsetAlone
<1>5. QED
  BY <1>1, <1>2, <1>3, <1>4, CalmTwice

LEMMA ChangefileSizeAlone ==
  ASSUME NEW x, Shape(x), NEW h \in Handles, NEW size
  PROVE  Calm(x, ChangefileSize(x, h, size).g)
<1>  DEFINE y == Resized(x, h, size)
            z == PositionsCut(y, x.le[h].anode, size)
<1>1. Calm(x, x)
  BY ShapeIs
<1>2. Calm(x, y) /\ Shape(y)
  BY ResizedAlone
<1>3. ChangefileSize(x, h, size).g \in {x, z}
  BY DEF ChangefileSize, Fail, Result
<1>  HIDE DEF y
<1>4. Calm(y, z)
  BY <1>2, CutAlone
<1>5. QED
  BY <1>1, <1>2, <1>3, <1>4, CalmTwice

LEMMA TruncateAlone ==
  ASSUME NEW x, Shape(x), NEW r, NEW h \in Handles, Calm(x, r.g)
  PROVE  Calm(x, TruncateAt(r, h).g)
<1>  DEFINE o == r.g.le[h].offset
<1>1. Shape(r.g)
  BY DEF Calm, NoneGot
<1>2. Calm(r.g, ChangefileSize(r.g, h, o).g)
  BY <1>1, ChangefileSizeAlone
<1>3. Calm(x, ChangefileSize(r.g, h, o).g)
  BY <1>2, CalmTwice
<1>4. TruncateAt(r, h) \in {r, ChangefileSize(r.g, h, o)}
  BY DEF TruncateAt
<1>5. QED
  BY <1>3, <1>4

\* AddListEntry: who gets a file to write gets it alone.
LEMMA AddListEntryAlone ==
  ASSUME NEW x, Shape(x), Alone(x), NEW h \in Handles, ~Opened(x, h), NEW at, NEW exclusive \in BOOLEAN
  PROVE  /\ Alone(AddListEntry(x, h, at, exclusive).g) /\ Shape(AddListEntry(x, h, at, exclusive).g)
         /\ Still(x, AddListEntry(x, h, at, exclusive).g)
<1>  DEFINE a == EntryAt(x, at).anode
            f == [open |-> TRUE, anode |-> a, at |-> at, exclusive |-> exclusive, offset |-> 0]
            L == [x.le EXCEPT ![h] = f]
            y == [x EXCEPT !.le[h] = f]
<1>1. CASE AccessConflict(x, a, exclusive)
  BY <1>1 DEF AddListEntry, Fail, Result, Still
<1>2. CASE ~AccessConflict(x, a, exclusive)
  <2>1. AddListEntry(x, h, at, exclusive).g = y
    BY <1>2 DEF AddListEntry, Result
  <2>2. \A k \in Handles : x.le[k] # Closed /\ x.le[k].anode = a => ~x.le[k].exclusive /\ ~exclusive
    BY <1>2 DEF AccessConflict, UsersOf, Opened
  <2>3. f.anode = a /\ f.exclusive = exclusive /\ f = Has(f) /\ f.open # Closed.open
    BY DEF Has, Closed
  <2>4. y = [x EXCEPT !.le = L]
    BY ShapeIs DEF Record
  <2>  HIDE DEF f, y, a
  <2>5. DOMAIN x.le = Handles /\ x.le = [k \in Handles |-> x.le[k]]
    BY ShapeIs
  <2>6. L = [k \in Handles |-> L[k]] /\ L[h] = f /\ \A k \in Handles : k # h => L[k] = x.le[k]
    BY <2>5
  <2>7. y = [dir |-> x.dir, used |-> x.used, le |-> L, locks |-> x.locks, avail |-> x.avail]
    <3>1. x = [dir |-> x.dir, used |-> x.used, le |-> x.le, locks |-> x.locks, avail |-> x.avail]
      BY DEF Shape
    <3>  HIDE DEF L
    <3>2. QED
      BY <2>4, <3>1
  <2>  HIDE DEF L
  <2>8. y.le = L /\ y = [dir |-> y.dir, used |-> y.used, le |-> y.le, locks |-> y.locks, avail |-> y.avail]
    BY <2>7
  <2>9. \A k \in Handles : L[k] = Closed \/ (L[k] = Has(L[k]) /\ L[k].open # Closed.open)
    <3>1. \A k \in Handles : x.le[k] = Closed \/ (x.le[k] = Has(x.le[k]) /\ x.le[k].open # Closed.open)
      BY DEF Shape
    <3>2. QED
      BY <2>3, <2>6, <3>1
  <2>10. Shape(y)
    BY <2>6, <2>8, <2>9 DEF Shape
  <2>11. Alone(y)
    <3>  SUFFICES ASSUME NEW j \in Handles, NEW k \in Handles, L[j] # Closed, L[k] # Closed, L[j].anode = L[k].anode, j # k
                  PROVE  ~L[j].exclusive
      BY <2>8 DEF Alone
    <3>1. CASE j = h
      BY <2>2, <2>3, <2>6, <3>1
    <3>2. CASE k = h
      BY <2>2, <2>3, <2>6, <3>2
    <3>3. CASE j # h /\ k # h
      BY <2>6, <3>3 DEF Alone
    <3>4. QED
      BY <3>1, <3>2, <3>3
  <2>12. Still(x, y)
    BY <2>7 DEF Still
  <2>13. QED
    BY <2>1, <2>10, <2>11, <2>12
<1>3. QED
  BY <1>1, <1>2

LEMMA CreatefileAlone ==
  ASSUME NEW x, Shape(x), Alone(x), NEW h \in Handles, ~Opened(x, h), NEW p, NEW mode, NEW readOnly \in BOOLEAN
  PROVE  /\ Alone(Createfile(x, h, p, mode, readOnly).g) /\ Shape(Createfile(x, h, p, mode, readOnly).g)
         /\ Still(x, Createfile(x, h, p, mode, readOnly).g)
<1>  DEFINE Fine(y) == Alone(y) /\ Shape(y) /\ Still(x, y)
            excl == ~readOnly
<1>1. ASSUME NEW y, SameList(x, y), NEW at PROVE Fine(AddListEntry(y, h, at, excl).g)
  <2>1. Shape(y) /\ NoneGot(x, y) /\ y.le[h] = x.le[h] /\ Still(x, y)
    BY <1>1, SameThen, CalmIs
  <2>2. Alone(y) /\ ~Opened(y, h)
    BY <2>1, NoneGotAlone DEF Opened
  <2>3. excl \in BOOLEAN
    OBVIOUS
  <2>  HIDE DEF excl
  <2>4. QED
    <3>1. Still(y, AddListEntry(y, h, at, excl).g) /\ Alone(AddListEntry(y, h, at, excl).g) /\ Shape(AddListEntry(y, h, at, excl).g)
      BY <2>1, <2>2, <2>3, AddListEntryAlone
    <3>2. QED
      BY <2>1, <3>1 DEF Still
<1>2. Fine(x) /\ SameList(x, x)
  BY ShapeIs, CalmIs DEF SameList, Still
<1>  HIDE DEF Fine, excl
<1>3. ASSUME NEW at PROVE Fine(CreatefileFound(x, h, at, mode, readOnly).g)
  <2>  DEFINE a == x.avail + EntryAt(x, at).size
              y == [x EXCEPT !.avail = a]
  <2>1. SameList(x, y)
    BY <1>2, AvailAlone DEF SameList, Still
  <2>2. NewFileFound(x, at) = SetSize(y, at, 0)
    BY ShapeIs DEF NewFileFound, Record
  <2>  HIDE DEF y
  <2>3. SameList(y, SetSize(y, at, 0))
    BY <2>1, SetSizeAlone DEF SameList, Still
  <2>4. SameList(x, NewFileFound(x, at))
    BY <2>1, <2>2, <2>3 DEF SameList, Still
  <2>5. Fine(AddListEntry(NewFileFound(x, at), h, at, excl).g) /\ Fine(AddListEntry(x, h, at, excl).g)
    BY <1>1, <1>2, <2>4
  <2>6. CreatefileFound(x, h, at, mode, readOnly).g
          \in {x, AddListEntry(NewFileFound(x, at), h, at, excl).g, AddListEntry(x, h, at, excl).g}
    BY DEF CreatefileFound, Fail, Result, excl
  <2>7. QED
    BY <1>2, <2>5, <2>6
<1>4. ASSUME NEW d, NEW n PROVE Fine(CreatefileNew(x, h, d, n, mode, readOnly).g)
  <2>  DEFINE y == NewEntry(x, d, n, "file")
              to == Added(y, d)
  <2>1. SameList(x, y)
    BY <1>2, NewEntryAlone DEF SameList, Still
  <2>2. Fine(AddListEntry(y, h, to, excl).g)
    BY <1>1, <2>1
  <2>3. CreatefileNew(x, h, d, n, mode, readOnly).g \in {x, AddListEntry(y, h, to, excl).g}
    BY DEF CreatefileNew, AddLast, Fail, Result, excl
  <2>4. QED
    BY <1>2, <2>2, <2>3
<1>5. Fine(Createfile(x, h, p, mode, readOnly).g)
  BY <1>3, <1>4 DEF Createfile
<1>6. QED
  BY <1>5 DEF Fine

LEMMA MkDirAlone ==
  ASSUME NEW x, Shape(x), NEW p
  PROVE  NoneGot(x, MkDir(x, p).g)
<1>1. ASSUME NEW d, NEW n, NEW a PROVE NoneGot(x, NewDirLocked(NewEntry(x, d, n, "dir"), d, a).g)
  <2>  DEFINE y == NewEntry(x, d, n, "dir")
              to == Added(y, d)
              z == RemoveDirEntry(y, to)
              U == z.used \ {a}
              K == y.locks \cup {a}
              D == [c \in DOMAIN y.dir \cup {a} |-> IF c = a THEN <<>> ELSE y.dir[c]]
  <2>  HIDE DEF y
  <2>1. SameList(x, y) /\ Record(y)
    <3>1. Record(x)
      BY ShapeIs
    <3>2. SameList(x, NewEntry(x, d, n, "dir"))
      BY <3>1, NewEntryAlone
    <3>3. QED
      BY <3>2 DEF SameList, Still, y
  <2>2. SameList(y, z)
    BY <2>1, RemoveAlone
  <2>3. NewDirLocked(y, d, a).g \in {[z EXCEPT !.used = U], [y EXCEPT !.locks = K, !.dir = D]}
    BY DEF NewDirLocked, Fail, Result
  <2>  HIDE DEF z, U, K, D
  <2>4. SameList(x, [z EXCEPT !.used = U])
    <3>  DEFINE w == [z EXCEPT !.used = U]
    <3>1. w = [dir |-> z.dir, used |-> U, le |-> z.le, locks |-> z.locks, avail |-> z.avail]
      BY <2>2 DEF SameList, Still, Record
    <3>  HIDE DEF w
    <3>2. SameList(x, w)
      BY <2>1, <2>2, <3>1 DEF SameList, Still, Record
    <3>3. QED
      BY <3>2 DEF w
  <2>5. NoneGot(x, [y EXCEPT !.locks = K, !.dir = D])
    <3>  DEFINE w == [y EXCEPT !.locks = K, !.dir = D]
    <3>1. w = [y EXCEPT !.locks = K, !.dir = D]
      OBVIOUS
    <3>2. y = [dir |-> y.dir, used |-> y.used, le |-> y.le, locks |-> y.locks, avail |-> y.avail]
      BY <2>1 DEF Record
    <3>  HIDE DEF w
    <3>3. w = [dir |-> D, used |-> y.used, le |-> y.le, locks |-> K, avail |-> y.avail]
      BY <3>1, <3>2
    <3>4. Record(w) /\ w.le = x.le
      BY <2>1, <3>3 DEF SameList, Record
    <3>5. NoneGot(x, w)
      BY <3>4, ListKept
    <3>6. QED
      BY <3>5 DEF w
  <2>6. QED
    <3>1. NoneGot(x, [z EXCEPT !.used = U])
      BY <2>4, SameListIs, CalmIs
    <3>2. QED
      BY <2>3, <2>5, <3>1 DEF y
<1>2. NoneGot(x, x)
  BY ShapeIs, CalmIs
<1>3. QED
  BY <1>1, <1>2 DEF MkDir, Fail, Result

\* The inductive invariant of this part, for any Allow.
AloneInv == Shape(g) /\ Alone(g)

LEMMA GotByNone ==
  ASSUME AloneInv, NEW y, NoneGot(g, y), g' = y
  PROVE  AloneInv'
<1>1. Shape(y) /\ Alone(y)
  BY NoneGotAlone DEF AloneInv, NoneGot
<1>2. Shape(g') /\ Alone(g')
  BY <1>1
<1>3. QED
  BY <1>2 DEF AloneInv, Shape, Alone

LEMMA AloneInit ==
  ASSUME Init
  PROVE  AloneInv
<1>1. PICK S \in SUBSET Folders : g = Formatted(SetToSeq(S))
  BY DEF Init
<1>  DEFINE L == [h \in Handles |-> Closed]
            D == Formatted(SetToSeq(S)).dir
            U == Formatted(SetToSeq(S)).used
<1>2. g = [dir |-> D, used |-> U, le |-> L, locks |-> {}, avail |-> Room]
  BY <1>1 DEF Formatted
<1>3. \A h \in Handles : L[h] = Closed
  OBVIOUS
<1>4. L = [h \in Handles |-> L[h]]
  OBVIOUS
<1>  HIDE DEF L, D, U
<1>5. g.le = L /\ g = [dir |-> g.dir, used |-> g.used, le |-> g.le, locks |-> g.locks, avail |-> g.avail]
  BY <1>2
<1>6. QED
  BY <1>3, <1>4, <1>5 DEF AloneInv, Shape, Alone

LEMMA FileCallsCalm ==
  ASSUME AloneInv, NEW h \in Handles, NEW ofs, NEW n, NEW size, NEW paging,
         \/ ReadFile(h, ofs, n) \/ WriteFile(h, ofs, n, paging) \/ AppendFile(h, n)
         \/ SetEndOfFile(h, ofs) \/ SetAllocationSize(h, size)
  PROVE  \E y : Calm(g, y) /\ g' = y
<1>1. Shape(g) /\ Opened(g, h)
  BY DEF AloneInv, ReadFile, WriteFile, AppendFile, SetEndOfFile, SetAllocationSize
<1>2. ASSUME NEW r, r \in {SeekUnlessThere(g, h, ofs), Seekfile(g, h, size), Seekfile(g, h, SizeOf(g, h))}
      PROVE  /\ Calm(g, r.g) /\ Calm(g, TruncateAt(r, h).g)
             /\ \A m : Calm(g, WriteAt(r, h, m).g)
             /\ \A m : Calm(g, Readfile(r.g, h, m).g)
  <2>1. Stays(g, r.g, h)
    BY <1>1, <1>2, SeekStays
  <2>2. Calm(g, r.g) /\ Opened(r.g, h) /\ Shape(r.g)
    BY <2>1 DEF Stays, Calm, NoneGot
  <2>3. Calm(g, TruncateAt(r, h).g)
    BY <1>1, <2>2, TruncateAlone
  <2>4. ASSUME NEW m PROVE Calm(g, WriteAt(r, h, m).g) /\ Calm(g, Readfile(r.g, h, m).g)
    <3>1. Calm(r.g, Writefile(r.g, h, m).g) /\ Calm(r.g, Readfile(r.g, h, m).g)
      BY <2>2, WriteStays, ReadStays DEF Stays
    <3>2. Calm(g, Writefile(r.g, h, m).g) /\ Calm(g, Readfile(r.g, h, m).g)
      BY <2>2, <3>1, CalmTwice
    <3>3. WriteAt(r, h, m) \in {Writefile(r.g, h, m), r}
      BY DEF WriteAt
    <3>4. QED
      BY <2>2, <3>2, <3>3
  <2>5. QED
    BY <2>2, <2>3, <2>4
<1>3. Calm(g, ChangefileSize(g, h, size).g)
  BY <1>1, ChangefileSizeAlone
<1>4. \E r : Calm(g, r.g) /\ g' = r.g
  <2>1. CASE ReadFile(h, ofs, n)
    <3>  DEFINE s == SeekUnlessThere(g, h, ofs)
    <3>1. g' = Readfile(s.g, h, n).g \/ g' = s.g
      BY <2>1 DEF ReadFile, Leaves, VolumeBecomes
    <3>2. Calm(g, s.g) /\ Calm(g, Readfile(s.g, h, n).g)
      BY <1>2
    <3>3. QED
      BY <3>1, <3>2
  <2>2. CASE WriteFile(h, ofs, n, paging)
    <3>  DEFINE s == SeekUnlessThere(g, h, ofs)
                m == IF paging THEN Min({n, SizeOf(g, h) - ofs}) ELSE n
    <3>1. g' = WriteAt(s, h, m).g
      BY <2>2 DEF WriteFile, Leaves, VolumeBecomes
    <3>2. Calm(g, WriteAt(s, h, m).g)
      BY <1>2
    <3>3. QED
      BY <3>1, <3>2
  <2>3. CASE AppendFile(h, n)
    <3>  DEFINE s == Seekfile(g, h, SizeOf(g, h))
    <3>1. g' = WriteAt(s, h, n).g
      BY <2>3 DEF AppendFile, Leaves, VolumeBecomes
    <3>2. Calm(g, WriteAt(s, h, n).g)
      BY <1>2
    <3>3. QED
      BY <3>1, <3>2
  <2>4. CASE SetEndOfFile(h, ofs)
    <3>  DEFINE s == SeekUnlessThere(g, h, ofs)
    <3>1. g' = TruncateAt(s, h).g
      BY <2>4 DEF SetEndOfFile, Leaves, VolumeBecomes
    <3>2. Calm(g, TruncateAt(s, h).g)
      BY <1>2
    <3>3. QED
      BY <3>1, <3>2
  <2>5. CASE SetAllocationSize(h, size)
    <3>  DEFINE s == Seekfile(g, h, size)
    <3>1. g' = TruncateAt(s, h).g \/ g' = ChangefileSize(g, h, size).g
      BY <2>5 DEF SetAllocationSize, Leaves, VolumeBecomes
    <3>2. Calm(g, TruncateAt(s, h).g)
      BY <1>2
    <3>3. QED
      BY <1>3, <3>1, <3>2
  <2>6. QED
    BY <2>1, <2>2, <2>3, <2>4, <2>5
<1>5. QED
  BY <1>4

LEMMA FileCallsAlone ==
  ASSUME AloneInv, NEW h \in Handles, NEW ofs, NEW n, NEW size, NEW paging,
         \/ ReadFile(h, ofs, n) \/ WriteFile(h, ofs, n, paging) \/ AppendFile(h, n)
         \/ SetEndOfFile(h, ofs) \/ SetAllocationSize(h, size)
  PROVE  AloneInv'
<1>1. PICK y : Calm(g, y) /\ g' = y
  BY FileCallsCalm
<1>2. QED
  BY <1>1, GotByNone, CalmIs

LEMMA OpenAlone ==
  ASSUME AloneInv, NEW h \in Handles, NEW p, NEW readOnly \in BOOLEAN, NEW disp, OpenFile(h, p, readOnly, disp)
  PROVE  AloneInv'
<1>  DEFINE mode == Modes[disp]
            y == Createfile(g, h, p, mode, readOnly).g
<1>1. ~Opened(g, h) /\ g' = y
  BY DEF OpenFile, VolumeBecomes
<1>2. Alone(y) /\ Shape(y)
  BY <1>1, CreatefileAlone DEF AloneInv
<1>3. Alone(g') /\ Shape(g')
  BY <1>1, <1>2
<1>4. QED
  BY <1>3 DEF AloneInv, Shape, Alone

LEMMA CleanupAlone ==
  ASSUME AloneInv, NEW h \in Handles, NEW deleteOnClose, Cleanup(h, deleteOnClose)
  PROVE  AloneInv'
<1>  DEFINE p == path[h]
            y == ClosedBy(h)
            z == Deletefile(y, p).g
<1>1. NoneGot(g, y) /\ Shape(y)
  BY CloseAlone, CalmIs DEF AloneInv, ClosedBy
<1>2. g' \in {y, z}
  BY DEF Cleanup, VolumeBecomes
<1>  HIDE DEF y
<1>3. NoneGot(y, z)
  BY <1>1, DeletefileAlone
<1>4. NoneGot(g, z)
  BY <1>1, <1>3, NoneGotTwice
<1>  HIDE DEF z
<1>5. QED
  BY <1>1, <1>2, <1>4, GotByNone

LEMMA AloneNext ==
  ASSUME AloneInv, [Next]_vars
  PROVE  AloneInv'
<1>1. Shape(g)
  BY DEF AloneInv
<1>2. ASSUME NEW p \in Paths, MakeDirectory(p) \/ DeleteFile(p) \/ DeleteDirectory(p) PROVE AloneInv'
  <2>1. g' \in {MkDir(g, p).g, Deletefile(g, p).g, RmDir(g, p).g}
    BY <1>2 DEF MakeDirectory, DeleteFile, DeleteDirectory, Leaves, VolumeBecomes
  <2>2. NoneGot(g, MkDir(g, p).g) /\ NoneGot(g, Deletefile(g, p).g) /\ NoneGot(g, RmDir(g, p).g)
    BY <1>1, MkDirAlone, DeletefileAlone
  <2>3. QED
    BY <2>1, <2>2, GotByNone
<1>3. ASSUME NEW p \in Paths, NEW q \in Paths, NEW replace \in BOOLEAN, MoveFile(p, q, replace) PROVE AloneInv'
  <2>1. g' = Movefile(g, p, q, replace).g
    BY <1>3 DEF MoveFile, VolumeBecomes
  <2>2. NoneGot(g, Movefile(g, p, q, replace).g)
    BY <1>1, MovefileAlone
  <2>3. QED
    BY <2>1, <2>2, GotByNone
<1>4. ASSUME NEW h \in Handles, NEW ofs \in Ends, NEW n \in Ends, NEW paging \in BOOLEAN,
             \/ ReadFile(h, ofs, n) \/ WriteFile(h, ofs, n, paging) \/ AppendFile(h, n)
             \/ SetEndOfFile(h, ofs) \/ SetAllocationSize(h, ofs)
      PROVE  AloneInv'
  BY <1>4, FileCallsAlone
<1>5. CASE UNCHANGED vars
  BY <1>5 DEF vars, AloneInv, Shape, Alone
<1>6. CASE \E p \in Paths :
             \/ MakeDirectory(p) \/ DeleteFile(p) \/ DeleteDirectory(p)
             \/ \E q \in Paths, replace \in BOOLEAN : MoveFile(p, q, replace)
  BY <1>2, <1>3, <1>6
<1>7. CASE \E h \in Handles, n \in Ends \ {0} : AppendFile(h, n)
  BY <1>4, <1>7
<1>8. CASE \E h \in Handles, ofs \in Ends : SetEndOfFile(h, ofs) \/ SetAllocationSize(h, ofs)
  BY <1>4, <1>8
<1>9. CASE \E h \in Handles, ofs \in Ends, n \in Ends \ {0} :
             ReadFile(h, ofs, n) \/ \E paging \in BOOLEAN : WriteFile(h, ofs, n, paging)
  BY <1>4, <1>9
<1>10. CASE \E h \in Handles, p \in Paths, readOnly \in BOOLEAN, disp \in DOMAIN Modes : OpenFile(h, p, readOnly, disp)
  BY <1>10, OpenAlone
<1>11. CASE \E h \in Handles, deleteOnClose \in BOOLEAN : Cleanup(h, deleteOnClose)
  BY <1>11, CleanupAlone
<1>12. QED
  BY <1>5, <1>6, <1>7, <1>8, <1>9, <1>10, <1>11 DEF Next

\* A file open for writing is open nowhere else, whatever programs do, although
\* m_inUse forgets the second of two readers: AddListEntry asks AccessConflict.
THEOREM WritersStayAlone ==
  Spec => []WritersAlone
<1>1. Init => AloneInv
  BY AloneInit
<1>2. AloneInv /\ [Next]_vars => AloneInv'
  BY AloneNext
<1>3. AloneInv => WritersAlone
  BY DEF AloneInv, Alone, WritersAlone, Opened
<1>4. QED
  BY <1>1, <1>2, <1>3, PTL DEF Spec
-----------------------------------------------------------------------------
(***************************************************************************)
(* NewDir's lock: as long as no directory made since mounting is removed,   *)
(* the locks in the list are of directories that are there, and the anode   *)
(* of a new one is not among them.                                          *)
(***************************************************************************)
LEMMA LocksLeft ==
  ASSUME LocksInv, NEW y, NEW a, Left(g, y, a), a \notin g.locks, g' = y
  PROVE  LocksInv'
<1>1. y.locks \subseteq DOMAIN y.dir \ {RootDir}
  BY DEF LocksInv, Left
<1>2. QED
  BY <1>1 DEF LocksInv

LEMMA LocksStill ==
  ASSUME LocksInv, NEW y, Still(g, y), g' = y
  PROVE  LocksInv'
<1>1. y.locks \subseteq DOMAIN y.dir \ {RootDir}
  BY DEF LocksInv, Still
<1>2. QED
  BY <1>1 DEF LocksInv

\* An open file is no directory.
LEMMA FileNotLocked ==
  ASSUME FilesInv, LocksInv, NEW h \in Handles, Opened(g, h)
  PROVE  g.le[h].anode \notin g.locks
<1>  DEFINE at == g.le[h].at
            a == g.le[h].anode
<1>1. /\ at \in Nat \X Nat /\ at[1] \in DOMAIN g.dir /\ at[2] \in 1 .. Len(g.dir[at[1]])
      /\ g.dir[at[1]][at[2]].anode = a
  BY SMTT(60), OpenIs DEF FilesInv, At, EntryOf
<1>2. g.dir[at[1]][at[2]].name \notin Folders
  BY SMTT(60), RefIs DEF FilesInv, Sound, Opened, Leads
<1>3. Told(g.dir, g.used) /\ Rooted(g.dir) /\ Blocky(g.dir)
  BY DEF FilesInv, Sound, DirsOK
<1>  HIDE DEF at, a
<1>4. ASSUME a \in g.locks PROVE FALSE
  <2>1. PICK i \in 1 .. Len(g.dir[RootDir]) : g.dir[RootDir][i].anode = a /\ g.dir[RootDir][i].kind = "dir"
    BY <1>3, <1>4 DEF LocksInv, Rooted
  <2>2. RootDir \in DOMAIN g.dir
    BY <1>3 DEF Blocky
  <2>3. at[1] = RootDir /\ at[2] = i
    BY SMTT(60), <1>1, <1>3, <2>1, <2>2 DEF Told
  <2>4. g.dir[RootDir][i].name \in Folders
    BY <1>3, <2>1, <2>2 DEF Rooted
  <2>5. QED
    BY <1>2, <2>3, <2>4
<1>5. QED
  BY SMTT(60), <1>4 DEF a

LEMMA LocksCleanup ==
  ASSUME FilesInv, AloneInv, LocksInv, NEW h \in Handles, NEW deleteOnClose, Cleanup(h, deleteOnClose)
  PROVE  LocksInv'
<1>  DEFINE p == path[h]
            x == ClosedBy(h)
            z == Deletefile(x, p).g
            b == EntryAt(x, Find(x, p)).anode
<1>1. Opened(g, h) /\ g' \in {x, z}
  BY DEF Cleanup, VolumeBecomes
<1>2. Shape(x) /\ Still(g, x)
  BY CloseAlone, CalmIs DEF AloneInv, ClosedBy
<1>3. Find(g, p) = g.le[h].at /\ EntryAt(g, g.le[h].at).anode = g.le[h].anode
  BY <1>1, OpenIs DEF FilesInv
<1>4. x.dir = g.dir
  BY DEF ClosedBy, AloneInv, Shape
<1>5. b = g.le[h].anode
  <2>  HIDE DEF x
  <2>1. \A at : EntryAt(x, at) = EntryAt(g, at)
    BY <1>4 DEF EntryAt
  <2>2. \A d, n : Search(x, d, n) = Search(g, d, n)
    BY <1>4 DEF Search
  <2>3. FolderOf(x, p) = FolderOf(g, p)
    BY <2>1, <2>2 DEF FolderOf
  <2>4. Find(x, p) = Find(g, p)
    BY <2>2, <2>3 DEF Find, PlaceIn
  <2>5. QED
    BY <1>3, <2>1, <2>4
<1>6. b \notin g.locks
  BY <1>1, <1>5, FileNotLocked
<1>  HIDE DEF x
<1>7. Left(x, z, b)
  BY <1>2, DeletefileAlone
<1>8. Left(g, z, b)
  BY <1>2, <1>7 DEF Left, Still
<1>  HIDE DEF z, b
<1>9. CASE g' = x
  BY <1>2, <1>9, LocksStill
<1>10. CASE g' = z
  BY <1>6, <1>8, <1>10, LocksLeft
<1>11. QED
  BY <1>1, <1>9, <1>10

LEMMA LocksNext ==
  ASSUME FilesInv, AloneInv, LocksInv, ~alarm, Allow = {}, [Next]_vars
  PROVE  LocksInv' /\ ~alarm'
<1>1. Shape(g)
  BY DEF AloneInv
<1>2. ASSUME NEW p \in Paths, MakeDirectory(p) PROVE LocksInv' /\ ~alarm'
  <2>  DEFINE r == MkDir(g, p)
  <2>1. Sound(g, path) /\ Last(p) \in Folders /\ g' = r.g /\ alarm' = (alarm \/ r.error = "alarm")
    BY <1>2 DEF FilesInv, MakeDirectory, VolumeBecomes
  <2>2. MkDirEnds(r, g, path)
    BY <2>1, MkDirOK
  <2>  HIDE DEF r
  <2>3. r.g.locks \subseteq DOMAIN r.g.dir \ {RootDir} /\ r.error # "alarm"
    BY <2>2 DEF MkDirEnds, LocksInv
  <2>4. LocksInv'
    BY <2>1, <2>3 DEF LocksInv
  <2>5. QED
    BY <2>1, <2>3, <2>4
<1>3. ASSUME NEW p \in Paths, DeleteFile(p) \/ DeleteDirectory(p) PROVE LocksInv' /\ ~alarm'
  <2>  DEFINE a == EntryAt(g, Find(g, p)).anode
  <2>1. a \notin g.locks
    BY <1>3 DEF DeleteFile, DeleteDirectory, MadeBefore
  <2>2. g' \in {Deletefile(g, p).g, RmDir(g, p).g} /\ alarm' = alarm
    BY <1>3 DEF DeleteFile, DeleteDirectory, Leaves, VolumeBecomes
  <2>3. Left(g, Deletefile(g, p).g, a) /\ Left(g, RmDir(g, p).g, a)
    BY <1>1, DeletefileAlone
  <2>  HIDE DEF a
  <2>4. QED
    BY <2>1, <2>2, <2>3, LocksLeft
<1>4. ASSUME NEW p \in Paths, NEW q \in Paths, NEW replace \in BOOLEAN, MoveFile(p, q, replace)
      PROVE  LocksInv' /\ ~alarm'
  <2>  DEFINE a == EntryAt(g, Find(g, q)).anode
              y == Movefile(g, p, q, replace).g
  <2>1. replace => a \notin g.locks
    BY <1>4 DEF MoveFile, MadeBefore
  <2>2. g' = y /\ alarm' = alarm
    BY <1>4 DEF MoveFile, VolumeBecomes
  <2>3. Still(g, y) \/ (replace /\ Left(g, y, a))
    BY <1>1, MovefileAlone
  <2>  HIDE DEF a, y
  <2>4. QED
    BY <2>1, <2>2, <2>3, LocksLeft, LocksStill
<1>5. ASSUME NEW h \in Handles, NEW ofs \in Ends, NEW n \in Ends, NEW paging \in BOOLEAN,
             \/ ReadFile(h, ofs, n) \/ WriteFile(h, ofs, n, paging) \/ AppendFile(h, n)
             \/ SetEndOfFile(h, ofs) \/ SetAllocationSize(h, ofs)
      PROVE  LocksInv' /\ ~alarm'
  <2>1. PICK y : Calm(g, y) /\ g' = y
    BY <1>5, FileCallsCalm
  <2>2. alarm' = alarm
    BY <1>5 DEF ReadFile, WriteFile, AppendFile, SetEndOfFile, SetAllocationSize, Leaves
  <2>3. QED
    BY <2>1, <2>2, LocksStill DEF Calm
<1>6. ASSUME NEW h \in Handles, NEW p \in Paths, NEW readOnly \in BOOLEAN, NEW disp \in DOMAIN Modes,
             OpenFile(h, p, readOnly, disp)
      PROVE  LocksInv' /\ ~alarm'
  <2>  DEFINE mode == Modes[disp]
              y == Createfile(g, h, p, mode, readOnly).g
  <2>1. ~Opened(g, h) /\ g' = y /\ alarm' = alarm
    BY <1>6 DEF OpenFile, VolumeBecomes
  <2>2. Still(g, y)
    BY <2>1, CreatefileAlone DEF AloneInv
  <2>  HIDE DEF y
  <2>3. QED
    BY <2>1, <2>2, LocksStill
<1>7. ASSUME NEW h \in Handles, NEW deleteOnClose \in BOOLEAN, Cleanup(h, deleteOnClose)
      PROVE  LocksInv' /\ ~alarm'
  BY <1>7, LocksCleanup DEF Cleanup
<1>8. CASE UNCHANGED vars
  BY <1>8 DEF vars, LocksInv
<1>9. CASE \E p \in Paths :
             \/ MakeDirectory(p) \/ DeleteFile(p) \/ DeleteDirectory(p)
             \/ \E q \in Paths, replace \in BOOLEAN : MoveFile(p, q, replace)
  BY <1>2, <1>3, <1>4, <1>9
<1>10. CASE \E h \in Handles, n \in Ends \ {0} : AppendFile(h, n)
  BY <1>5, <1>10
<1>11. CASE \E h \in Handles, ofs \in Ends : SetEndOfFile(h, ofs) \/ SetAllocationSize(h, ofs)
  BY <1>5, <1>11
<1>12. CASE \E h \in Handles, ofs \in Ends, n \in Ends \ {0} :
             ReadFile(h, ofs, n) \/ \E paging \in BOOLEAN : WriteFile(h, ofs, n, paging)
  BY <1>5, <1>12
<1>13. CASE \E h \in Handles, p \in Paths, readOnly \in BOOLEAN, disp \in DOMAIN Modes : OpenFile(h, p, readOnly, disp)
  BY <1>6, <1>13
<1>14. CASE \E h \in Handles, deleteOnClose \in BOOLEAN : Cleanup(h, deleteOnClose)
  BY <1>7, <1>14
<1>15. QED
  BY <1>8, <1>9, <1>10, <1>11, <1>12, <1>13, <1>14 DEF Next

\* "Should never fail, accessconflict impossible": NewDir's lock is not refused,
\* as long as no directory it made is removed.
THEOREM NewDirSucceeds ==
  ASSUME Allow = {}
  PROVE  Spec => []NewDirNeverConflicts
<1>1. Considerate
  BY DEF Considerate
<1>2. Spec => []FilesInv
  BY <1>1, FilesAlways
<1>3. Spec => []AloneInv
  <2>1. Init => AloneInv
    BY AloneInit
  <2>2. AloneInv /\ [Next]_vars => AloneInv'
    BY AloneNext
  <2>3. QED
    BY <2>1, <2>2, PTL DEF Spec
<1>4. Init => LocksInv /\ ~alarm
  BY DEF Init, Formatted, LocksInv
<1>5. FilesInv /\ AloneInv /\ LocksInv /\ ~alarm /\ [Next]_vars => LocksInv' /\ ~alarm'
  BY LocksNext
<1>6. ~alarm => NewDirNeverConflicts
  BY DEF NewDirNeverConflicts
<1>7. QED
  BY <1>2, <1>3, <1>4, <1>5, <1>6, PTL DEF Spec
=============================================================================
