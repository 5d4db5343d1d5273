--------------------------- MODULE PfsTable_proofs ---------------------------
(***************************************************************************)
(* PfsFiles implements FileTable, for any number of programs, names, anodes *)
(* and blocks.                                                              *)
(***************************************************************************)
EXTENDS PfsFiles_proofs

\* Whatever file there may be in one directory there may be in another.
PathsClosed == \A p \in Paths, n \in Folders : Len(p) = 2 => <<n, p[2]>> \in Paths
-----------------------------------------------------------------------------
(***************************************************************************)
(* Directories as sets of entries: where an entry stands in its block is of *)
(* no account to programs.                                                  *)
(***************************************************************************)
In(dir, d, e) == d \in DOMAIN dir /\ \E i \in 1 .. Len(dir[d]) : dir[d][i] = e
Tree(dir) ==
  /\ \A d, e : In(dir, d, e) => d \in Folder /\ e \in DirEntry
  /\ \A d, e, f : In(dir, d, e) /\ In(dir, d, f) /\ e.name = f.name => e = f
  /\ \A d, k, e, f : In(dir, d, e) /\ In(dir, k, f) /\ e.anode = f.anode => d = k /\ e = f
  /\ \A d, e : In(dir, d, e) => (e.kind = "dir" <=> e.name \in Folders) /\ (e.kind = "dir" => d = RootDir)
  /\ \A d, e : In(dir, d, e) /\ d # RootDir =>
       \E f : In(dir, RootDir, f) /\ f.kind = "dir" /\ f.anode = d

\* What a path denotes: the directory it leads to and the entry there.
Under(dir, p, d) ==
  IF Len(p) = 1 THEN d = RootDir
  ELSE \E f : In(dir, RootDir, f) /\ f.name = p[1] /\ f.anode = d
Denotes(dir, p, d, e) == In(dir, d, e) /\ e.name = Last(p) /\ Under(dir, p, d)

\* What programs see of an entry, and of all of them.
Look(e) == IF e.kind = "dir" THEN Dir ELSE e.size
Shows(dir, L) ==
  /\ L = [p \in Paths |-> L[p]]
  /\ \A p \in Paths : /\ \A d, e : Denotes(dir, p, d, e) => L[p] = Look(e)
                      /\ (\A d, e : ~Denotes(dir, p, d, e)) => L[p] = None

LEMMA InAre ==
  ASSUME NEW dir, NEW d, NEW e, In(dir, d, e)
  PROVE  \E i \in 1 .. Len(dir[d]) : dir[d][i] = e /\ d \in DOMAIN dir /\ At(dir, <<d, i>>) /\ EntryOf(dir, <<d, i>>) = e
<1>1. PICK i \in 1 .. Len(dir[d]) : dir[d][i] = e /\ d \in DOMAIN dir
  BY DEF In
<1>2. QED
  BY <1>1 DEF At, EntryOf

LEMMA InIs ==
  ASSUME NEW dir, NEW at, At(dir, at)
  PROVE  In(dir, at[1], EntryOf(dir, at))
  BY DEF In, At, EntryOf

LEMMA TreeIs ==
  ASSUME NEW dir, NEW used, DirsOK(dir, used)
  PROVE  Tree(dir)
<1>1. Blocky(dir) /\ Told(dir, used) /\ Rooted(dir) /\ RootDir \in DOMAIN dir
  BY DEF DirsOK, Blocky
<1>2. ASSUME NEW d, NEW e, In(dir, d, e) PROVE d \in Folder /\ e \in DirEntry
  BY <1>1, <1>2, EntryIs DEF In, Blocky
<1>3. ASSUME NEW d, NEW e, NEW f, In(dir, d, e), In(dir, d, f), e.name = f.name PROVE e = f
  BY <1>1, <1>3 DEF In, Told
<1>4. ASSUME NEW d, NEW k, NEW e, NEW f, In(dir, d, e), In(dir, k, f), e.anode = f.anode
      PROVE  d = k /\ e = f
  BY <1>1, <1>4 DEF In, Told
<1>5. ASSUME NEW d, NEW e, In(dir, d, e)
      PROVE  (e.kind = "dir" <=> e.name \in Folders) /\ (e.kind = "dir" => d = RootDir)
  BY <1>1, <1>5 DEF In, Rooted
<1>6. ASSUME NEW d, NEW e, In(dir, d, e), d # RootDir
      PROVE  \E f : In(dir, RootDir, f) /\ f.kind = "dir" /\ f.anode = d
  <2>1. PICK i \in 1 .. Len(dir[RootDir]) : dir[RootDir][i].anode = d /\ dir[RootDir][i].kind = "dir"
    BY <1>1, <1>6 DEF In, Rooted
  <2>2. In(dir, RootDir, dir[RootDir][i])
    BY <1>1, <2>1 DEF In
  <2>3. QED
    BY <2>1, <2>2
<1>7. QED
  BY <1>2, <1>3, <1>4, <1>5, <1>6 DEF Tree

\* Paths of one and of two names.
LEMMA PathForm ==
  ASSUME NEW p \in Paths
  PROVE  /\ Last(p) \in Names /\ Len(p) \in {1, 2}
         /\ Len(p) = 1 => p = <<Last(p)>> /\ p[1] = Last(p)
         /\ Len(p) # 1 => p = <<p[1], Last(p)>> /\ p[2] = Last(p) /\ p[1] \in Folders /\ Last(p) \notin Folders
  BY PfsNamesAssumption DEF Last

\* Names of files lead to files.
LEMMA KindIs ==
  ASSUME NEW dir, Tree(dir), NEW p \in Paths, NEW d, NEW e, Denotes(dir, p, d, e)
  PROVE  /\ e \in DirEntry /\ d \in Folder /\ (e.kind = "dir" <=> Last(p) \in Folders)
         /\ e.kind = "dir" => d = RootDir /\ Len(p) = 1
         /\ e.kind # "dir" => e.kind = "file"
  BY PathForm DEF Denotes, Tree, DirEntry

\* A path leads to one directory, and denotes one entry; an entry has one path.
LEMMA OneFolder ==
  ASSUME NEW dir, Tree(dir), NEW p, NEW d, NEW k, Under(dir, p, d), Under(dir, p, k)
  PROVE  d = k
  BY DEF Under, Tree

LEMMA OneMeant ==
  ASSUME NEW dir, Tree(dir), NEW p, NEW d, NEW e, NEW k, NEW f, Denotes(dir, p, d, e), Denotes(dir, p, k, f)
  PROVE  d = k /\ e = f
<1>1. d = k
  BY OneFolder DEF Denotes
<1>2. QED
  BY <1>1 DEF Denotes, Tree

LEMMA UnderIs ==
  ASSUME NEW dir, Tree(dir), NEW p \in Paths, NEW d, Under(dir, p, d)
  PROVE  Len(p) = 1 <=> d = RootDir
<1>1. RootDir \notin Anodes
  BY PfsNumbersAssumption DEF Anodes
<1>2. QED
  BY <1>1 DEF Under, Tree, DirEntry

LEMMA OnePath ==
  ASSUME NEW dir, Tree(dir), NEW p \in Paths, NEW q \in Paths, NEW d, NEW k, NEW e,
         Denotes(dir, p, d, e), Denotes(dir, q, k, e)
  PROVE  p = q /\ d = k
<1>1. d = k /\ Last(p) = Last(q)
  BY DEF Denotes, Tree
<1>2. Len(p) = 1 <=> Len(q) = 1
  BY <1>1, UnderIs DEF Denotes
<1>3. CASE Len(p) = 1
  BY <1>1, <1>2, <1>3, PathForm
<1>4. CASE Len(p) # 1
  <2>1. p[1] = q[1]
    BY <1>1, <1>2, <1>4 DEF Denotes, Under, Tree
  <2>2. QED
    BY <1>1, <1>2, <1>4, <2>1, PathForm
<1>5. QED
  BY <1>1, <1>3, <1>4

LEMMA OneTable ==
  ASSUME NEW dir, NEW L, NEW M, Shows(dir, L), Shows(dir, M)
  PROVE  L = M
<1>1. \A p \in Paths : L[p] = M[p]
  BY DEF Shows
<1>2. QED
  BY <1>1 DEF Shows

\* fs_findfiles and fs_getfileinformation show what paths denote.
LEMMA ShowsListing ==
  ASSUME NEW x, DirsOK(x.dir, x.used)
  PROVE  Shows(x.dir, Listing(x))
<1>1. Blocky(x.dir) /\ Tree(x.dir)
  BY TreeIs DEF DirsOK
<1>2. \A p, d : FolderAt(x.dir, p, d) => Under(x.dir, p, d)
  <2>1. RootDir \in DOMAIN x.dir
    BY <1>1 DEF Blocky
  <2>2. QED
    BY <2>1 DEF FolderAt, Under, In
<1>3. \A p, d : Under(x.dir, p, d) => FolderAt(x.dir, p, d)
  BY DEF FolderAt, Under, In
<1>4. ASSUME NEW p \in Paths, NEW d, NEW e, Denotes(x.dir, p, d, e)
      PROVE  Listing(x)[p] = Look(e)
  <2>1. PICK i \in 1 .. Len(x.dir[d]) : x.dir[d][i] = e /\ d \in DOMAIN x.dir /\ At(x.dir, <<d, i>>) /\ EntryOf(x.dir, <<d, i>>) = e
    BY <1>4, InAre DEF Denotes
  <2>  DEFINE at == <<d, i>>
  <2>2. at \in Nat \X Nat
    <3>1. d \in Folder /\ Len(x.dir[d]) \in Nat
      BY <1>1, <1>4, <2>1, EntryIs DEF Denotes, Tree
    <3>2. QED
      BY <3>1, PfsNumbersAssumption DEF Folder, Anodes
  <2>3. Leads(x.dir, p, at)
    BY <1>3, <1>4, <2>1 DEF Leads, Denotes
  <2>  HIDE DEF at
  <2>4. Find(x, p) = at
    BY <2>2, <2>3, FindIs
  <2>5. EntryAt(x, at) = e
    BY <1>1, <2>1, EntryAtIs DEF at
  <2>6. at # NoPlace
    BY <2>3, <1>1, NoEntry DEF NoPlace, Leads
  <2>7. QED
    BY <2>4, <2>5, <2>6 DEF Listing, Shown, Look
<1>5. ASSUME NEW p \in Paths, \A d, e : ~Denotes(x.dir, p, d, e)
      PROVE  Listing(x)[p] = None
  <2>1. Find(x, p) = NoPlace
    <3>1. ASSUME Leads(x.dir, p, Find(x, p)) PROVE FALSE
      <4>  DEFINE at == Find(x, p)
      <4>1. At(x.dir, at) /\ EntryOf(x.dir, at).name = Last(p) /\ Under(x.dir, p, at[1])
        BY <1>2, <3>1 DEF Leads, At, EntryOf
      <4>  HIDE DEF at
      <4>2. Denotes(x.dir, p, at[1], EntryOf(x.dir, at))
        BY <4>1, InIs DEF Denotes
      <4>3. QED
        BY <1>5, <4>2
    <3>2. QED
      BY <3>1, FindIs
  <2>2. QED
    BY <2>1 DEF Listing, Shown
<1>6. Listing(x) = [p \in Paths |-> Listing(x)[p]]
  BY DEF Listing
<1>7. QED
  BY <1>4, <1>5, <1>6 DEF Shows
-----------------------------------------------------------------------------
(***************************************************************************)
(* The steps of directories, and what programs see of them.                 *)
(***************************************************************************)
\* An entry takes the place of another one, comes, or goes.
Swaps(dir, y, d, e, k, f) ==
  In(dir, d, e) /\ \A b, z : In(y, b, z) <=> (In(dir, b, z) /\ z # e) \/ (b = k /\ z = f)
Gains(dir, y, k, f) == \A b, z : In(y, b, z) <=> In(dir, b, z) \/ (b = k /\ z = f)
Loses(dir, y, d, e) == In(dir, d, e) /\ \A b, z : In(y, b, z) <=> In(dir, b, z) /\ z # e

\* Where no directory comes, goes or gets another name, paths lead where they did.
SameFolders(dir, y) == \A z : z.kind = "dir" => (In(y, RootDir, z) <=> In(dir, RootDir, z))
LEMMA UnderSame ==
  ASSUME NEW dir, NEW y, Tree(dir), Tree(y), SameFolders(dir, y), NEW p \in Paths, NEW d
  PROVE  Under(y, p, d) <=> Under(dir, p, d)
<1>1. CASE Len(p) = 1
  BY <1>1 DEF Under
<1>2. CASE Len(p) # 1
  <2>1. p[1] \in Folders
    BY <1>2, PathForm
  <2>2. \A z : In(dir, RootDir, z) /\ z.name = p[1] => z.kind = "dir"
    BY <2>1 DEF Tree
  <2>3. \A z : In(y, RootDir, z) /\ z.name = p[1] => z.kind = "dir"
    BY <2>1 DEF Tree
  <2>4. \A z : z.name = p[1] => (In(y, RootDir, z) <=> In(dir, RootDir, z))
    BY <2>2, <2>3 DEF SameFolders
  <2>5. QED
    BY <1>2, <2>4 DEF Under
<1>3. QED
  BY <1>1, <1>2

LEMMA TableSized ==
  ASSUME NEW dir, NEW y, Tree(dir), Tree(y), NEW L, Shows(dir, L), NEW p \in Paths, NEW d, NEW e,
         Denotes(dir, p, d, e), e.kind = "file", NEW f, Swaps(dir, y, d, e, d, f),
         f.name = e.name, f.kind = "file"
  PROVE  Shows(y, [L EXCEPT ![p] = f.size])
<1>  DEFINE M == [L EXCEPT ![p] = f.size]
<1>1. SameFolders(dir, y)
  BY DEF SameFolders, Swaps
<1>2. \A q \in Paths : \A b : Under(y, q, b) <=> Under(dir, q, b)
  BY <1>1, UnderSame
<1>3. Denotes(y, p, d, f) /\ Look(f) = f.size
  BY <1>2 DEF Denotes, Swaps, Look
<1>4. M[p] = f.size /\ \A q \in Paths \ {p} : M[q] = L[q]
  BY DEF Shows
<1>5. M = [q \in Paths |-> M[q]]
  BY DEF Shows
<1>  HIDE DEF M
<1>6. \A b, z : Denotes(y, p, b, z) => M[p] = Look(z)
  BY <1>3, <1>4, OneMeant
<1>7. ASSUME NEW q \in Paths \ {p}, NEW b, NEW z, Denotes(y, q, b, z) PROVE M[q] = Look(z)
  <2>1. z # f
    BY <1>3, <1>7, OnePath
  <2>2. Denotes(dir, q, b, z)
    BY <1>2, <1>7, <2>1 DEF Denotes, Swaps
  <2>3. QED
    BY <1>4, <2>2 DEF Shows
<1>8. ASSUME NEW q \in Paths \ {p}, \A b, z : ~Denotes(y, q, b, z) PROVE M[q] = None
  <2>1. ASSUME NEW b, NEW z, Denotes(dir, q, b, z) PROVE FALSE
    <3>1. z # e
      BY <2>1, OnePath
    <3>2. Denotes(y, q, b, z)
      BY <1>2, <2>1, <3>1 DEF Denotes, Swaps
    <3>3. QED
      BY <1>8, <3>2
  <2>2. QED
    BY <1>4, <2>1 DEF Shows
<1>9. QED
  BY <1>3, <1>5, <1>6, <1>7, <1>8 DEF Shows, M

LEMMA TableGains ==
  ASSUME NEW dir, NEW y, Tree(dir), Tree(y), NEW L, Shows(dir, L), NEW p \in Paths, NEW k, NEW f,
         Under(dir, p, k), f.name = Last(p), Gains(dir, y, k, f), f.anode # RootDir,
         \A b, z : In(dir, b, z) => z.anode # f.anode
  PROVE  Shows(y, [L EXCEPT ![p] = Look(f)])
<1>  DEFINE M == [L EXCEPT ![p] = Look(f)]
<1>1. \A q : \A b : Under(dir, q, b) => Under(y, q, b)
  BY DEF Under, Gains
<1>2. Denotes(y, p, k, f)
  BY <1>1 DEF Denotes, Gains
<1>3. M[p] = Look(f) /\ \A q \in Paths \ {p} : M[q] = L[q]
  BY DEF Shows
<1>4. M = [q \in Paths |-> M[q]]
  BY DEF Shows
<1>  HIDE DEF M
<1>5. \A b, z : Denotes(y, p, b, z) => M[p] = Look(z)
  BY <1>2, <1>3, OneMeant
<1>6. ASSUME NEW q \in Paths \ {p}, NEW b, NEW z, Denotes(y, q, b, z) PROVE Denotes(dir, q, b, z)
  <2>1. z # f
    BY <1>2, <1>6, OnePath
  <2>2. In(dir, b, z)
    BY <1>6, <2>1 DEF Denotes, Gains
  <2>3. Under(dir, q, b)
    <3>1. CASE Len(q) = 1
      BY <1>6, <3>1 DEF Denotes, Under
    <3>2. CASE Len(q) # 1
      <4>1. PICK c : In(y, RootDir, c) /\ c.name = q[1] /\ c.anode = b
        BY <1>6, <3>2 DEF Denotes, Under
      <4>2. b # RootDir
        BY <1>6, <3>2, UnderIs DEF Denotes
      <4>3. PICK a : In(dir, RootDir, a) /\ a.anode = b
        BY <2>2, <4>2 DEF Tree
      <4>4. c # f
        BY <4>1, <4>3
      <4>5. QED
        BY <3>2, <4>1, <4>4 DEF Under, Gains
    <3>3. QED
      BY <3>1, <3>2
  <2>4. QED
    BY <1>6, <2>2, <2>3 DEF Denotes
<1>7. ASSUME NEW q \in Paths \ {p}, \A b, z : ~Denotes(y, q, b, z) PROVE M[q] = None
  <2>1. \A b, z : ~Denotes(dir, q, b, z)
    BY <1>1, <1>7 DEF Denotes, Gains
  <2>2. QED
    BY <1>3, <2>1 DEF Shows
<1>8. QED
  BY <1>2, <1>3, <1>4, <1>5, <1>6, <1>7 DEF Shows, M

\* A directory that goes is empty.
LEMMA TableLoses ==
  ASSUME NEW dir, NEW y, Tree(dir), Tree(y), NEW L, Shows(dir, L), NEW p \in Paths, NEW d, NEW e,
         Denotes(dir, p, d, e), Loses(dir, y, d, e), e.kind = "dir" => \A z : ~In(dir, e.anode, z)
  PROVE  Shows(y, [L EXCEPT ![p] = None])
<1>  DEFINE M == [L EXCEPT ![p] = None]
<1>1. \A q : \A b : Under(y, q, b) => Under(dir, q, b)
  BY DEF Under, Loses
<1>2. M[p] = None /\ \A q \in Paths \ {p} : M[q] = L[q]
  BY DEF Shows
<1>3. M = [q \in Paths |-> M[q]]
  BY DEF Shows
<1>  HIDE DEF M
<1>4. ASSUME NEW q, NEW b, NEW z, Denotes(y, q, b, z) PROVE Denotes(dir, q, b, z) /\ z # e
  BY <1>1, <1>4 DEF Denotes, Loses
<1>5. \A b, z : ~Denotes(y, p, b, z)
  BY <1>4, OneMeant
<1>6. ASSUME NEW q \in Paths \ {p}, \A b, z : ~Denotes(y, q, b, z) PROVE M[q] = None
  <2>1. ASSUME NEW b, NEW z, Denotes(dir, q, b, z) PROVE FALSE
    <3>1. z # e
      BY <2>1, OnePath
    <3>2. Under(y, q, b)
      <4>1. CASE Len(q) = 1
        BY <2>1, <4>1 DEF Denotes, Under
      <4>2. CASE Len(q) # 1
        <5>1. PICK c : In(dir, RootDir, c) /\ c.name = q[1] /\ c.anode = b
          BY <2>1, <4>2 DEF Denotes, Under
        <5>2. c.kind = "dir"
          BY <4>2, <5>1, PathForm DEF Tree
        <5>3. c # e
          BY <2>1, <5>1, <5>2 DEF Denotes
        <5>4. QED
          BY <4>2, <5>1, <5>3 DEF Under, Loses
      <4>3. QED
        BY <4>1, <4>2
    <3>3. QED
      BY <1>6, <2>1, <3>1, <3>2 DEF Denotes, Loses
  <2>2. QED
    BY <1>2, <2>1 DEF Shows
<1>7. QED
  BY <1>2, <1>3, <1>4, <1>5, <1>6 DEF Shows, M

\* A directory that gets another name takes what is in it along.
Beneath(p, q) == Len(q) = 2 /\ p = <<q[1]>>
MovedTable(L, p, q) ==
  [x \in Paths |-> IF x = p \/ Beneath(p, x) THEN None
                   ELSE IF x = q THEN L[p]
                   ELSE IF Beneath(q, x) THEN IF <<p[1], x[2]>> \in Paths /\ Len(p) = 1
                                              THEN L[<<p[1], x[2]>>] ELSE None
                   ELSE L[x]]
LEMMA TableMoves ==
  ASSUME PathsClosed, NEW dir, NEW y, Tree(dir), Tree(y), NEW L, Shows(dir, L),
         NEW p \in Paths, NEW q \in Paths, p # q, NEW d, NEW e, Denotes(dir, p, d, e),
         NEW k, Under(dir, q, k), NEW f, f.name = Last(q), f.kind = e.kind, f.anode = e.anode, f.size = e.size,
         Swaps(dir, y, d, e, k, f)
  PROVE  Shows(y, MovedTable(L, p, q))
<1>  DEFINE M == MovedTable(L, p, q)
<1>1. /\ In(y, k, f) /\ Look(f) = Look(e) /\ In(dir, d, e) /\ e.name = Last(p)
      /\ \A b, z : In(y, b, z) => (In(dir, b, z) /\ z # e) \/ (b = k /\ z = f)
      /\ \A b, z : In(dir, b, z) /\ z # e => In(y, b, z)
  BY DEF Swaps, Look, Denotes
<1>2. /\ e.kind = "dir" => d = RootDir /\ k = RootDir /\ Len(p) = 1 /\ Len(q) = 1 /\ Last(p) \in Folders /\ Last(q) \in Folders
      /\ e.kind # "dir" => Last(p) \notin Folders /\ Last(q) \notin Folders
  <2>1. /\ e.kind = "dir" => d = RootDir /\ k = RootDir /\ Last(p) \in Folders /\ Last(q) \in Folders
        /\ e.kind # "dir" => Last(p) \notin Folders /\ Last(q) \notin Folders
    BY <1>1 DEF Tree
  <2>2. QED
    BY <2>1, PathForm
<1>3. ASSUME NEW r \in Paths, Len(r) # 1, NEW c, In(y, RootDir, c), c.name = r[1]
      PROVE  (c # f => In(dir, RootDir, c) /\ c # e) /\ (c = f => e.kind = "dir" /\ Beneath(q, r)) /\ c.kind = "dir"
  <2>1. r[1] \in Folders
    BY <1>3, PathForm
  <2>2. c.kind = "dir"
    BY <1>3, <2>1 DEF Tree
  <2>3. c = f => Beneath(q, r)
    BY <1>2, <1>3, <2>2, PathForm DEF Beneath
  <2>4. QED
    BY <1>1, <1>3, <2>2, <2>3
<1>4. ASSUME NEW r \in Paths, Len(r) # 1, NEW c, In(dir, RootDir, c), c.name = r[1]
      PROVE  (c # e => In(y, RootDir, c)) /\ (c = e => Beneath(p, r)) /\ c.kind = "dir"
  <2>1. r[1] \in Folders
    BY <1>4, PathForm
  <2>2. c.kind = "dir"
    BY <1>4, <2>1 DEF Tree
  <2>3. c = e => Beneath(p, r)
    BY <1>1, <1>2, <1>4, <2>2, PathForm DEF Beneath
  <2>4. QED
    BY <1>1, <1>4, <2>2, <2>3
<1>5. ASSUME NEW r \in Paths, ~Beneath(q, r), NEW b, Under(y, r, b) PROVE Under(dir, r, b)
  BY <1>3, <1>5 DEF Under
<1>6. ASSUME NEW r \in Paths, ~Beneath(p, r), NEW b, Under(dir, r, b) PROVE Under(y, r, b)
  BY <1>4, <1>6 DEF Under
<1>7. ~Beneath(p, q) /\ ~Beneath(q, p)
  <2>1. ASSUME Beneath(p, q) PROVE FALSE
    <3>1. Len(q) # 1 /\ p = <<q[1]>> /\ Len(p) = 1 /\ q[1] \in Folders /\ p[1] = q[1]
      BY <2>1, PathForm DEF Beneath
    <3>2. QED
      BY <1>1, <1>2, <3>1, PathForm
  <2>2. ASSUME Beneath(q, p) PROVE FALSE
    <3>1. Len(p) # 1 /\ q = <<p[1]>> /\ Len(q) = 1 /\ p[1] \in Folders /\ q[1] = p[1]
      BY <2>2, PathForm DEF Beneath
    <3>2. QED
      BY <1>1, <1>2, <3>1, PathForm
  <2>3. QED
    BY <2>1, <2>2
<1>8. Denotes(y, q, k, f)
  BY <1>1, <1>6, <1>7 DEF Denotes
<1>9. \A b, z : ~Denotes(y, p, b, z)
  <2>  SUFFICES ASSUME NEW b, NEW z, Denotes(y, p, b, z) PROVE FALSE
    OBVIOUS
  <2>1. z # f
    BY <1>8, OnePath
  <2>2. In(dir, b, z) /\ z # e
    BY <1>1, <2>1 DEF Denotes
  <2>3. Denotes(dir, p, b, z)
    BY <1>5, <1>7, <2>2 DEF Denotes
  <2>4. QED
    BY <2>2, <2>3, OneMeant
<1>10. M = [r \in Paths |-> M[r]]
  BY DEF MovedTable
<1>11. M[q] = L[p] /\ L[p] = Look(e)
  BY <1>7 DEF MovedTable, Shows
<1>12. ASSUME NEW r \in Paths, r = p \/ Beneath(p, r)
       PROVE  M[r] = None /\ \A b, z : ~Denotes(y, r, b, z)
  <2>1. M[r] = None
    BY <1>12 DEF MovedTable
  <2>2. ASSUME Beneath(p, r), NEW b, NEW z, Denotes(y, r, b, z) PROVE FALSE
    <3>1. PICK c : In(y, RootDir, c) /\ c.name = r[1]
      BY <2>2 DEF Denotes, Under, Beneath
    <3>2. Len(p) = 1 /\ Last(p) = r[1]
      BY <2>2, PathForm DEF Beneath
    <3>3. Denotes(y, p, RootDir, c)
      BY <3>1, <3>2 DEF Denotes, Under
    <3>4. QED
      BY <1>9, <3>3
  <2>3. QED
    BY <1>9, <1>12, <2>1, <2>2
<1>13. ASSUME NEW r \in Paths, r # p, ~Beneath(p, r), Beneath(q, r)
       PROVE  /\ \A b, z : Denotes(y, r, b, z) => M[r] = Look(z)
              /\ (\A b, z : ~Denotes(y, r, b, z)) => M[r] = None
  <2>  DEFINE s == <<p[1], r[2]>>
  <2>1. Len(q) = 1 /\ Last(q) = r[1] /\ r[1] \in Folders /\ Len(r) # 1 /\ Last(r) = r[2] /\ Len(r) = 2
    BY <1>13, PathForm DEF Beneath
  <2>2. e.kind = "dir" /\ Len(p) = 1 /\ p[1] = Last(p) /\ p[1] \in Folders /\ d = RootDir /\ k = RootDir
    BY <1>2, <2>1, PathForm
  <2>3. s \in Paths /\ Len(s) = 2 /\ s[1] = p[1] /\ s[2] = r[2]
    BY <2>1, <2>2 DEF PathsClosed
  <2>4. Last(s) = Last(r) /\ Len(s) # 1
    BY <2>1, <2>3, PathForm
  <2>5. r # q
    BY <2>1
  <2>  HIDE DEF s
  <2>6. M[r] = L[s]
    BY <1>13, <2>2, <2>3, <2>5 DEF MovedTable, s
  <2>7. \A b : Under(y, r, b) <=> b = e.anode
    BY <1>8, <2>1, <2>2 DEF Denotes, Under, Tree
  <2>8. \A b : Under(dir, s, b) <=> b = e.anode
    BY <1>1, <2>2, <2>3, <2>4 DEF Denotes, Under, Tree
  <2>9. e.anode # RootDir
    BY <1>1, PfsNumbersAssumption DEF Tree, DirEntry, Anodes
  <2>10. \A z : In(y, e.anode, z) <=> In(dir, e.anode, z)
    BY <1>1, <2>2, <2>9 DEF Tree
  <2>11. \A b, z : Denotes(y, r, b, z) <=> Denotes(dir, s, b, z)
    BY <2>4, <2>7, <2>8, <2>10 DEF Denotes
  <2>12. QED
    BY <2>3, <2>6, <2>11 DEF Shows
<1>14. ASSUME NEW r \in Paths, r # p, ~Beneath(p, r), ~Beneath(q, r), r # q
       PROVE  /\ \A b, z : Denotes(y, r, b, z) => M[r] = Look(z)
              /\ (\A b, z : ~Denotes(y, r, b, z)) => M[r] = None
  <2>1. M[r] = L[r]
    BY <1>14 DEF MovedTable
  <2>2. ASSUME NEW b, NEW z, Denotes(y, r, b, z) PROVE Denotes(dir, r, b, z)
    <3>1. z # f
      BY <1>8, <1>14, <2>2, OnePath
    <3>2. QED
      BY <1>1, <1>5, <1>14, <2>2, <3>1 DEF Denotes
  <2>3. ASSUME NEW b, NEW z, Denotes(dir, r, b, z) PROVE Denotes(y, r, b, z)
    <3>1. z # e
      BY <1>14, <2>3, OnePath
    <3>2. QED
      BY <1>1, <1>6, <1>14, <2>3, <3>1 DEF Denotes
  <2>4. QED
    BY <2>1, <2>2, <2>3 DEF Shows
<1>  HIDE DEF M
<1>15. \A b, z : Denotes(y, q, b, z) => M[q] = Look(z)
  BY <1>1, <1>8, <1>11, OneMeant
<1>16. QED
  BY <1>8, <1>10, <1>12, <1>13, <1>14, <1>15 DEF Shows, M
-----------------------------------------------------------------------------
(***************************************************************************)
(* The steps of directories from those of their blocks.                     *)
(***************************************************************************)
LEMMA PutSwaps ==
  ASSUME NEW dir, NEW used, DirsOK(dir, used), NEW at, At(dir, at), NEW e \in DirEntry
  PROVE  Swaps(dir, Put(dir, at, e), at[1], EntryOf(dir, at), at[1], e)
<1>  DEFINE y == Put(dir, at, e)
            old == EntryOf(dir, at)
<1>1. Blocky(dir) /\ Told(dir, used) /\ In(dir, at[1], old)
  BY InIs DEF DirsOK
<1>2. /\ DOMAIN y = DOMAIN dir /\ \A d \in DOMAIN dir : Len(y[d]) = Len(dir[d])
      /\ \A d \in DOMAIN dir : \A i \in 1 .. Len(dir[d]) :
           y[d][i] = IF d = at[1] /\ i = at[2] THEN e ELSE dir[d][i]
  BY <1>1, PutIs
<1>  HIDE DEF y
<1>3. \A d \in DOMAIN dir : \A i \in 1 .. Len(dir[d]) : dir[d][i] = old => d = at[1] /\ i = at[2]
  BY <1>1 DEF Told, At, EntryOf
<1>4. ASSUME NEW b, NEW z, In(y, b, z) PROVE (In(dir, b, z) /\ z # old) \/ (b = at[1] /\ z = e)
  <2>1. PICK i \in 1 .. Len(y[b]) : y[b][i] = z /\ b \in DOMAIN dir
    BY <1>2, <1>4 DEF In
  <2>2. CASE b = at[1] /\ i = at[2]
    BY <1>2, <2>1, <2>2
  <2>3. CASE ~(b = at[1] /\ i = at[2])
    <3>1. dir[b][i] = z /\ i \in 1 .. Len(dir[b])
      BY <1>2, <2>1, <2>3
    <3>2. QED
      BY <1>3, <2>1, <2>3, <3>1 DEF In
  <2>4. QED
    BY <2>2, <2>3
<1>5. ASSUME NEW b, NEW z, In(dir, b, z), z # old PROVE In(y, b, z)
  <2>1. PICK i \in 1 .. Len(dir[b]) : dir[b][i] = z /\ b \in DOMAIN dir
    BY <1>5 DEF In
  <2>2. y[b][i] = z
    BY <1>2, <1>5, <2>1 DEF EntryOf
  <2>3. QED
    BY <1>2, <2>1, <2>2 DEF In
<1>6. In(y, at[1], e)
  BY <1>2 DEF In, At
<1>7. QED
  BY <1>1, <1>4, <1>5, <1>6 DEF Swaps, y

LEMMA AddedGains ==
  ASSUME NEW dir, Blocky(dir), NEW d \in DOMAIN dir, NEW e, NEW y, AddedTo(dir, y, d, e)
  PROVE  Gains(dir, y, d, e)
<1>1. \A c \in DOMAIN dir : Len(dir[c]) \in Nat
  BY EntryIs
<1>2. ASSUME NEW b, NEW z, In(y, b, z) PROVE In(dir, b, z) \/ (b = d /\ z = e)
  <2>1. PICK i \in 1 .. Len(y[b]) : y[b][i] = z /\ b \in DOMAIN y
    BY <1>2 DEF In
  <2>2. CASE b \notin DOMAIN dir
    BY <2>1, <2>2 DEF AddedTo
  <2>3. CASE b \in DOMAIN dir /\ i \in 1 .. Len(dir[b])
    BY <2>1, <2>3 DEF AddedTo, In
  <2>4. CASE b \in DOMAIN dir /\ i \notin 1 .. Len(dir[b])
    <3>1. b = d /\ i = Len(dir[d]) + 1
      BY <1>1, <2>1, <2>4 DEF AddedTo
    <3>2. QED
      BY <2>1, <3>1 DEF AddedTo
  <2>5. QED
    BY <2>2, <2>3, <2>4
<1>3. ASSUME NEW b, NEW z, In(dir, b, z) PROVE In(y, b, z)
  <2>1. PICK i \in 1 .. Len(dir[b]) : dir[b][i] = z /\ b \in DOMAIN dir
    BY <1>3 DEF In
  <2>2. b \in DOMAIN y /\ y[b][i] = z /\ i \in 1 .. Len(y[b])
    BY <1>1, <2>1 DEF AddedTo
  <2>3. QED
    BY <2>2 DEF In
<1>4. In(y, d, e)
  <2>1. d \in DOMAIN y /\ Len(y[d]) = Len(dir[d]) + 1 /\ y[d][Len(dir[d]) + 1] = e
    BY DEF AddedTo
  <2>2. Len(dir[d]) + 1 \in 1 .. Len(y[d])
    BY <1>1, <2>1
  <2>3. QED
    BY <2>1, <2>2 DEF In
<1>5. QED
  BY <1>2, <1>3, <1>4 DEF Gains

LEMMA RemovedLoses ==
  ASSUME NEW dir, NEW used, DirsOK(dir, used), NEW at, At(dir, at), NEW y, RemovedFrom(dir, y, at),
         \A c \in Gone(EntryOf(dir, at)) : dir[c] = <<>>
  PROVE  Loses(dir, y, at[1], EntryOf(dir, at))
<1>  DEFINE old == EntryOf(dir, at)
            k == at[2]
            last == Len(dir[at[1]])
<1>1. Blocky(dir) /\ Told(dir, used) /\ In(dir, at[1], old) /\ last \in Nat /\ k \in 1 .. last /\ at[1] \in DOMAIN dir
  BY InIs, EntryIs DEF DirsOK, At
<1>2. \A d \in DOMAIN dir : \A i \in 1 .. Len(dir[d]) : dir[d][i] = old => d = at[1] /\ i = at[2]
  BY SMTT(60), <1>1 DEF Told, At, EntryOf
<1>3. dir[at[1]][k] = old
  BY DEF EntryOf
<1>4. at[1] \in DOMAIN y /\ Len(y[at[1]]) = last - 1
  BY <1>1 DEF RemovedFrom
<1>  HIDE DEF old, k
<1>5. ASSUME NEW b, NEW z, In(y, b, z) PROVE In(dir, b, z) /\ z # old
  <2>1. PICK i \in 1 .. Len(y[b]) : y[b][i] = z /\ b \in DOMAIN y /\ b \in DOMAIN dir
    BY <1>5 DEF In, RemovedFrom
  <2>2. CASE b # at[1]
    BY <1>2, <2>1, <2>2 DEF In, RemovedFrom
  <2>3. CASE b = at[1]
    <3>1. i \in 1 .. (last - 1) /\ Gap(i, k) \in 1 .. last /\ Gap(i, k) # k
      BY <1>1, <1>4, <2>1, <2>3 DEF Gap
    <3>2. y[b][i] = dir[b][Gap(i, k)]
      BY <2>3, <3>1 DEF RemovedFrom, k
    <3>3. QED
      BY <1>1, <1>2, <2>1, <2>3, <3>1, <3>2 DEF In, k
  <2>4. QED
    BY <2>2, <2>3
<1>6. ASSUME NEW b, NEW z, In(dir, b, z), z # old PROVE In(y, b, z)
  <2>1. PICK i \in 1 .. Len(dir[b]) : dir[b][i] = z /\ b \in DOMAIN dir
    BY <1>6 DEF In
  <2>2. b \in DOMAIN y
    BY <2>1 DEF RemovedFrom, old
  <2>3. CASE b # at[1]
    BY <2>1, <2>2, <2>3 DEF In, RemovedFrom
  <2>4. CASE b = at[1]
    <3>1. i # k /\ i \in 1 .. last
      BY <1>3, <1>6, <2>1, <2>4
    <3>2. PICK j \in 1 .. (last - 1) : Gap(j, k) = i
      <4>1. CASE i < k
        <5>1. i \in 1 .. (last - 1) /\ Gap(i, k) = i
          BY <1>1, <3>1, <4>1 DEF Gap
        <5>2. QED
          BY <5>1
      <4>2. CASE i > k
        <5>1. i - 1 \in 1 .. (last - 1) /\ Gap(i - 1, k) = i
          BY <1>1, <3>1, <4>2 DEF Gap
        <5>2. QED
          BY <5>1
      <4>3. QED
        BY <1>1, <3>1, <4>1, <4>2
    <3>3. y[b][j] = z /\ j \in 1 .. Len(y[b])
      BY <1>1, <1>4, <2>1, <2>4, <3>2 DEF RemovedFrom, k
    <3>4. QED
      BY <2>2, <3>3 DEF In
  <2>5. QED
    BY <2>3, <2>4
<1>7. QED
  BY <1>1, <1>5, <1>6 DEF Loses, old
-----------------------------------------------------------------------------
(***************************************************************************)
(* The blocks of all files and the free ones are those of the volume, so    *)
(* none is larger than it.                                                  *)
(***************************************************************************)
Weight(e) == IF e.kind = "file" THEN e.size ELSE 0
Blocks(dir) == {b \in Anodes \X (Nat \ {0}) : \E d, e : In(dir, d, e) /\ e.anode = b[1] /\ b[2] <= Weight(e)}
Budget(dir, avail) ==
  avail \in Nat /\ IsFiniteSet(Blocks(dir)) /\ Cardinality(Blocks(dir)) + avail = Room

\* The blocks of one file, and those of the others.
Own(a, n) == {a} \X (1 .. n)
Others(dir, a) == {b \in Blocks(dir) : b[1] # a}

LEMMA OwnAre ==
  ASSUME NEW a, NEW n \in Nat
  PROVE  IsFiniteSet(Own(a, n)) /\ Cardinality(Own(a, n)) = n
<1>1. IsFiniteSet(1 .. n) /\ Cardinality(1 .. n) = n
  BY FS_Interval
<1>2. IsFiniteSet({a}) /\ Cardinality({a}) = 1
  BY FS_Singleton
<1>3. IsFiniteSet(Own(a, n)) /\ Cardinality(Own(a, n)) = 1 * n
  BY ZenonT(60), <1>1, <1>2, FS_Product DEF Own
<1>4. QED
  BY <1>3

LEMMA BlocksSplit ==
  ASSUME NEW dir, Tree(dir), NEW d, NEW e, In(dir, d, e)
  PROVE  Weight(e) \in Nat /\ Blocks(dir) = Others(dir, e.anode) \cup Own(e.anode, Weight(e))
<1>1. e.anode \in Anodes /\ Weight(e) \in Nat
  BY DEF Tree, DirEntry, Weight
<1>2. \A k, f : In(dir, k, f) /\ f.anode = e.anode => f = e
  BY DEF Tree
<1>3. ASSUME NEW b \in Blocks(dir), b[1] = e.anode PROVE b \in Own(e.anode, Weight(e))
  <2>1. b \in Anodes \X (Nat \ {0}) /\ b[2] <= Weight(e)
    BY <1>2, <1>3 DEF Blocks
  <2>  HIDE DEF Blocks
  <2>2. b[2] \in 1 .. Weight(e) /\ b = <<e.anode, b[2]>>
    BY <1>1, <1>3, <2>1
  <2>3. QED
    BY <2>2 DEF Own
<1>4. ASSUME NEW b \in Own(e.anode, Weight(e)) PROVE b \in Blocks(dir)
  <2>1. b \in Anodes \X (Nat \ {0}) /\ b[1] = e.anode /\ b[2] <= Weight(e)
    BY <1>1, <1>4 DEF Own
  <2>2. QED
    BY <2>1 DEF Blocks
<1>5. QED
  BY <1>1, <1>3, <1>4 DEF Others

LEMMA SplitCounts ==
  ASSUME NEW dir, NEW a, NEW n \in Nat, NEW B, IsFiniteSet(Others(dir, a)), B = Others(dir, a) \cup Own(a, n)
  PROVE  IsFiniteSet(B) /\ Cardinality(B) = Cardinality(Others(dir, a)) + n /\ Cardinality(Others(dir, a)) \in Nat
<1>1. IsFiniteSet(Own(a, n)) /\ Cardinality(Own(a, n)) = n
  BY OwnAre
<1>2. Others(dir, a) \cap Own(a, n) = {}
  BY DEF Others, Own
<1>3. Cardinality({}) = 0
  BY FS_EmptySet
<1>4. Cardinality(Others(dir, a)) \in Nat
  BY FS_CardinalityType
<1>5. Cardinality(Others(dir, a) \cap Own(a, n)) = 0
  BY <1>2, <1>3
<1>6. IsFiniteSet(B) /\ Cardinality(B) = Cardinality(Others(dir, a)) + Cardinality(Own(a, n)) - Cardinality(Others(dir, a) \cap Own(a, n))
  BY <1>1, FS_Union
<1>7. QED
  BY <1>1, <1>4, <1>5, <1>6

LEMMA BudgetSplit ==
  ASSUME NEW dir, Tree(dir), NEW avail, Budget(dir, avail), NEW d, NEW e, In(dir, d, e)
  PROVE  /\ IsFiniteSet(Others(dir, e.anode)) /\ Cardinality(Others(dir, e.anode)) \in Nat /\ Weight(e) \in Nat
         /\ Cardinality(Others(dir, e.anode)) + Weight(e) + avail = Room /\ avail \in Nat
         /\ Weight(e) \in 0 .. Room
<1>1. Weight(e) \in Nat /\ Blocks(dir) = Others(dir, e.anode) \cup Own(e.anode, Weight(e))
  BY BlocksSplit
<1>2. IsFiniteSet(Blocks(dir)) /\ avail \in Nat /\ Cardinality(Blocks(dir)) + avail = Room
  BY DEF Budget
<1>3. IsFiniteSet(Others(dir, e.anode))
  BY <1>2, FS_Subset DEF Others
<1>4. Cardinality(Blocks(dir)) = Cardinality(Others(dir, e.anode)) + Weight(e) /\ Cardinality(Others(dir, e.anode)) \in Nat
  BY <1>1, <1>3, SplitCounts
<1>5. QED
  BY <1>1, <1>2, <1>3, <1>4, PfsNumbersAssumption

\* The same others, and no more blocks than that.
LEMMA OthersSame ==
  ASSUME NEW dir, NEW y, NEW a, \A b, z : z.anode # a => (In(y, b, z) <=> In(dir, b, z))
  PROVE  Others(y, a) = Others(dir, a)
  BY DEF Others, Blocks

LEMMA BudgetSized ==
  ASSUME NEW dir, NEW y, Tree(dir), Tree(y), NEW avail, Budget(dir, avail), NEW d, NEW e, NEW k, NEW f,
         Swaps(dir, y, d, e, k, f), f.anode = e.anode, NEW left \in Nat, left + Weight(f) = avail + Weight(e)
  PROVE  Budget(y, left)
<1>1. In(dir, d, e) /\ In(y, k, f)
  BY DEF Swaps
<1>2. \A b, z : z.anode # e.anode => (In(y, b, z) <=> In(dir, b, z))
  BY DEF Swaps
<1>3. Others(y, f.anode) = Others(dir, e.anode)
  BY <1>2, OthersSame
<1>4. /\ IsFiniteSet(Others(dir, e.anode)) /\ Cardinality(Others(dir, e.anode)) \in Nat /\ Weight(e) \in Nat
      /\ Cardinality(Others(dir, e.anode)) + Weight(e) + avail = Room /\ avail \in Nat
  BY <1>1, BudgetSplit
<1>5. Weight(f) \in Nat /\ Blocks(y) = Others(y, f.anode) \cup Own(f.anode, Weight(f))
  BY <1>1, BlocksSplit
<1>6. IsFiniteSet(Blocks(y)) /\ Cardinality(Blocks(y)) = Cardinality(Others(y, f.anode)) + Weight(f)
  BY <1>3, <1>4, <1>5, SplitCounts
<1>7. QED
  BY <1>3, <1>4, <1>5, <1>6 DEF Budget

LEMMA BudgetGains ==
  ASSUME NEW dir, NEW y, NEW avail, Budget(dir, avail), NEW k, NEW f, Gains(dir, y, k, f), f.size = 0
  PROVE  Budget(y, avail)
<1>1. Weight(f) = 0
  BY DEF Weight
<1>2. Blocks(y) = Blocks(dir)
  BY <1>1 DEF Blocks, Gains
<1>3. QED
  BY <1>2 DEF Budget

LEMMA BudgetLoses ==
  ASSUME NEW dir, NEW y, Tree(dir), NEW avail, Budget(dir, avail), NEW d, NEW e, Loses(dir, y, d, e),
         NEW left \in Nat, left = avail + Weight(e)
  PROVE  Budget(y, left)
<1>1. In(dir, d, e)
  BY DEF Loses
<1>2. \A b, z : z.anode # e.anode => (In(y, b, z) <=> In(dir, b, z))
  BY DEF Loses
<1>3. Others(y, e.anode) = Others(dir, e.anode)
  BY <1>2, OthersSame
<1>4. /\ IsFiniteSet(Others(dir, e.anode)) /\ Cardinality(Others(dir, e.anode)) \in Nat /\ Weight(e) \in Nat
      /\ Cardinality(Others(dir, e.anode)) + Weight(e) + avail = Room /\ avail \in Nat
  BY <1>1, BudgetSplit
<1>5. \A b, z : In(y, b, z) => z.anode # e.anode
  BY <1>1 DEF Loses, Tree
<1>6. Blocks(y) = Others(y, e.anode)
  BY <1>5 DEF Blocks, Others
<1>7. QED
  BY <1>3, <1>4, <1>6 DEF Budget
-----------------------------------------------------------------------------
(***************************************************************************)
(* What the calls of the library do, as far as programs see it.             *)
(***************************************************************************)
Seen(x, L) == Tree(x.dir) /\ Shows(x.dir, L) /\ Budget(x.dir, x.avail)

Kept(x, y) == y.dir = x.dir /\ y.avail = x.avail
\* A file gets another size; a file or a directory comes, goes, or moves.
SizeGiven(x, y, p, t) ==
  \E d, e, f :
    /\ Denotes(x.dir, p, d, e) /\ e.kind = "file" /\ Swaps(x.dir, y.dir, d, e, d, f)
    /\ f.name = e.name /\ f.anode = e.anode /\ f.kind = "file" /\ f.size = t
    /\ y.avail \in Nat /\ y.avail + t = x.avail + e.size
Came(x, y, p, kind) ==
  \E k, f :
    /\ Under(x.dir, p, k) /\ Gains(x.dir, y.dir, k, f) /\ y.avail = x.avail
    /\ f.name = Last(p) /\ f.kind = kind /\ f.size = 0 /\ f.anode # RootDir
    /\ \A b, z : In(x.dir, b, z) => z.anode # f.anode
Went(x, y, p) ==
  \E d, e :
    /\ Denotes(x.dir, p, d, e) /\ Loses(x.dir, y.dir, d, e) /\ y.avail = x.avail + Weight(e)
    /\ e.kind = "dir" => \A z : ~In(x.dir, e.anode, z)
WasMoved(x, y, p, q) ==
  \E d, e, k, f :
    /\ Denotes(x.dir, p, d, e) /\ Under(x.dir, q, k) /\ Swaps(x.dir, y.dir, d, e, k, f)
    /\ f.name = Last(q) /\ f.kind = e.kind /\ f.anode = e.anode /\ f.size = e.size
    /\ y.avail = x.avail

LEMMA SeenKept ==
  ASSUME NEW x, NEW y, NEW L, Seen(x, L), Kept(x, y)
  PROVE  Seen(y, L)
  BY DEF Seen, Kept

LEMMA SeenSized ==
  ASSUME NEW x, NEW y, NEW L, Seen(x, L), Tree(y.dir), NEW p \in Paths, NEW t, SizeGiven(x, y, p, t)
  PROVE  Seen(y, [L EXCEPT ![p] = t]) /\ t \in 0 .. Room
<1>1. PICK d, e, f :
        /\ Denotes(x.dir, p, d, e) /\ e.kind = "file" /\ Swaps(x.dir, y.dir, d, e, d, f)
        /\ f.name = e.name /\ f.anode = e.anode /\ f.kind = "file" /\ f.size = t
        /\ y.avail \in Nat /\ y.avail + t = x.avail + e.size
  BY DEF SizeGiven
<1>2. Tree(x.dir) /\ Shows(x.dir, L) /\ Budget(x.dir, x.avail)
  BY DEF Seen
<1>3. Shows(y.dir, [L EXCEPT ![p] = f.size])
  BY <1>1, <1>2, TableSized
<1>4. Weight(e) = e.size /\ Weight(f) = t
  BY <1>1 DEF Weight
<1>5. Budget(y.dir, y.avail)
  BY <1>1, <1>2, <1>4, BudgetSized
<1>6. In(y.dir, d, f)
  BY <1>1 DEF Swaps
<1>7. t \in 0 .. Room
  BY <1>4, <1>5, <1>6, BudgetSplit
<1>8. QED
  BY <1>1, <1>3, <1>5, <1>7 DEF Seen

LEMMA SeenCame ==
  ASSUME NEW x, NEW y, NEW L, Seen(x, L), Tree(y.dir), NEW p \in Paths, NEW kind, Came(x, y, p, kind)
  PROVE  Seen(y, [L EXCEPT ![p] = IF kind = "dir" THEN Dir ELSE 0])
<1>1. PICK k, f :
        /\ Under(x.dir, p, k) /\ Gains(x.dir, y.dir, k, f) /\ y.avail = x.avail
        /\ f.name = Last(p) /\ f.kind = kind /\ f.size = 0 /\ f.anode # RootDir
        /\ \A b, z : In(x.dir, b, z) => z.anode # f.anode
  BY DEF Came
<1>2. Tree(x.dir) /\ Shows(x.dir, L) /\ Budget(x.dir, x.avail)
  BY DEF Seen
<1>3. Shows(y.dir, [L EXCEPT ![p] = Look(f)])
  BY <1>1, <1>2, TableGains
<1>4. Look(f) = IF kind = "dir" THEN Dir ELSE 0
  BY <1>1 DEF Look
<1>5. Budget(y.dir, y.avail)
  BY <1>1, <1>2, BudgetGains
<1>6. QED
  BY <1>3, <1>4, <1>5 DEF Seen

LEMMA SeenWent ==
  ASSUME NEW x, NEW y, NEW L, Seen(x, L), Tree(y.dir), NEW p \in Paths, Went(x, y, p)
  PROVE  Seen(y, [L EXCEPT ![p] = None])
<1>1. PICK d, e :
        /\ Denotes(x.dir, p, d, e) /\ Loses(x.dir, y.dir, d, e) /\ y.avail = x.avail + Weight(e)
        /\ e.kind = "dir" => \A z : ~In(x.dir, e.anode, z)
  BY DEF Went
<1>2. Tree(x.dir) /\ Shows(x.dir, L) /\ Budget(x.dir, x.avail)
  BY DEF Seen
<1>3. Shows(y.dir, [L EXCEPT ![p] = None])
  BY <1>1, <1>2, TableLoses
<1>4. Weight(e) \in Nat /\ x.avail \in Nat
  BY <1>1, <1>2, BudgetSplit DEF Loses
<1>5. y.avail \in Nat
  BY <1>1, <1>4
<1>6. Budget(y.dir, y.avail)
  BY <1>1, <1>2, <1>5, BudgetLoses
<1>7. QED
  BY <1>3, <1>6 DEF Seen

LEMMA SeenMoved ==
  ASSUME PathsClosed, NEW x, NEW y, NEW L, Seen(x, L), Tree(y.dir), NEW p \in Paths, NEW q \in Paths, p # q,
         WasMoved(x, y, p, q)
  PROVE  Seen(y, MovedTable(L, p, q))
<1>1. PICK d, e, k, f :
        /\ Denotes(x.dir, p, d, e) /\ Under(x.dir, q, k) /\ Swaps(x.dir, y.dir, d, e, k, f)
        /\ f.name = Last(q) /\ f.kind = e.kind /\ f.anode = e.anode /\ f.size = e.size
        /\ y.avail = x.avail
  BY DEF WasMoved
<1>2. Tree(x.dir) /\ Shows(x.dir, L) /\ Budget(x.dir, x.avail) /\ x.avail \in Nat
  BY DEF Seen, Budget
<1>3. Shows(y.dir, MovedTable(L, p, q))
  BY <1>1, <1>2, TableMoves
<1>4. Weight(f) = Weight(e)
  BY <1>1 DEF Weight
<1>5. x.avail + Weight(f) = x.avail + Weight(e)
  BY <1>4
<1>6. Budget(y.dir, x.avail)
  BY <1>1, <1>2, <1>5, BudgetSized
<1>7. QED
  BY <1>1, <1>3, <1>6 DEF Seen

\* What programs see is told by fs_findfiles.
LEMMA SeenIs ==
  ASSUME NEW x, NEW name, Sound(x, name), NEW L, Seen(x, L)
  PROVE  L = Listing(x)
  BY ShowsListing, OneTable DEF Sound, Seen

LEMMA SoundTree ==
  ASSUME NEW x, NEW name, Sound(x, name)
  PROVE  Tree(x.dir)
  BY TreeIs DEF Sound
-----------------------------------------------------------------------------
(***************************************************************************)
(* Data of open files: positions, and sizes.                                *)
(***************************************************************************)
SameOpen(x, y) == \A k \in Handles : y.le[k] # Closed <=> x.le[k] # Closed
Steady(x, y) == Kept(x, y) /\ SameOpen(x, y)
DataEnds(x, y, p) == SameOpen(x, y) /\ (Kept(x, y) \/ \E t : SizeGiven(x, y, p, t))

LEMMA LeadsDenotes ==
  ASSUME NEW dir, NEW used, DirsOK(dir, used), NEW p, NEW at, Leads(dir, p, at)
  PROVE  /\ At(dir, at) /\ Denotes(dir, p, at[1], EntryOf(dir, at)) /\ Under(dir, p, at[1])
         /\ EntryOf(dir, at) \in DirEntry /\ EntryOf(dir, at).name = Last(p)
<1>1. At(dir, at) /\ EntryOf(dir, at).name = Last(p) /\ FolderAt(dir, p, at[1])
  BY DEF Leads, At, EntryOf
<1>2. RootDir \in DOMAIN dir
  BY DEF DirsOK, Blocky
<1>3. Under(dir, p, at[1])
  BY <1>1, <1>2 DEF FolderAt, Under, In
<1>4. EntryOf(dir, at) \in DirEntry
  BY <1>1, EntryIs DEF DirsOK, At, EntryOf
<1>5. QED
  BY <1>1, <1>3, <1>4, InIs DEF Denotes

LEMMA PutGiven ==
  ASSUME NEW x, DirsOK(x.dir, x.used), NEW p, NEW at, Leads(x.dir, p, at), EntryOf(x.dir, at).kind = "file",
         NEW size \in Nat, NEW y, y.dir = Put(x.dir, at, [EntryOf(x.dir, at) EXCEPT !.size = size]),
         y.avail \in Nat, y.avail + size = x.avail + EntryOf(x.dir, at).size
  PROVE  SizeGiven(x, y, p, size)
<1>  DEFINE e == EntryOf(x.dir, at)
            f == [e EXCEPT !.size = size]
<1>1. At(x.dir, at) /\ Denotes(x.dir, p, at[1], e) /\ e \in DirEntry /\ e.kind = "file"
  BY LeadsDenotes
<1>2. y.dir = Put(x.dir, at, f) /\ y.avail + size = x.avail + e.size
  OBVIOUS
<1>  HIDE DEF e
<1>3. f \in DirEntry /\ f.name = e.name /\ f.anode = e.anode /\ f.kind = "file" /\ f.size = size
  BY <1>1 DEF DirEntry
<1>  HIDE DEF f
<1>4. Swaps(x.dir, y.dir, at[1], e, at[1], f)
  BY <1>1, <1>2, <1>3, PutSwaps DEF e
<1>5. QED
  BY <1>1, <1>2, <1>3, <1>4 DEF SizeGiven

LEMMA SteadyThen ==
  ASSUME NEW x, NEW y, NEW z, NEW p, Steady(x, y), DataEnds(y, z, p)
  PROVE  DataEnds(x, z, p)
<1>1. SameOpen(x, z)
  BY DEF SameOpen, Steady, DataEnds
<1>2. CASE Kept(y, z)
  BY <1>1, <1>2 DEF Steady, DataEnds, Kept
<1>3. ASSUME NEW t, SizeGiven(y, z, p, t) PROVE SizeGiven(x, z, p, t)
  BY <1>3 DEF SizeGiven, Steady, Kept
<1>4. QED
  BY <1>1, <1>2, <1>3 DEF DataEnds

LEMMA SteadyIs ==
  ASSUME NEW x, NEW y, NEW p, Steady(x, y)
  PROVE  DataEnds(x, y, p)
  BY DEF Steady, DataEnds

LEMMA SameSteady ==
  ASSUME NEW x
  PROVE  Steady(x, x)
  BY DEF Steady, SameOpen, Kept

LEMMA OffsetSteady ==
  ASSUME NEW x, NEW name, Sound(x, name), NEW h \in Handles, Opened(x, h), NEW ofs \in Nat
  PROVE  Steady(x, [x EXCEPT !.le[h].offset = ofs])
<1>  DEFINE le2 == [x.le EXCEPT ![h].offset = ofs]
            y == [x EXCEPT !.le = le2]
<1>1. x.le \in [Handles -> {Closed} \cup OpenFileEntry] /\ x.le[h] # Closed
      /\ x = [dir |-> x.dir, used |-> x.used, le |-> x.le, locks |-> x.locks, avail |-> x.avail]
  BY DEF Sound, Volume, Opened
<1>2. le2[h] # Closed /\ \A k \in Handles \ {h} : le2[k] = x.le[k]
  BY <1>1, PositionIs
<1>3. [x EXCEPT !.le[h].offset = ofs] = y
  BY <1>1
<1>  HIDE DEF le2
<1>4. y.dir = x.dir /\ y.le = le2 /\ y.avail = x.avail
  BY SMTT(60), <1>1
<1>  HIDE DEF y
<1>5. QED
  BY <1>1, <1>2, <1>3, <1>4 DEF Steady, Kept, SameOpen

LEMMA SeekSteady ==
  ASSUME NEW x, NEW name, Sound(x, name), NEW h \in Handles, Opened(x, h), NEW ofs \in Nat
  PROVE  Steady(x, Seekfile(x, h, ofs).g) /\ Steady(x, SeekUnlessThere(x, h, ofs).g)
<1>1. Steady(x, Seekfile(x, h, ofs).g)
  <2>1. CASE ofs > SizeOf(x, h)
    <3>1. Seekfile(x, h, ofs).g = x
      BY <2>1 DEF Seekfile, Fail, Result
    <3>2. QED
      BY <3>1, SameSteady
  <2>2. CASE ~(ofs > SizeOf(x, h))
    <3>1. Seekfile(x, h, ofs).g = [x EXCEPT !.le[h].offset = ofs]
      BY <2>2 DEF Seekfile, Result
    <3>2. QED
      BY <3>1, OffsetSteady
  <2>3. QED
    BY <2>1, <2>2
<1>2. CASE x.le[h].offset = ofs
  <2>1. SeekUnlessThere(x, h, ofs).g = x
    BY <1>2 DEF SeekUnlessThere, Result
  <2>2. QED
    BY <1>1, <2>1, SameSteady
<1>3. CASE x.le[h].offset # ofs
  BY <1>1, <1>3 DEF SeekUnlessThere
<1>4. QED
  BY <1>2, <1>3

LEMMA ReadSteady ==
  ASSUME NEW x, NEW name, Sound(x, name), NEW h \in Handles, Opened(x, h), NEW n \in Nat
  PROVE  Steady(x, Readfile(x, h, n).g)
<1>  DEFINE to == Min({x.le[h].offset + n, SizeOf(x, h)})
<1>1. x.le[h].offset \in Nat /\ SizeOf(x, h) \in Nat
  BY OpenIs
<1>2. to \in Nat
  BY <1>1, MinOfTwo
<1>3. Readfile(x, h, n).g = [x EXCEPT !.le[h].offset = to]
  <2>1. x = [dir |-> x.dir, used |-> x.used, le |-> x.le, locks |-> x.locks, avail |-> x.avail]
        /\ x.le \in [Handles -> {Closed} \cup OpenFileEntry] /\ x.le[h] \in OpenFileEntry
    BY SMTT(60), OpenIs DEF Sound, Volume
  <2>2. QED
    BY <2>1 DEF Readfile, Result, OpenFileEntry
<1>  HIDE DEF to
<1>4. QED
  BY <1>2, <1>3, OffsetSteady

\* AllocateBlocksAC and FreeBlocksAC
LEMMA ResizedIs ==
  ASSUME NEW x, NEW name, Sound(x, name), NEW h \in Handles, Opened(x, h), NEW size \in Nat,
         IsFileAt(x, x.le[h].at), size <= SizeOf(x, h) + x.avail
  PROVE  /\ SizeGiven(x, Resized(x, h, size), name[h], size) /\ Resized(x, h, size).le = x.le
         /\ Resized(x, h, size) = [dir |-> Resized(x, h, size).dir, used |-> x.used, le |-> x.le,
                                   locks |-> x.locks, avail |-> Resized(x, h, size).avail]
<1>  DEFINE at == x.le[h].at
            old == SizeOf(x, h)
            a == (x.avail + old) - size
            D == Put(x.dir, at, [EntryOf(x.dir, at) EXCEPT !.size = size])
            y == Resized(x, h, size)
<1>1. /\ At(x.dir, at) /\ EntryAt(x, at) = EntryOf(x.dir, at) /\ old \in Nat /\ x.avail \in Nat
      /\ old = EntryOf(x.dir, at).size /\ DirsOK(x.dir, x.used) /\ Leads(x.dir, name[h], at)
  BY OpenIs, RefIs DEF Sound, Volume, Opened
<1>2. a \in Nat /\ a + size = x.avail + EntryOf(x.dir, at).size
  BY <1>1
<1>3. EntryOf(x.dir, at).kind = "file"
  BY <1>1 DEF IsFileAt
<1>4. y = [dir |-> D, used |-> x.used, le |-> x.le, locks |-> x.locks, avail |-> a]
  <2>1. y = SetSize([x EXCEPT !.avail = (@ + old) - size], at, size)
    BY DEF Resized
  <2>2. [x EXCEPT !.avail = (@ + old) - size] = [x EXCEPT !.avail = a]
    BY DEF Sound, Volume
  <2>  HIDE DEF a
  <2>3. QED
    BY <1>1, <1>3, <2>1, <2>2, SetSizeIs
<1>5. y.dir = D /\ y.avail = a /\ y.le = x.le
  BY <1>4
<1>  HIDE DEF y, a
<1>6. SizeGiven(x, y, name[h], size)
  BY <1>1, <1>2, <1>3, <1>5, PutGiven
<1>7. QED
  BY <1>4, <1>5, <1>6 DEF y

\* The list of open files changes besides.
LEMMA SizedThen ==
  ASSUME NEW x, NEW y, NEW z, NEW p, NEW t, SizeGiven(x, y, p, t), Kept(y, z), SameOpen(x, z)
  PROVE  DataEnds(x, z, p)
<1>1. SizeGiven(x, z, p, t)
  BY DEF SizeGiven, Kept
<1>2. QED
  BY <1>1 DEF DataEnds

\* WriteToFile
LEMMA WriteEnds ==
  ASSUME NEW x, NEW name, Sound(x, name), NEW h \in Handles, Opened(x, h), NEW n \in Nat
  PROVE  DataEnds(x, Writefile(x, h, n).g, name[h])
<1>  DEFINE end == x.le[h].offset + n
            size == Max({end, SizeOf(x, h)})
            y == Resized(x, h, size)
            le2 == [x.le EXCEPT ![h].offset = end]
            z == [y EXCEPT !.le[h].offset = end]
<1>1. CASE ~IsFileAt(x, x.le[h].at) \/ NoRoom(x, h, end)
  <2>1. Writefile(x, h, n).g = x
    BY <1>1 DEF Writefile, Fail, Result
  <2>2. QED
    BY <2>1, SameSteady, SteadyIs
<1>2. CASE IsFileAt(x, x.le[h].at) /\ ~NoRoom(x, h, end)
  <2>1. SizeOf(x, h) \in Nat /\ x.le[h].offset \in Nat /\ x.avail \in Nat /\ x.le[h] # Closed
        /\ x.le \in [Handles -> {Closed} \cup OpenFileEntry]
    BY OpenIs DEF Sound, Volume, Opened
  <2>2. end \in Nat /\ size \in Nat /\ size <= SizeOf(x, h) + x.avail
    <3>1. end \in Nat /\ end <= SizeOf(x, h) + x.avail
      BY <1>2, <2>1 DEF NoRoom
    <3>2. size \in Nat /\ size \in {end, SizeOf(x, h)}
      BY <2>1, <3>1, MaxOfTwo
    <3>  HIDE DEF size, end
    <3>3. QED
      BY <2>1, <3>1, <3>2
  <2>3. Writefile(x, h, n).g = z
    BY <1>2 DEF Writefile, Result
  <2>  HIDE DEF end, size
  <2>4. SizeGiven(x, y, name[h], size) /\ y.le = x.le
        /\ y = [dir |-> y.dir, used |-> x.used, le |-> x.le, locks |-> x.locks, avail |-> y.avail]
    BY <1>2, <2>2, ResizedIs
  <2>5. le2[h] # Closed /\ \A k \in Handles \ {h} : le2[k] = x.le[k]
    BY <2>1, <2>2, PositionIs
  <2>  HIDE DEF y
  <2>6. z = [y EXCEPT !.le = le2]
    BY <2>4
  <2>  HIDE DEF le2, z
  <2>7. Kept(y, z) /\ z.le = le2
    BY SMTT(60), <2>4, <2>6 DEF Kept
  <2>8. SameOpen(x, z)
    BY <2>1, <2>5, <2>7 DEF SameOpen
  <2>9. QED
    BY <2>3, <2>4, <2>7, <2>8, SizedThen
<1>3. QED
  BY <1>1, <1>2

\* ChangeFileSize
LEMMA ChangeEnds ==
  ASSUME NEW x, NEW name, Sound(x, name), NEW h \in Handles, Opened(x, h), NEW size \in Nat
  PROVE  DataEnds(x, ChangefileSize(x, h, size).g, name[h])
<1>  DEFINE y == Resized(x, h, size)
            a == x.le[h].anode
            le2 == [k \in Handles |->
                     IF k \in UsersOf(y, a) THEN [y.le[k] EXCEPT !.offset = Min({@, size})] ELSE y.le[k]]
            z == PositionsCut(y, a, size)
<1>1. CASE ~IsFileAt(x, x.le[h].at) \/ NoRoom(x, h, size)
  <2>1. ChangefileSize(x, h, size).g = x
    BY <1>1 DEF ChangefileSize, Fail, Result
  <2>2. QED
    BY <2>1, SameSteady, SteadyIs
<1>2. CASE IsFileAt(x, x.le[h].at) /\ ~NoRoom(x, h, size)
  <2>1. size <= SizeOf(x, h) + x.avail
    <3>1. SizeOf(x, h) \in Nat /\ x.avail \in Nat
      BY OpenIs DEF Sound, Volume
    <3>2. QED
      BY <1>2, <3>1 DEF NoRoom
  <2>2. ChangefileSize(x, h, size).g = z
    BY <1>2 DEF ChangefileSize, Result
  <2>3. SizeGiven(x, y, name[h], size) /\ y.le = x.le
        /\ y = [dir |-> y.dir, used |-> x.used, le |-> x.le, locks |-> x.locks, avail |-> y.avail]
    BY <1>2, <2>1, ResizedIs
  <2>  HIDE DEF y
  <2>4. z = [y EXCEPT !.le = le2]
    BY DEF PositionsCut
  <2>5. \A k \in Handles : le2[k] # Closed <=> x.le[k] # Closed
    <3>  SUFFICES ASSUME NEW k \in Handles PROVE le2[k] # Closed <=> x.le[k] # Closed
      OBVIOUS
    <3>1. CASE k \notin UsersOf(y, a)
      BY <2>3, <3>1
    <3>2. CASE k \in UsersOf(y, a)
      <4>  DEFINE m == Min({x.le[k].offset, size})
      <4>1. x.le[k] # Closed /\ x.le[k] \in OpenFileEntry
        BY <2>3, <3>2, OpenIs DEF UsersOf, Opened
      <4>2. le2[k] = [x.le[k] EXCEPT !.offset = m]
        BY <2>3, <3>2, <4>1 DEF OpenFileEntry
      <4>  HIDE DEF m
      <4>3. x.le[k] = Has(x.le[k]) /\ x.le[k].open # Closed.open
        BY <4>1 DEF Has, OpenFileEntry, Closed
      <4>4. le2[k] # Closed
        BY <4>2, <4>3, FieldIs
      <4>5. QED
        BY <4>1, <4>4
    <3>3. QED
      BY <3>1, <3>2
  <2>  HIDE DEF le2, z
  <2>6. Kept(y, z) /\ z.le = le2
    BY <2>3, <2>4 DEF Kept
  <2>7. SameOpen(x, z)
    BY <2>5, <2>6 DEF SameOpen
  <2>8. QED
    BY <2>2, <2>3, <2>6, <2>7, SizedThen
<1>3. QED
  BY <1>1, <1>2

LEMMA WriteAtEnds ==
  ASSUME NEW x, NEW s, Steady(x, s.g), NEW name, Sound(s.g, name), NEW h \in Handles, Opened(s.g, h), NEW n \in Nat
  PROVE  DataEnds(x, WriteAt(s, h, n).g, name[h])
  BY WriteEnds, SteadyThen, SteadyIs DEF WriteAt

LEMMA TruncateAtEnds ==
  ASSUME NEW x, NEW s, Steady(x, s.g), NEW name, Sound(s.g, name), NEW h \in Handles, Opened(s.g, h)
  PROVE  DataEnds(x, TruncateAt(s, h).g, name[h])
<1>1. s.g.le[h].offset \in Nat
  BY OpenIs
<1>2. QED
  BY <1>1, ChangeEnds, SteadyThen, SteadyIs DEF TruncateAt
-----------------------------------------------------------------------------
(***************************************************************************)
(* Files are opened and made.                                               *)
(***************************************************************************)
Opens(x, y, h) == y.le[h] # Closed /\ \A k \in Handles \ {h} : y.le[k] # Closed <=> x.le[k] # Closed
NoneHas(x, a) == a \notin x.locks /\ UsersOf(x, a) = {}
Held(x) == x.locks \subseteq DOMAIN x.dir \ {RootDir}

LEMMA WithGains ==
  ASSUME NEW dir, Blocky(dir), NEW d \in DOMAIN dir, NEW e \in DirEntry
  PROVE  Gains(dir, With(dir, d, e), d, e)
<1>  DEFINE y == With(dir, d, e)
<1>1. /\ DOMAIN y = DOMAIN dir
      /\ \A c \in DOMAIN dir : Len(y[c]) = IF c = d THEN Len(dir[d]) + 1 ELSE Len(dir[c])
      /\ \A c \in DOMAIN dir : \A i \in 1 .. Len(dir[c]) : y[c][i] = dir[c][i]
      /\ y[d][Len(dir[d]) + 1] = e
  BY WithIs
<1>2. \A c \in DOMAIN dir : Len(dir[c]) \in Nat
  BY EntryIs
<1>  HIDE DEF y
<1>3. ASSUME NEW b, NEW z, In(y, b, z) PROVE In(dir, b, z) \/ (b = d /\ z = e)
  <2>1. PICK i \in 1 .. Len(y[b]) : y[b][i] = z /\ b \in DOMAIN dir
    BY <1>1, <1>3 DEF In
  <2>2. CASE i \in 1 .. Len(dir[b])
    BY <1>1, <2>1, <2>2 DEF In
  <2>3. CASE i \notin 1 .. Len(dir[b])
    <3>1. b = d /\ i = Len(dir[d]) + 1
      BY <1>1, <1>2, <2>1, <2>3
    <3>2. QED
      BY <1>1, <2>1, <3>1
  <2>4. QED
    BY <2>2, <2>3
<1>4. ASSUME NEW b, NEW z, In(dir, b, z) PROVE In(y, b, z)
  <2>1. PICK i \in 1 .. Len(dir[b]) : dir[b][i] = z /\ b \in DOMAIN dir
    BY <1>4 DEF In
  <2>2. y[b][i] = z /\ i \in 1 .. Len(y[b])
    BY <1>1, <1>2, <2>1
  <2>3. QED
    BY <1>1, <2>1, <2>2 DEF In
<1>5. In(y, d, e)
  <2>1. Len(dir[d]) + 1 \in 1 .. Len(y[d])
    BY <1>1, <1>2
  <2>2. QED
    BY <1>1, <2>1 DEF In
<1>6. QED
  BY <1>3, <1>4, <1>5 DEF Gains, y

\* NewFile and NewDir have an anode nobody has or had locked.
LEMMA FreshIs ==
  ASSUME NEW x, NEW name, Sound(x, name), Held(x), FreeAnodes(x) # {}
  PROVE  /\ AllocAnode(x) \in Anodes /\ AllocAnode(x) # RootDir /\ NoneHas(x, AllocAnode(x))
         /\ \A b, z : In(x.dir, b, z) => z.anode # AllocAnode(x)
<1>  DEFINE a == AllocAnode(x)
<1>1. a \in Anodes /\ a \notin x.used
  BY FreeAnodeIs
<1>2. DirsOK(x.dir, x.used)
  BY DEF Sound
<1>3. DOMAIN x.dir \subseteq x.used \cup {RootDir} /\ RootDir \notin Anodes
  BY <1>2, BlocksInUse
<1>4. \A b, z : In(x.dir, b, z) => z.anode \in x.used
  BY <1>2 DEF DirsOK, Told, In
<1>  HIDE DEF a
<1>5. \A k \in Handles : Opened(x, k) => x.le[k].anode \in x.used
  <2>  SUFFICES ASSUME NEW k \in Handles, Opened(x, k) PROVE x.le[k].anode \in x.used
    OBVIOUS
  <2>1. At(x.dir, x.le[k].at) /\ EntryOf(x.dir, x.le[k].at).anode = x.le[k].anode
    BY OpenIs
  <2>2. QED
    BY <1>4, <2>1, InIs
<1>6. QED
  BY <1>1, <1>3, <1>4, <1>5 DEF NoneHas, UsersOf, Held, a

\* Nor has a file a lock of a directory.
LEMMA FileFree ==
  ASSUME NEW x, NEW name, Sound(x, name), Held(x), NEW at, At(x.dir, at), EntryOf(x.dir, at).kind # "dir"
  PROVE  EntryOf(x.dir, at).anode \notin x.locks
<1>  DEFINE e == EntryOf(x.dir, at)
<1>1. Tree(x.dir) /\ Rooted(x.dir) /\ In(x.dir, at[1], e) /\ RootDir \in DOMAIN x.dir
  BY SoundTree, InIs DEF Sound, DirsOK, Blocky
<1>  HIDE DEF e
<1>2. ASSUME e.anode \in x.locks PROVE e.kind = "dir"
  <2>1. PICK i \in 1 .. Len(x.dir[RootDir]) : x.dir[RootDir][i].anode = e.anode /\ x.dir[RootDir][i].kind = "dir"
    BY <1>1, <1>2 DEF Held, Rooted
  <2>2. In(x.dir, RootDir, x.dir[RootDir][i])
    BY <1>1, <2>1 DEF In
  <2>3. QED
    BY <1>1, <2>1, <2>2 DEF Tree
<1>3. QED
  BY <1>2 DEF e

\* MakeListEntry and AddListEntry
AddGives(r, y, h, a) ==
  /\ \/ r.error # "eOK" /\ r.g = y
     \/ r.error = "eOK" /\ Kept(y, r.g) /\ Opens(y, r.g, h)
  /\ NoneHas(y, a) => r.error = "eOK"
LEMMA AddListGives ==
  ASSUME NEW y, NEW name, Sound(y, name), NEW h \in Handles, NEW at, NEW exclusive
  PROVE  AddGives(AddListEntry(y, h, at, exclusive), y, h, EntryAt(y, at).anode)
<1>  DEFINE a == EntryAt(y, at).anode
            f == [open |-> TRUE, anode |-> a, at |-> at, exclusive |-> exclusive, offset |-> 0]
            r == AddListEntry(y, h, at, exclusive)
<1>1. CASE AccessConflict(y, a, exclusive)
  <2>1. r.error # "eOK" /\ r.g = y
    BY <1>1 DEF AddListEntry, Fail, Result
  <2>2. ~NoneHas(y, a)
    BY <1>1 DEF AccessConflict, NoneHas
  <2>3. QED
    BY <2>1, <2>2 DEF AddGives
<1>2. CASE ~AccessConflict(y, a, exclusive)
  <2>1. r.error = "eOK" /\ r.g = [y EXCEPT !.le[h] = f]
    BY <1>2 DEF AddListEntry, Result
  <2>2. f.open # Closed.open
    BY DEF Closed
  <2>3. f # Closed
    BY <2>2
  <2>4. y = [dir |-> y.dir, used |-> y.used, le |-> y.le, locks |-> y.locks, avail |-> y.avail]
        /\ y.le \in [Handles -> {Closed} \cup OpenFileEntry]
    BY DEF Sound, Volume
  <2>  HIDE DEF f, r, a
  <2>5. r.g = [dir |-> y.dir, used |-> y.used, le |-> [y.le EXCEPT ![h] = f], locks |-> y.locks, avail |-> y.avail]
    BY <2>1, <2>4
  <2>6. r.g.dir = y.dir /\ r.g.avail = y.avail /\ r.g.le = [y.le EXCEPT ![h] = f]
    BY <2>5
  <2>7. Kept(y, r.g) /\ Opens(y, r.g, h)
    BY <2>3, <2>4, <2>6 DEF Kept, Opens
  <2>8. QED
    BY <2>1, <2>7 DEF AddGives, r, a
<1>3. QED
  BY <1>1, <1>2

\* NewFile of a file that is there, and of a new one.
LEMMA NewFileFoundGiven ==
  ASSUME NEW x, NEW name, Sound(x, name), NEW p, NEW at, Leads(x.dir, p, at), EntryOf(x.dir, at).kind = "file"
  PROVE  SizeGiven(x, NewFileFound(x, at), p, 0)
<1>  DEFINE e == EntryOf(x.dir, at)
            D == Put(x.dir, at, [e EXCEPT !.size = 0])
            y == NewFileFound(x, at)
<1>1. DirsOK(x.dir, x.used) /\ Blocky(x.dir) /\ x.avail \in Nat /\ At(x.dir, at) /\ e \in DirEntry
  BY LeadsDenotes DEF Sound, Volume, DirsOK
<1>2. EntryAt(x, at) = e /\ e.size \in Nat
  BY <1>1, EntryAtIs DEF DirEntry
<1>3. y = [dir |-> D, used |-> x.used, le |-> x.le, locks |-> x.locks, avail |-> x.avail + e.size]
  BY <1>1, <1>2, SetSizeIs DEF NewFileFound
<1>4. y.dir = D /\ y.avail = x.avail + e.size
  BY <1>3
<1>5. y.avail \in Nat /\ y.avail + 0 = x.avail + e.size
  BY <1>1, <1>2, <1>4
<1>  HIDE DEF y
<1>6. QED
  BY <1>1, <1>4, <1>5, PutGiven DEF y

LEMMA NewEntryIs ==
  ASSUME NEW x, NEW name, Sound(x, name), NEW p \in Paths, FolderOf(x, p) # 0, NEW kind \in {"file", "dir"},
         FreeAnodes(x) # {}, NEW e,
         e = [name |-> Last(p), anode |-> AllocAnode(x), kind |-> kind, size |-> 0]
  PROVE  /\ NewEntry(x, FolderOf(x, p), Last(p), kind) =
              [dir |-> With(x.dir, FolderOf(x, p), e), used |-> x.used \cup {AllocAnode(x)}, le |-> x.le,
               locks |-> x.locks, avail |-> x.avail]
         /\ FolderOf(x, p) \in DOMAIN x.dir /\ Under(x.dir, p, FolderOf(x, p)) /\ e \in DirEntry
         /\ Gains(x.dir, With(x.dir, FolderOf(x, p), e), FolderOf(x, p), e)
         /\ EntryAt(NewEntry(x, FolderOf(x, p), Last(p), kind),
                    Added(NewEntry(x, FolderOf(x, p), Last(p), kind), FolderOf(x, p))) = e
<1>  DEFINE d == FolderOf(x, p)
            a == AllocAnode(x)
            D == With(x.dir, d, e)
            y == NewEntry(x, d, Last(p), kind)
            n == Len(x.dir[d]) + 1
<1>1. x = [dir |-> x.dir, used |-> x.used, le |-> x.le, locks |-> x.locks, avail |-> x.avail]
      /\ DirsOK(x.dir, x.used) /\ Blocky(x.dir) /\ RootDir \in DOMAIN x.dir
  BY DEF Sound, Volume, DirsOK, Blocky
<1>2. d \in DOMAIN x.dir /\ FolderAt(x.dir, p, d)
  BY <1>1, FolderIs
<1>3. Under(x.dir, p, d)
  BY <1>1, <1>2 DEF FolderAt, Under, In
<1>4. a \in Anodes
  BY FreeAnodeIs
<1>  HIDE DEF a, d
<1>5. e \in DirEntry
  BY <1>4, PathIs DEF DirEntry, a
<1>6. y = [dir |-> D, used |-> x.used \cup {a}, le |-> x.le, locks |-> x.locks, avail |-> x.avail]
  <2>1. y = [[x EXCEPT !.used = @ \cup {a}] EXCEPT !.dir[d] = Append(@, e)]
    BY DEF NewEntry, AddDirectoryEntry, a
  <2>  HIDE DEF y
  <2>2. QED
    BY <1>1, <2>1 DEF With
<1>7. Gains(x.dir, D, d, e)
  BY <1>1, <1>2, <1>5, WithGains
<1>8. /\ DOMAIN D = DOMAIN x.dir /\ Len(D[d]) = n /\ D[d][n] = e /\ Len(x.dir[d]) \in Nat /\ Blocky(D)
  <2>1. Len(x.dir[d]) \in Nat
    BY <1>1, <1>2, EntryIs
  <2>2. /\ DOMAIN D = DOMAIN x.dir /\ Blocky(D) /\ D[d][Len(x.dir[d]) + 1] = e
        /\ \A c \in DOMAIN x.dir : Len(D[c]) = IF c = d THEN Len(x.dir[d]) + 1 ELSE Len(x.dir[c])
    <3>1. Blocky(x.dir) /\ d \in DOMAIN x.dir /\ e \in DirEntry
      BY <1>1, <1>2, <1>5
    <3>2. QED
      BY ONLY <3>1, WithIs
  <2>  HIDE DEF D
  <2>3. QED
    BY <1>2, <2>1, <2>2
<1>9. y.dir = D
  BY <1>6
<1>  HIDE DEF y, D
<1>10. Added(y, d) = <<d, n>>
  BY <1>8, <1>9 DEF Added
<1>11. At(y.dir, <<d, n>>) /\ EntryOf(y.dir, <<d, n>>) = e
  BY <1>2, <1>8, <1>9 DEF At, EntryOf
<1>12. EntryAt(y, <<d, n>>) = e
  BY <1>8, <1>9, <1>11, EntryAtIs
<1>13. QED
  BY <1>2, <1>3, <1>5, <1>6, <1>7, <1>10, <1>12 DEF y, d, a, D

\* PFS3::Createfile
NoUser(x, p) == UsersOf(x, EntryAt(x, Find(x, p)).anode) = {}
CreateDone(x, r, h, p) ==
  \/ r.error # "eOK" /\ r.g = x
  \/ /\ r.error = "eOK" /\ Opens(x, r.g, h)
     /\ \/ Kept(x, r.g) /\ \E d, e : Denotes(x.dir, p, d, e) /\ e.kind = "file"
        \/ SizeGiven(x, r.g, p, 0) /\ NoUser(x, p)
        \/ Came(x, r.g, p, "file")

LEMMA AddedThen ==
  ASSUME NEW x, NEW y, NEW r, NEW h \in Handles, NEW a, AddGives(r, y, h, a), y.le = x.le, NoneHas(y, a), NEW p,
         (SizeGiven(x, y, p, 0) /\ NoUser(x, p)) \/ Came(x, y, p, "file")
  PROVE  CreateDone(x, r, h, p)
<1>1. r.error = "eOK" /\ Kept(y, r.g) /\ Opens(y, r.g, h)
  BY DEF AddGives
<1>2. Opens(x, r.g, h)
  BY <1>1 DEF Opens
<1>3. CASE SizeGiven(x, y, p, 0) /\ NoUser(x, p)
  <2>1. SizeGiven(x, r.g, p, 0)
    BY <1>1, <1>3 DEF SizeGiven, Kept
  <2>2. QED
    BY <1>1, <1>2, <1>3, <2>1 DEF CreateDone
<1>4. CASE Came(x, y, p, "file")
  <2>1. Came(x, r.g, p, "file")
    BY <1>1, <1>4 DEF Came, Kept
  <2>2. QED
    BY <1>1, <1>2, <2>1 DEF CreateDone
<1>5. QED
  BY <1>3, <1>4

LEMMA FoundDone ==
  ASSUME NEW x, NEW name, Sound(x, name), Held(x), NEW h \in Handles, NEW p \in Paths, Last(p) \notin Folders,
         Exists(x, p), NEW mode, NEW readOnly,
         mode \in {"omCreateAlways", "omTruncateExisting"} => UsersOf(x, EntryAt(x, Find(x, p)).anode) = {}
  PROVE  CreateDone(x, CreatefileFound(x, h, Find(x, p), mode, readOnly), h, p)
<1>  DEFINE at == Find(x, p)
            e == EntryOf(x.dir, at)
            empties == mode \in {"omCreateAlways", "omTruncateExisting"}
            y == NewFileFound(x, at)
            r == CreatefileFound(x, h, at, mode, readOnly)
<1>1. DirsOK(x.dir, x.used) /\ Blocky(x.dir) /\ Leads(x.dir, p, at)
  BY FindIs DEF Sound, DirsOK, Exists
<1>2. /\ At(x.dir, at) /\ Denotes(x.dir, p, at[1], e) /\ e.name = Last(p) /\ EntryAt(x, at) = e
      /\ e.kind # "dir" /\ e.kind = "file" /\ IsFileAt(x, at)
  <2>1. At(x.dir, at) /\ Denotes(x.dir, p, at[1], e) /\ e.name = Last(p) /\ EntryAt(x, at) = e /\ e \in DirEntry
    BY <1>1, LeadsDenotes, EntryAtIs
  <2>2. e.kind # "dir"
    BY <1>1, <2>1, NotFolder
  <2>3. e.kind = "file"
    BY <2>1, <2>2 DEF DirEntry
  <2>4. QED
    BY <2>1, <2>2, <2>3 DEF IsFileAt
<1>3. e.anode \notin x.locks
  BY <1>2, FileFree
<1>  HIDE DEF at, e
<1>4. CASE mode = "omCreate" \/ (readOnly /\ mode = "omTruncateExisting")
  BY <1>2, <1>4 DEF CreatefileFound, Fail, Result, CreateDone
<1>5. CASE ~(mode = "omCreate" \/ (readOnly /\ mode = "omTruncateExisting")) /\ empties
  <2>1. r = AddListEntry(y, h, at, ~readOnly)
    BY <1>2, <1>5 DEF CreatefileFound
  <2>2. UsersOf(x, e.anode) = {}
    BY <1>2, <1>5 DEF at
  <2>3. /\ Sound(y, name) /\ y.le = x.le /\ y.locks = x.locks
        /\ EntryOf(y.dir, at).anode = e.anode /\ Leads(y.dir, p, at)
    BY <1>1, <1>2, <2>2, NewFileFoundOK DEF e
  <2>4. SizeGiven(x, y, p, 0)
    BY <1>1, <1>2, NewFileFoundGiven DEF e
  <2>  HIDE DEF y
  <2>5. EntryAt(y, at).anode = e.anode
    <3>1. At(y.dir, at) /\ Blocky(y.dir)
      BY <2>3 DEF Leads, At, Sound, DirsOK
    <3>2. QED
      BY <2>3, <3>1, EntryAtIs
  <2>6. NoneHas(y, e.anode)
    BY <1>3, <2>2, <2>3 DEF NoneHas, UsersOf, Opened
  <2>  DEFINE w == ~readOnly
  <2>  HIDE DEF w, r
  <2>7. AddGives(r, y, h, e.anode)
    BY <2>1, <2>3, <2>5, AddListGives DEF w
  <2>8. NoUser(x, p)
    BY <1>2, <2>2 DEF NoUser, at
  <2>9. QED
    BY <2>3, <2>4, <2>6, <2>7, <2>8, AddedThen DEF r, at
<1>6. CASE ~(mode = "omCreate" \/ (readOnly /\ mode = "omTruncateExisting")) /\ ~empties
  <2>1. r = AddListEntry(x, h, at, ~readOnly)
    BY <1>2, <1>6 DEF CreatefileFound
  <2>  HIDE DEF r
  <2>2. AddGives(r, x, h, e.anode)
    BY <1>2, <2>1, AddListGives
  <2>3. CreateDone(x, r, h, p)
    BY <1>2, <2>2 DEF CreateDone, AddGives
  <2>4. QED
    BY <2>3 DEF r, at
<1>7. QED
  BY <1>4, <1>5, <1>6 DEF at

LEMMA NewDone ==
  ASSUME NEW x, NEW name, Sound(x, name), Held(x), NEW h \in Handles, NEW p \in Paths, Last(p) \notin Folders,
         ~Exists(x, p), NEW mode, NEW readOnly
  PROVE  CreateDone(x, CreatefileNew(x, h, FolderOf(x, p), Last(p), mode, readOnly), h, p)
<1>  DEFINE d == FolderOf(x, p)
            a == AllocAnode(x)
            e == [name |-> Last(p), anode |-> a, kind |-> "file", size |-> 0]
            y == NewEntry(x, d, Last(p), "file")
            r == CreatefileNew(x, h, d, Last(p), mode, readOnly)
<1>1. CASE \/ d = 0 \/ mode \in {"omOpenExisting", "omTruncateExisting"}
           \/ (readOnly /\ mode = "omCreate") \/ FreeAnodes(x) = {}
  BY <1>1 DEF CreatefileNew, Fail, Result, CreateDone
<1>2. CASE ~ \/ d = 0 \/ mode \in {"omOpenExisting", "omTruncateExisting"}
             \/ (readOnly /\ mode = "omCreate") \/ FreeAnodes(x) = {}
  <2>1. r = AddListEntry(y, h, Added(y, d), ~readOnly) /\ d # 0 /\ FreeAnodes(x) # {}
    BY <1>2 DEF CreatefileNew, AddLast
  <2>2. Find(x, p) = NoPlace
    BY DEF Exists
  <2>3. Sound(y, name) /\ y.le = x.le
    BY <2>1, <2>2, NewFileOK
  <2>4. /\ y = [dir |-> With(x.dir, d, e), used |-> x.used \cup {a}, le |-> x.le, locks |-> x.locks, avail |-> x.avail]
        /\ Under(x.dir, p, d) /\ Gains(x.dir, With(x.dir, d, e), d, e)
        /\ EntryAt(y, Added(y, d)) = e
    <3>1. "file" \in {"file", "dir"}
      OBVIOUS
    <3>2. QED
      BY <2>1, <3>1, NewEntryIs
  <2>5. /\ a # RootDir /\ NoneHas(x, a) /\ \A b, z : In(x.dir, b, z) => z.anode # a
    BY <2>1, FreshIs
  <2>6. y.dir = With(x.dir, d, e) /\ y.avail = x.avail /\ y.locks = x.locks
    BY <2>4
  <2>  HIDE DEF y, r, a, d
  <2>7. e.name = Last(p) /\ e.anode = a /\ e.kind = "file" /\ e.size = 0
    OBVIOUS
  <2>  HIDE DEF e
  <2>8. Came(x, y, p, "file")
    BY <2>4, <2>5, <2>6, <2>7 DEF Came
  <2>9. NoneHas(y, a)
    BY <2>3, <2>5, <2>6 DEF NoneHas, UsersOf, Opened
  <2>10. AddGives(r, y, h, a)
    BY <2>1, <2>3, <2>4, <2>7, AddListGives
  <2>11. CreateDone(x, r, h, p)
    BY <2>3, <2>8, <2>9, <2>10, AddedThen
  <2>12. QED
    BY <2>11 DEF r, d
<1>3. QED
  BY <1>1, <1>2

LEMMA CreatefileDone ==
  ASSUME NEW x, NEW name, Sound(x, name), Held(x), NEW h \in Handles, NEW p \in Paths, Last(p) \notin Folders,
         NEW mode, NEW readOnly,
         mode \in {"omCreateAlways", "omTruncateExisting"} => UsersOf(x, EntryAt(x, Find(x, p)).anode) = {}
  PROVE  CreateDone(x, Createfile(x, h, p, mode, readOnly), h, p)
<1>1. CASE Exists(x, p)
  <2>1. Createfile(x, h, p, mode, readOnly) = CreatefileFound(x, h, Find(x, p), mode, readOnly)
    BY <1>1 DEF Createfile
  <2>2. QED
    BY <1>1, <2>1, FoundDone
<1>2. CASE ~Exists(x, p)
  <2>1. Createfile(x, h, p, mode, readOnly) = CreatefileNew(x, h, FolderOf(x, p), Last(p), mode, readOnly)
    BY <1>2 DEF Createfile
  <2>2. QED
    BY <1>2, <2>1, NewDone
<1>3. QED
  BY <1>1, <1>2
-----------------------------------------------------------------------------
(***************************************************************************)
(* Directories are made; files and directories are deleted.                 *)
(***************************************************************************)
LEMMA NewDirDone ==
  ASSUME NEW x, NEW name, Sound(x, name), Held(x), NEW p \in Paths, Last(p) \in Folders,
         FolderOf(x, p) # 0, ~Exists(x, p), FreeAnodes(x) # {}, NEW y,
         y = NewDirLocked(NewEntry(x, FolderOf(x, p), Last(p), "dir"), FolderOf(x, p), AllocAnode(x)).g
  PROVE  Came(x, y, p, "dir") /\ SameOpen(x, y)
<1>  DEFINE d == FolderOf(x, p)
            a == AllocAnode(x)
            e == [name |-> Last(p), anode |-> a, kind |-> "dir", size |-> 0]
            z == NewEntry(x, d, Last(p), "dir")
            D == With(x.dir, d, e)
            E == WithBlock(D, a)
<1>1. DirsOK(x.dir, x.used) /\ Blocky(x.dir) /\ RootDir \in DOMAIN x.dir
  BY DEF Sound, DirsOK, Blocky
<1>2. d = RootDir
  BY PathIs DEF FolderOf
<1>3. a \in Anodes /\ a \notin x.used /\ a # RootDir /\ NoneHas(x, a) /\ \A b, w : In(x.dir, b, w) => w.anode # a
  BY FreeAnodeIs, FreshIs
<1>4. \A i \in 1 .. Len(x.dir[d]) : x.dir[d][i].name # Last(p)
  BY <1>1, FindIs DEF Exists
<1>5. z = [dir |-> D, used |-> x.used \cup {a}, le |-> x.le, locks |-> x.locks, avail |-> x.avail]
      /\ Under(x.dir, p, d) /\ e \in DirEntry
  <2>1. "dir" \in {"file", "dir"}
    OBVIOUS
  <2>2. QED
    BY <2>1, NewEntryIs
<1>  HIDE DEF z, a, d
<1>6. e.name = Last(p) /\ e.anode = a /\ e.kind = "dir" /\ e.size = 0
  OBVIOUS
<1>  HIDE DEF e
<1>7. AddedTo(x.dir, E, RootDir, e)
  <2>1. AddedTo(x.dir, WithBlock(With(x.dir, RootDir, e), e.anode), RootDir, e)
    BY <1>1, <1>2, <1>3, <1>4, <1>5, <1>6, WithFolderOK
  <2>2. QED
    BY <1>2, <1>6, <2>1
<1>8. ~AccessConflict(z, a, TRUE)
  BY <1>3, <1>5 DEF NoneHas, AccessConflict, UsersOf, Opened
<1>9. y = [z EXCEPT !.locks = @ \cup {a}, !.dir = [c \in DOMAIN @ \cup {a} |-> IF c = a THEN <<>> ELSE @[c]]]
  BY <1>8 DEF NewDirLocked, Result, z, a, d
<1>10. y = [dir |-> E, used |-> x.used \cup {a}, le |-> x.le, locks |-> x.locks \cup {a}, avail |-> x.avail]
  <2>1. z.dir = D
    BY <1>5
  <2>2. y = [z EXCEPT !.locks = z.locks \cup {a}, !.dir = [c \in DOMAIN z.dir \cup {a} |-> IF c = a THEN <<>> ELSE z.dir[c]]]
    BY <1>5, <1>9
  <2>3. y = [z EXCEPT !.locks = x.locks \cup {a}, !.dir = E]
    BY <1>5, <2>1, <2>2 DEF WithBlock
  <2>  HIDE DEF D, E
  <2>4. QED
    BY <1>5, <2>3
<1>  HIDE DEF D, E
<1>11. y.dir = E /\ y.le = x.le /\ y.avail = x.avail
  BY <1>10
<1>12. Gains(x.dir, y.dir, d, e)
  BY <1>1, <1>2, <1>7, <1>11, AddedGains
<1>13. Came(x, y, p, "dir")
  BY <1>3, <1>5, <1>6, <1>11, <1>12 DEF Came
<1>14. QED
  BY <1>11, <1>13 DEF SameOpen

\* PFS3::MkDir
LEMMA MkDirDone ==
  ASSUME NEW x, NEW name, Sound(x, name), Held(x), NEW p \in Paths, Last(p) \in Folders
  PROVE  \/ Steady(x, MkDir(x, p).g)
         \/ Came(x, MkDir(x, p).g, p, "dir") /\ SameOpen(x, MkDir(x, p).g)
<1>1. CASE FolderOf(x, p) = 0 \/ Exists(x, p) \/ FreeAnodes(x) = {}
  <2>1. MkDir(x, p).g = x
    BY <1>1 DEF MkDir, Fail, Result
  <2>2. QED
    BY <2>1, SameSteady
<1>2. CASE ~(FolderOf(x, p) = 0 \/ Exists(x, p) \/ FreeAnodes(x) = {})
  <2>1. MkDir(x, p) = NewDirLocked(NewEntry(x, FolderOf(x, p), Last(p), "dir"), FolderOf(x, p), AllocAnode(x))
    BY <1>2 DEF MkDir
  <2>2. QED
    BY <1>2, <2>1, NewDirDone
<1>3. QED
  BY <1>1, <1>2

\* Removing an entry and telling files of it leaves the free blocks alone.
LEMMA RemovedAvail ==
  ASSUME NEW x, Record(x), NEW at
  PROVE  EntryRemoved(x, at).avail = x.avail /\ Record(EntryRemoved(x, at))
<1>  DEFINE y == RemoveDirEntry(x, at)
            L == [h \in Handles |->
                    IF Opened(y, h) THEN [y.le[h] EXCEPT !.at = RefMoved(@, at, NoPlace, TRUE)] ELSE Closed]
<1>1. Record(y) /\ y.avail = x.avail
  <2>1. CASE at[2] \in DOMAIN x.dir[at[1]]
    <3>1. y = [x EXCEPT !.dir[at[1]] = RemoveAt(@, at[2])]
      BY <2>1 DEF RemoveDirEntry
    <3>  HIDE DEF y
    <3>2. QED
      BY <3>1 DEF Record
  <2>2. CASE at[2] \notin DOMAIN x.dir[at[1]]
    BY <2>2 DEF RemoveDirEntry
  <2>3. QED
    BY <2>1, <2>2
<1>2. EntryRemoved(x, at) = [y EXCEPT !.le = L]
  BY DEF EntryRemoved, UpdateChangedRef
<1>  HIDE DEF y, L
<1>3. QED
  BY <1>1, <1>2 DEF Record

\* DeleteDir and DeleteObject
DeleteDone(x, r, p) ==
  \/ r.error # "eOK" /\ r.g = x
  \/ r.error = "eOK" /\ Went(x, r.g, p) /\ SameOpen(x, r.g)
LEMMA DeleteObjectDone ==
  ASSUME NEW x, NEW name, Sound(x, name), NEW p, NEW at \in Nat \X Nat, Leads(x.dir, p, at),
         EntryOf(x.dir, at).kind = "file" => UsersOf(x, EntryOf(x.dir, at).anode) = {}
  PROVE  DeleteDone(x, DeleteObject(x, at), p)
<1>  DEFINE e == EntryOf(x.dir, at)
            r == DeleteObject(x, at)
<1>1. DirsOK(x.dir, x.used) /\ Blocky(x.dir) /\ Record(x) /\ x.avail \in Nat
  BY DEF Sound, Volume, DirsOK, Record
<1>2. At(x.dir, at) /\ Denotes(x.dir, p, at[1], e) /\ e \in DirEntry /\ EntryAt(x, at) = e
  BY <1>1, LeadsDenotes, EntryAtIs
<1>3. DeleteEnds(r, x, at)
  BY <1>2, DeleteObjectOK
<1>4. CASE r.g = x /\ r.error # "eOK"
  BY <1>4 DEF DeleteDone
<1>5. CASE r.error = "eOK" /\ RemovedFrom(x.dir, r.g.dir, at) /\ \A h \in Handles : r.g.le[h] # Closed <=> x.le[h] # Closed
  <2>1. e.kind = "dir" => x.dir[e.anode] = <<>>
    BY <1>2, <1>5 DEF DeleteObject, Fail, Result
  <2>2. r.g.avail = x.avail + Weight(e)
    <3>1. CASE e.kind = "dir"
      <4>  DEFINE y == DirGone(x, e.anode)
      <4>1. Record(y) /\ y.avail = x.avail
        <5>  DEFINE D == [d \in DOMAIN x.dir \ {e.anode} |-> x.dir[d]]
                    U == x.used \ {e.anode}
        <5>1. y = [x EXCEPT !.dir = D, !.used = U]
          BY <1>1 DEF DirGone, Record
        <5>  HIDE DEF y, D, U
        <5>2. QED
          BY <1>1, <5>1 DEF Record
      <4>2. r.g = EntryRemoved(y, at)
        BY <1>2, <2>1, <3>1 DEF DeleteObject, Result
      <4>  HIDE DEF y, r, e
      <4>3. r.g.avail = x.avail /\ Weight(e) = 0
        BY <3>1, <4>1, <4>2, RemovedAvail DEF Weight
      <4>4. QED
        BY <1>1, <4>3
    <3>2. CASE e.kind # "dir"
      <4>  DEFINE y == EntryRemoved(x, at)
      <4>1. Record(y) /\ y.avail = x.avail
        BY <1>1, RemovedAvail
      <4>2. r.g = FileGone(y, e)
        BY <1>2, <3>2 DEF DeleteObject, Result
      <4>  HIDE DEF y, r, e
      <4>3. r.g = [y EXCEPT !.used = @ \ {e.anode}, !.avail = @ + e.size]
        BY <4>2 DEF FileGone
      <4>4. r.g.avail = x.avail + e.size
        BY <4>1, <4>3 DEF Record
      <4>5. Weight(e) = e.size
        BY <1>2, <3>2 DEF Weight, DirEntry
      <4>6. QED
        BY <4>4, <4>5
    <3>3. QED
      BY <3>1, <3>2
  <2>3. \A c \in Gone(e) : x.dir[c] = <<>>
    BY <2>1 DEF Gone
  <2>  HIDE DEF r
  <2>4. Loses(x.dir, r.g.dir, at[1], e)
    BY <1>1, <1>2, <1>5, <2>3, RemovedLoses
  <2>  HIDE DEF e
  <2>5. e.kind = "dir" => \A z : ~In(x.dir, e.anode, z)
    BY <2>1 DEF In
  <2>6. Went(x, r.g, p)
    BY <1>2, <2>2, <2>4, <2>5 DEF Went
  <2>7. QED
    BY <1>5, <2>6 DEF DeleteDone, SameOpen, r
<1>6. QED
  BY <1>3, <1>4, <1>5 DEF DeleteEnds

\* PFS3::Deletefile and PFS3::RmDir
LEMMA DeletefileDone ==
  ASSUME NEW x, NEW name, Sound(x, name), NEW p \in Paths,
         EntryAt(x, Find(x, p)).kind = "file" => UsersOf(x, EntryAt(x, Find(x, p)).anode) = {}
  PROVE  DeleteDone(x, Deletefile(x, p), p)
<1>1. CASE Exists(x, p)
  <2>  DEFINE at == Find(x, p)
  <2>1. Leads(x.dir, p, at) /\ at \in Nat \X Nat /\ DirsOK(x.dir, x.used) /\ Blocky(x.dir)
    BY <1>1, FindIs DEF Exists, Sound, DirsOK
  <2>2. EntryAt(x, at) = EntryOf(x.dir, at)
    BY <2>1, LeadsDenotes, EntryAtIs
  <2>3. Deletefile(x, p) = DeleteObject(x, at)
    BY <1>1 DEF Deletefile
  <2>4. EntryOf(x.dir, at).kind = "file" => UsersOf(x, EntryOf(x.dir, at).anode) = {}
    BY <2>2
  <2>  HIDE DEF at
  <2>5. QED
    BY <2>1, <2>3, <2>4, DeleteObjectDone
<1>2. CASE ~Exists(x, p)
  BY <1>2 DEF Deletefile, Fail, Result, DeleteDone
<1>3. QED
  BY <1>1, <1>2

LEMMA RmDirDone ==
  ASSUME NEW x, NEW name, Sound(x, name), NEW p \in Paths
  PROVE  DeleteDone(x, RmDir(x, p), p) /\ (RmDir(x, p).error = "eOK" => EntryAt(x, Find(x, p)).kind = "dir")
<1>1. CASE EntryAt(x, Find(x, p)).kind = "dir"
  <2>1. Exists(x, p)
    BY <1>1, NoEntry DEF Exists, Sound, DirsOK
  <2>2. RmDir(x, p) = Deletefile(x, p)
    BY <1>1, <2>1 DEF RmDir, Deletefile
  <2>3. QED
    BY <1>1, <2>2, DeletefileDone
<1>2. CASE EntryAt(x, Find(x, p)).kind # "dir"
  BY <1>2 DEF RmDir, Fail, Result, DeleteDone
<1>3. QED
  BY <1>1, <1>2
-----------------------------------------------------------------------------
(***************************************************************************)
(* Files and directories are renamed and moved.                             *)
(***************************************************************************)
\* RenameAndMove
RenameDone(x, r, from, d, n) ==
  \/ r.error # "eOK" /\ r.g = x
  \/ /\ r.error = "eOK" /\ SameOpen(x, r.g) /\ r.g.avail = x.avail
     /\ Swaps(x.dir, r.g.dir, from[1], EntryOf(x.dir, from), d, [EntryOf(x.dir, from) EXCEPT !.name = n])
LEMMA RenameInPlaceDone ==
  ASSUME NEW x, NEW name, Sound(x, name), NEW from \in Nat \X Nat, At(x.dir, from), NEW f \in DirEntry,
         NEW y, y = ChangeDirEntry(x, from, from[1], f)
  PROVE  /\ y.avail = x.avail /\ y.le = x.le
         /\ Swaps(x.dir, y.dir, from[1], EntryOf(x.dir, from), from[1], f)
<1>  DEFINE D == Put(x.dir, from, f)
<1>1. x = [dir |-> x.dir, used |-> x.used, le |-> x.le, locks |-> x.locks, avail |-> x.avail]
      /\ DirsOK(x.dir, x.used) /\ Blocky(x.dir) /\ from[1] \in DOMAIN x.dir /\ from[2] \in DOMAIN x.dir[from[1]]
  BY EntryIs DEF Sound, Volume, DirsOK, At
<1>2. y = [x EXCEPT !.dir[from[1]][from[2]] = f]
  BY <1>1 DEF ChangeDirEntry, RenameInPlace
<1>3. [x.dir EXCEPT ![from[1]][from[2]] = f] = D
  BY <1>1 DEF Put, Blocky
<1>  HIDE DEF D
<1>4. y = [x EXCEPT !.dir = [x.dir EXCEPT ![from[1]][from[2]] = f]]
  BY <1>1, <1>2
<1>5. y.dir = D /\ y.avail = x.avail /\ y.le = x.le
  BY <1>1, <1>3, <1>4
<1>6. Swaps(x.dir, D, from[1], EntryOf(x.dir, from), from[1], f)
  BY <1>1, PutSwaps DEF D
<1>7. QED
  BY <1>5, <1>6

LEMMA RenameAcrossDone ==
  ASSUME NEW x, NEW name, Sound(x, name), NEW from \in Nat \X Nat, At(x.dir, from), NEW d \in DOMAIN x.dir,
         d # from[1], EntryOf(x.dir, from).kind = "file", UsersOf(x, EntryOf(x.dir, from).anode) = {},
         NEW f \in DirEntry, NEW y, y = ChangeDirEntry(x, from, d, f)
  PROVE  /\ y.avail = x.avail /\ SameOpen(x, y)
         /\ Swaps(x.dir, y.dir, from[1], EntryOf(x.dir, from), d, f)
<1>  DEFINE e == EntryOf(x.dir, from)
            w == RemoveDirEntry(x, from)
            z == AddDirectoryEntry(w, d, f)
            D == Without(x.dir, from)
            E == With(D, d, f)
            L == AllMoved(x.le, from)
            to == Added(z, d)
<1>1. /\ x = [dir |-> x.dir, used |-> x.used, le |-> x.le, locks |-> x.locks, avail |-> x.avail]
      /\ x.le \in [Handles -> {Closed} \cup OpenFileEntry] /\ RefsOK(x.dir, x.le, name)
      /\ DirsOK(x.dir, x.used) /\ Blocky(x.dir) /\ from[1] \in DOMAIN x.dir /\ from[2] \in DOMAIN x.dir[from[1]]
  BY EntryIs DEF Sound, Volume, DirsOK, At
<1>2. y = UpdateChangedRef(z, from, to, TRUE)
  BY DEF ChangeDirEntry, RenameAcrossDirs, Across
<1>3. Gone(e) = {} /\ Minus(x.dir, Gone(e)) = x.dir
  <2>1. Gone(e) = {}
    BY DEF Gone
  <2>2. QED
    BY <1>1, <2>1 DEF Minus, Blocky
<1>4. w = [dir |-> D, used |-> x.used, le |-> x.le, locks |-> x.locks, avail |-> x.avail]
  <2>1. w = [x EXCEPT !.dir[from[1]] = RemoveAt(@, from[2])]
    BY <1>1 DEF RemoveDirEntry
  <2>  HIDE DEF w
  <2>2. QED
    BY <1>1, <2>1 DEF Without
<1>5. z = [dir |-> E, used |-> x.used, le |-> x.le, locks |-> x.locks, avail |-> x.avail]
  <2>  HIDE DEF w, D
  <2>1. z = [w EXCEPT !.dir[d] = Append(@, f)]
    BY DEF AddDirectoryEntry
  <2>2. QED
    BY <1>4, <2>1 DEF With
<1>6. DirsOK(D, x.used \ {e.anode}) /\ RemovedFrom(x.dir, D, from)
  <2>1. \A c \in Gone(e) : x.dir[c] = <<>>
    BY <1>3
  <2>2. DirsOK(Without(Minus(x.dir, Gone(e)), from), x.used \ {e.anode})
        /\ RemovedFrom(x.dir, Without(Minus(x.dir, Gone(e)), from), from)
    BY <1>1, <2>1, WithoutOK
  <2>3. QED
    BY <1>3, <2>2
<1>7. \A h \in Handles : x.le[h] # Closed => x.le[h].anode # e.anode
  <2>  DEFINE a == e.anode
  <2>  HIDE DEF a
  <2>1. UsersOf(x, a) = {} => \A h \in Handles : x.le[h] # Closed => x.le[h].anode # a
    BY Zenon DEF UsersOf, Opened
  <2>2. QED
    BY <2>1 DEF a
<1>8. \A h \in Handles : L[h] # Closed <=> x.le[h] # Closed
  <2>  HIDE DEF D
  <2>1. \A c \in Gone(EntryOf(x.dir, from)) : x.dir[c] = <<>>
    BY <1>3
  <2>2. QED
    BY <1>1, <1>6, <1>7, <2>1, RefsRemoved
<1>9. y = [z EXCEPT !.le = L]
  <2>1. \A h \in Handles : x.le[h] # Closed => x.le[h].at # from
    BY <1>1, <1>7, RefIs
  <2>2. z.le = x.le
    BY <1>5
  <2>  HIDE DEF z, L, to, E
  <2>3. z.le \in [Handles -> {Closed} \cup OpenFileEntry]
        /\ \A h \in Handles : z.le[h] # Closed => z.le[h].at # from \/ to = NoPlace
    BY <1>1, <2>1, <2>2
  <2>4. UpdateChangedRef(z, from, to, TRUE) = [z EXCEPT !.le = AllMoved(z.le, from)]
    BY <2>3, RefMovedIs
  <2>5. QED
    BY <1>2, <2>2, <2>4 DEF L
<1>10. Loses(x.dir, D, from[1], e)
  <2>  HIDE DEF D
  <2>1. \A c \in Gone(EntryOf(x.dir, from)) : x.dir[c] = <<>>
    BY <1>3
  <2>2. QED
    BY <1>1, <1>6, <2>1, RemovedLoses
<1>11. Gains(D, E, d, f)
  <2>1. Blocky(D) /\ d \in DOMAIN D
    <3>  HIDE DEF D
    <3>  QED BY <1>3, <1>6 DEF RemovedFrom, DirsOK
  <2>  HIDE DEF D
  <2>2. QED
    BY <2>1, WithGains
<1>  HIDE DEF D, E, L, z, e
<1>12. y.dir = E /\ y.avail = x.avail /\ y.le = L
  BY <1>5, <1>9
<1>13. Swaps(x.dir, E, from[1], e, d, f)
  BY <1>10, <1>11 DEF Swaps, Loses, Gains
<1>14. QED
  BY <1>8, <1>12, <1>13 DEF SameOpen, e

LEMMA RenameAndMoveDone ==
  ASSUME NEW x, NEW name, Sound(x, name), NEW from \in Nat \X Nat, At(x.dir, from),
         NEW d \in DOMAIN x.dir, NEW n \in Names, EntryOf(x.dir, from).kind = "dir" => d = RootDir,
         UsersOf(x, EntryOf(x.dir, from).anode) = {}
  PROVE  /\ RenameDone(x, RenameAndMove(x, from, d, n), from, d, n)
         /\ PlaceIn(x, d, n) = NoPlace => RenameAndMove(x, from, d, n).error = "eOK"
<1>  DEFINE e == EntryOf(x.dir, from)
            f == [e EXCEPT !.name = n]
            r == RenameAndMove(x, from, d, n)
<1>1. DirsOK(x.dir, x.used) /\ Blocky(x.dir) /\ Tree(x.dir) /\ In(x.dir, from[1], e)
  BY SoundTree, InIs DEF Sound, DirsOK
<1>2. EntryAt(x, from) = e /\ e \in DirEntry
  BY <1>1, EntryAtIs
<1>3. CASE PlaceIn(x, d, n) \notin {NoPlace, from}
  BY <1>3 DEF RenameAndMove, Fail, Result, RenameDone
<1>4. CASE PlaceIn(x, d, n) \in {NoPlace, from}
  <2>1. r.g = ChangeDirEntry(x, from, d, f) /\ r.error = "eOK"
    BY <1>2, <1>4 DEF RenameAndMove, Result
  <2>2. f \in DirEntry
    <3>  HIDE DEF e
    <3>  QED BY <1>2 DEF DirEntry
  <2>  HIDE DEF f, r
  <2>3. SameOpen(x, r.g) /\ r.g.avail = x.avail /\ Swaps(x.dir, r.g.dir, from[1], e, d, f)
    <3>1. CASE from[1] = d
      BY <2>1, <2>2, <3>1, RenameInPlaceDone DEF SameOpen
    <3>2. CASE from[1] # d
      <4>1. e.kind = "file"
        BY <1>1, <1>2, <3>2 DEF Tree, DirEntry
      <4>2. QED
        BY <2>1, <2>2, <3>2, <4>1, RenameAcrossDone
    <3>3. QED
      BY <3>1, <3>2
  <2>4. QED
    BY <2>1, <2>3 DEF RenameDone, r, f
<1>5. QED
  BY <1>3, <1>4

\* What Movefile needs of the volume, before and after the target has gone.
Ready(x, p, q, from, e, d) ==
  /\ At(x.dir, from) /\ EntryOf(x.dir, from) = e /\ Denotes(x.dir, p, from[1], e)
  /\ d \in DOMAIN x.dir /\ Under(x.dir, q, d) /\ UsersOf(x, e.anode) = {}
LEMMA ReadyThen ==
  ASSUME NEW x, NEW name, Sound(x, name), NEW p \in Paths, NEW q \in Paths, Last(p) \in Folders <=> Last(q) \in Folders,
         NEW from \in Nat \X Nat, NEW e, NEW d, Ready(x, p, q, from, e, d), NEW r, r = RenameAndMove(x, from, d, Last(q))
  PROVE  /\ \/ r.error # "eOK" /\ r.g = x
            \/ r.error = "eOK" /\ SameOpen(x, r.g) /\ WasMoved(x, r.g, p, q)
         /\ PlaceIn(x, d, Last(q)) = NoPlace => r.error = "eOK"
<1>  DEFINE f == [e EXCEPT !.name = Last(q)]
<1>1. Tree(x.dir) /\ e \in DirEntry /\ (e.kind = "dir" => d = RootDir)
  <2>1. Tree(x.dir)
    BY SoundTree
  <2>2. e \in DirEntry /\ (e.kind = "dir" <=> Last(p) \in Folders)
    BY <2>1, KindIs DEF Ready
  <2>3. Last(q) \in Folders => d = RootDir
    BY PathForm DEF Ready, Under
  <2>4. QED
    BY <2>1, <2>2, <2>3
<1>2. Last(q) \in Names
  BY PathForm
<1>3. RenameDone(x, r, from, d, Last(q)) /\ (PlaceIn(x, d, Last(q)) = NoPlace => r.error = "eOK")
  BY <1>1, <1>2, RenameAndMoveDone DEF Ready
<1>4. f.name = Last(q) /\ f.kind = e.kind /\ f.anode = e.anode /\ f.size = e.size
  BY <1>1 DEF DirEntry
<1>5. CASE r.error = "eOK"
  <2>1. SameOpen(x, r.g) /\ r.g.avail = x.avail /\ Swaps(x.dir, r.g.dir, from[1], e, d, f)
    BY <1>3, <1>5 DEF RenameDone, Ready
  <2>  HIDE DEF f
  <2>2. WasMoved(x, r.g, p, q)
    BY <1>4, <2>1 DEF WasMoved, Ready
  <2>3. QED
    BY <1>5, <2>1, <2>2
<1>6. CASE r.error # "eOK"
  BY <1>3, <1>6 DEF RenameDone
<1>7. QED
  BY <1>3, <1>5, <1>6

LEMMA TargetGone ==
  ASSUME NEW x, NEW name, Sound(x, name), NEW p \in Paths, NEW q \in Paths, Last(p) \in Folders <=> Last(q) \in Folders,
         p # q, NEW from \in Nat \X Nat, NEW e, NEW d, Ready(x, p, q, from, e, d), Exists(x, q),
         UsersOf(x, EntryAt(x, Find(x, q)).anode) = {},
         Find(x, q)[1] # from[1] \/ Find(x, q)[2] > from[2],
         NEW z, z = Deletefile(x, q).g, Deletefile(x, q).error = "eOK"
  PROVE  /\ Sound(z, name) /\ SameOpen(x, z) /\ Went(x, z, q)
         /\ Ready(z, p, q, from, e, d) /\ PlaceIn(z, d, Last(q)) = NoPlace
<1>  DEFINE to == Find(x, q)
            t == EntryOf(x.dir, to)
<1>1. Sound(z, name) /\ DeleteEnds(Deletefile(x, q), x, to) /\ DeleteDone(x, Deletefile(x, q), q)
  BY DeletefileOK, DeletefileDone
<1>2. /\ RemovedFrom(x.dir, z.dir, to) /\ SameOpen(x, z) /\ Went(x, z, q)
      /\ \A h \in Handles : x.le[h] # Closed => z.le[h].anode = x.le[h].anode
  BY <1>1 DEF DeleteEnds, DeleteDone
<1>3. DirsOK(x.dir, x.used) /\ Blocky(x.dir) /\ Tree(x.dir) /\ Tree(z.dir) /\ Blocky(z.dir) /\ Leads(x.dir, q, to) /\ to \in Nat \X Nat
  BY <1>1, SoundTree, FindIs DEF Exists, Sound, DirsOK
<1>4. /\ At(x.dir, to) /\ Denotes(x.dir, q, to[1], t) /\ t \in DirEntry /\ t.name = Last(q)
      /\ At(x.dir, from) /\ EntryOf(x.dir, from) = e /\ Denotes(x.dir, p, from[1], e)
      /\ d \in DOMAIN x.dir /\ Under(x.dir, q, d) /\ UsersOf(x, e.anode) = {} /\ d = to[1]
  <2>1. At(x.dir, to) /\ Denotes(x.dir, q, to[1], t) /\ t \in DirEntry /\ t.name = Last(q)
    BY <1>3, LeadsDenotes
  <2>  HIDE DEF to
  <2>2. QED
    BY <1>3, <2>1, OneFolder DEF Ready, Denotes
<1>5. to[1] # from[1] \/ to[2] > from[2]
  OBVIOUS
<1>6. t.kind = "dir" => Last(p) \in Folders /\ Len(p) = 1 /\ Len(q) = 1 /\ to[1] = RootDir /\ from[1] = RootDir /\ t.anode # RootDir
  <2>1. t.kind = "dir" => Last(q) \in Folders /\ to[1] = RootDir /\ Len(q) = 1
    BY <1>3, <1>4, KindIs
  <2>2. Last(p) \in Folders => Len(p) = 1
    BY PathForm
  <2>3. Len(p) = 1 => from[1] = RootDir
    BY <1>4 DEF Denotes, Under
  <2>4. t.anode # RootDir
    BY <1>4, PfsNumbersAssumption DEF DirEntry, Anodes
  <2>5. QED
    BY <2>1, <2>2, <2>3, <2>4
<1>7. from[1] \notin Gone(t) /\ to[1] \notin Gone(t)
  BY <1>6 DEF Gone
<1>8. ~SameSpot(from, to) /\ Moved(from, to) = from
  BY <1>3, <1>5 DEF SameSpot, Moved
<1>  HIDE DEF to, t
<1>9. At(z.dir, from) /\ EntryOf(z.dir, from) = e
  <2>1. At(z.dir, Moved(from, to)) /\ EntryOf(z.dir, Moved(from, to)) = EntryOf(x.dir, from)
    BY <1>2, <1>3, <1>4, <1>7, <1>8, MovedIs DEF t
  <2>2. QED
    BY <1>4, <1>8, <2>1
<1>10. d \in DOMAIN z.dir
  BY <1>2, <1>4, <1>7 DEF RemovedFrom, t
<1>11. PICK b, c : Denotes(x.dir, q, b, c) /\ Loses(x.dir, z.dir, b, c)
  BY <1>2 DEF Went
<1>12. c = t
  BY <1>3, <1>4, <1>11, OneMeant
<1>13. \A k, w : In(z.dir, k, w) <=> In(x.dir, k, w) /\ w # t
  BY <1>11, <1>12 DEF Loses
<1>14. e # t
  BY <1>3, <1>4, OnePath
<1>15. ASSUME NEW r \in Paths, NEW k, Under(x.dir, r, k), Len(r) # 1 => t.kind # "dir" PROVE Under(z.dir, r, k)
  <2>1. CASE Len(r) = 1
    BY <1>15, <2>1 DEF Under
  <2>2. CASE Len(r) # 1
    <3>1. PICK w : In(x.dir, RootDir, w) /\ w.name = r[1] /\ w.anode = k
      BY <1>15, <2>2 DEF Under
    <3>2. w.kind = "dir"
      BY <1>3, <2>2, <3>1, PathForm DEF Tree
    <3>3. In(z.dir, RootDir, w)
      BY <1>13, <1>15, <2>2, <3>1, <3>2
    <3>4. QED
      BY <2>2, <3>1, <3>3 DEF Under
  <2>3. QED
    BY <2>1, <2>2
<1>16. Under(z.dir, q, d) /\ Under(z.dir, p, from[1])
  BY <1>4, <1>6, <1>15 DEF Denotes
<1>17. Denotes(z.dir, p, from[1], e)
  BY <1>4, <1>13, <1>14, <1>16 DEF Denotes
<1>18. UsersOf(z, e.anode) = {}
  <2>  DEFINE a == e.anode
  <2>1. UsersOf(x, a) = {}
    BY <1>4
  <2>  HIDE DEF a
  <2>2. UsersOf(z, a) = {}
    BY <1>2, <2>1 DEF UsersOf, Opened, SameOpen
  <2>3. QED
    BY <2>2 DEF a
<1>19. PlaceIn(z, d, Last(q)) = NoPlace
  <2>1. ASSUME NEW i \in 1 .. Len(z.dir[d]), z.dir[d][i].name = Last(q) PROVE FALSE
    <3>1. In(z.dir, d, z.dir[d][i])
      BY <1>10 DEF In
    <3>2. In(x.dir, d, z.dir[d][i]) /\ z.dir[d][i] # t
      BY <1>13, <3>1
    <3>3. In(x.dir, d, t)
      BY <1>4 DEF Denotes
    <3>4. QED
      BY SMTT(60), <1>3, <1>4, <2>1, <3>2, <3>3 DEF Tree
  <2>2. Search(z, d, Last(q)) = 0
    BY SMTT(60), <1>3, <1>10, <2>1, SearchIs
  <2>3. QED
    BY <2>2 DEF PlaceIn
<1>20. QED
  BY <1>1, <1>2, <1>9, <1>10, <1>16, <1>17, <1>18, <1>19 DEF Ready

\* The name was free, or what had it has gone before.
MoveDone(x, r, p, q) ==
  \/ r.error # "eOK" /\ r.g = x
  \/ r.error = "eOK" /\ SameOpen(x, r.g) /\ WasMoved(x, r.g, p, q) /\ (p = q \/ ~Exists(x, q))
  \/ r.error = "eOK" /\ SameOpen(x, r.g) /\ p # q /\ NoUser(x, q)
     /\ \E z : Tree(z.dir) /\ Went(x, z, q) /\ WasMoved(z, r.g, p, q)

LEMMA MoveReady ==
  ASSUME NEW x, NEW name, Sound(x, name), NEW p \in Paths, NEW q \in Paths,
         Exists(x, p), FolderOf(x, q) # 0, UsersOf(x, EntryAt(x, Find(x, p)).anode) = {}
  PROVE  /\ Ready(x, p, q, Find(x, p), EntryOf(x.dir, Find(x, p)), FolderOf(x, q))
         /\ Find(x, p) \in Nat \X Nat
<1>  DEFINE from == Find(x, p)
            d == FolderOf(x, q)
            e == EntryOf(x.dir, from)
<1>1. DirsOK(x.dir, x.used) /\ Blocky(x.dir) /\ RootDir \in DOMAIN x.dir
  BY DEF Sound, DirsOK, Blocky
<1>2. Leads(x.dir, p, from) /\ from \in Nat \X Nat
  BY <1>1, FindIs DEF Exists
<1>3. At(x.dir, from) /\ Denotes(x.dir, p, from[1], e)
  BY <1>1, <1>2, LeadsDenotes
<1>4. d \in DOMAIN x.dir /\ FolderAt(x.dir, q, d)
  BY <1>1, FolderIs
<1>5. Under(x.dir, q, d)
  BY <1>1, <1>4 DEF FolderAt, Under, In
<1>6. EntryAt(x, from) = e
  BY <1>1, <1>3, EntryAtIs
<1>7. UsersOf(x, e.anode) = {}
  BY <1>6
<1>8. QED
  BY <1>2, <1>3, <1>4, <1>5, <1>7 DEF Ready

\* Nobody is moved onto a file that is there.
LEMMA NoneMovedOnto ==
  ASSUME NEW x, NEW name, Sound(x, name), NEW p \in Paths, NEW q \in Paths, p # q, Exists(x, q),
         NEW replace, ~replace
  PROVE  Movefile(x, p, q, replace).error # "eOK"
<1>  DEFINE from == Find(x, p)
            to == Find(x, q)
<1>1. CASE ~Exists(x, p) \/ FolderOf(x, q) = 0
  BY <1>1 DEF Movefile, Fail, Result
<1>2. CASE Exists(x, p) /\ FolderOf(x, q) # 0
  <2>1. Movefile(x, p, q, replace) = RenameAndMove(x, from, FolderOf(x, q), Last(q))
    BY <1>2 DEF Movefile, Result
  <2>2. PlaceIn(x, FolderOf(x, q), Last(q)) = to /\ to # NoPlace
    BY DEF Find, Exists
  <2>3. to # from
    <3>1. DirsOK(x.dir, x.used) /\ Blocky(x.dir) /\ Tree(x.dir)
      BY SoundTree DEF Sound, DirsOK
    <3>2. Leads(x.dir, p, from) /\ Leads(x.dir, q, to)
      BY <1>2, <3>1, FindIs DEF Exists
    <3>3. /\ Denotes(x.dir, p, from[1], EntryOf(x.dir, from))
          /\ Denotes(x.dir, q, to[1], EntryOf(x.dir, to))
      BY <3>1, <3>2, LeadsDenotes
    <3>  HIDE DEF from, to
    <3>4. QED
      BY <3>1, <3>3, OnePath
  <2>  HIDE DEF from, to
  <2>4. RenameAndMove(x, from, FolderOf(x, q), Last(q)) = Fail(x, "eAlreadyExists")
    BY <2>2, <2>3 DEF RenameAndMove
  <2>5. QED
    BY <2>1, <2>4 DEF Fail, Result
<1>3. QED
  BY <1>1, <1>2

LEMMA MovefileDone ==
  ASSUME NEW x, NEW name, Sound(x, name), NEW p \in Paths, NEW q \in Paths, NEW replace \in BOOLEAN,
         Last(p) \in Folders <=> Last(q) \in Folders,
         UsersOf(x, EntryAt(x, Find(x, p)).anode) = {},
         replace => UsersOf(x, EntryAt(x, Find(x, q)).anode) = {},
         replace => \/ Find(x, q) = NoPlace \/ Find(x, q)[1] # Find(x, p)[1]
                    \/ Find(x, q)[2] > Find(x, p)[2],
         replace => p # q
  PROVE  MoveDone(x, Movefile(x, p, q, replace), p, q)
<1>  DEFINE from == Find(x, p)
            d == FolderOf(x, q)
            n == Last(q)
            e == EntryOf(x.dir, from)
            r == Movefile(x, p, q, replace)
<1>1. CASE ~Exists(x, p) \/ d = 0
  BY <1>1 DEF Movefile, Fail, Result, MoveDone
<1>2. CASE Exists(x, p) /\ d # 0 /\ ~(replace /\ Exists(x, q))
  <2>0. r.error = "eOK" => p = q \/ ~Exists(x, q)
    BY <1>2, NoneMovedOnto
  <2>1. r = RenameAndMove(x, from, d, n)
    BY <1>2 DEF Movefile, Result
  <2>2. Ready(x, p, q, from, e, d) /\ from \in Nat \X Nat
    BY <1>2, MoveReady
  <2>  HIDE DEF from, d, n, e, r
  <2>3. \/ r.error # "eOK" /\ r.g = x
        \/ r.error = "eOK" /\ SameOpen(x, r.g) /\ WasMoved(x, r.g, p, q)
    BY <2>1, <2>2, ReadyThen DEF n
  <2>4. QED
    BY <2>0, <2>3 DEF MoveDone, r
<1>3. CASE Exists(x, p) /\ d # 0 /\ replace /\ Exists(x, q)
  <2>  DEFINE r0 == Deletefile(x, q)
              z == r0.g
  <2>1. r = IF r0.error # "eOK" THEN r0 ELSE RenameAndMove(z, from, d, n)
    BY <1>3 DEF Movefile
  <2>2. CASE r0.error # "eOK"
    <3>1. DeleteDone(x, r0, q)
      BY <1>3, DeletefileDone
    <3>2. r0.g = x
      BY <2>2, <3>1 DEF DeleteDone
    <3>3. QED
      BY <2>1, <2>2, <3>2 DEF MoveDone
  <2>3. CASE r0.error = "eOK"
    <3>1. r = RenameAndMove(z, from, d, n)
      BY <2>1, <2>3
    <3>2. Ready(x, p, q, from, e, d) /\ from \in Nat \X Nat
      BY <1>3, MoveReady
    <3>3. Find(x, q)[1] # from[1] \/ Find(x, q)[2] > from[2]
      BY <1>3 DEF Exists
    <3>4. UsersOf(x, EntryAt(x, Find(x, q)).anode) = {} /\ p # q /\ Exists(x, q)
      BY <1>3
    <3>5. z = Deletefile(x, q).g /\ Deletefile(x, q).error = "eOK"
      BY <2>3
    <3>  HIDE DEF e, d, n, r, z, r0
    <3>6. /\ Sound(z, name) /\ SameOpen(x, z) /\ Went(x, z, q)
          /\ Ready(z, p, q, from, e, d) /\ PlaceIn(z, d, Last(q)) = NoPlace
      BY <3>2, <3>3, <3>4, <3>5, TargetGone
    <3>  HIDE DEF from
    <3>7. r.error = "eOK" /\ SameOpen(z, r.g) /\ WasMoved(z, r.g, p, q)
      BY <3>1, <3>2, <3>6, ReadyThen DEF n
    <3>8. SameOpen(x, r.g)
      BY <3>6, <3>7 DEF SameOpen
    <3>9. Tree(z.dir)
      BY <3>6, SoundTree
    <3>10. QED
      BY <3>4, <3>6, <3>7, <3>8, <3>9 DEF MoveDone, NoUser, r
  <2>4. QED
    BY <2>2, <2>3
<1>4. QED
  BY <1>1, <1>2, <1>3
-----------------------------------------------------------------------------
(***************************************************************************)
(* What is seen before and after, of the listing and of open files.         *)
(***************************************************************************)
HasParents(L, p) == \A q \in Paths : Beneath(q, p) => L[q] = Dir
\* The files programs have open.
HeldOpen(x, name, L) ==
  [h \in Handles |-> IF Opened(x, h) THEN [path |-> name[h], size |-> L[name[h]]] ELSE None]

LEMMA LookIs ==
  ASSUME NEW x, NEW L, Seen(x, L), NEW p \in Paths, NEW d, NEW e, Denotes(x.dir, p, d, e)
  PROVE  /\ L[p] = Look(e) /\ L[p] # None
         /\ e.kind = "dir" => L[p] = Dir /\ Last(p) \in Folders
         /\ e.kind # "dir" => L[p] = e.size /\ e.size \in 0 .. Room /\ L[p] # Dir /\ Last(p) \notin Folders
<1>1. L[p] = Look(e) /\ Tree(x.dir) /\ Budget(x.dir, x.avail)
  BY DEF Seen, Shows
<1>2. (e.kind = "dir" <=> Last(p) \in Folders) /\ (e.kind # "dir" => e.kind = "file")
  BY <1>1, KindIs
<1>3. Weight(e) \in 0 .. Room
  BY <1>1, BudgetSplit DEF Denotes
<1>4. e.kind # "dir" => e.size \in 0 .. Room
  BY <1>2, <1>3 DEF Weight
<1>5. QED
  BY <1>1, <1>2, <1>4, PfsMarksAssumption DEF Look

LEMMA NoLook ==
  ASSUME NEW x, NEW L, Seen(x, L), NEW p \in Paths, Last(p) \notin Folders
  PROVE  L[p] # Dir
<1>1. CASE \E d, e : Denotes(x.dir, p, d, e)
  BY <1>1, LookIs
<1>2. CASE ~ \E d, e : Denotes(x.dir, p, d, e)
  BY <1>2, PfsMarksAssumption DEF Seen, Shows
<1>3. QED
  BY <1>1, <1>2

LEMMA ParentIs ==
  ASSUME NEW x, NEW L, Seen(x, L), NEW p \in Paths, NEW d, Under(x.dir, p, d)
  PROVE  HasParents(L, p)
<1>  SUFFICES ASSUME NEW q \in Paths, Beneath(q, p) PROVE L[q] = Dir
  BY DEF HasParents
<1>1. Len(p) = 2 /\ q = <<p[1]>>
  BY DEF Beneath
<1>2. PICK f : In(x.dir, RootDir, f) /\ f.name = p[1]
  BY <1>1 DEF Under
<1>3. p[1] \in Folders
  BY <1>1, PathForm
<1>4. Len(q) = 1 /\ Last(q) = p[1]
  BY <1>1 DEF Last
<1>5. Denotes(x.dir, q, RootDir, f)
  BY <1>2, <1>4 DEF Denotes, Under
<1>6. f.kind = "dir"
  BY <1>3, <1>4, <1>5, KindIs DEF Seen
<1>7. QED
  BY <1>5, <1>6, LookIs

LEMMA CameNew ==
  ASSUME NEW x, NEW L, Seen(x, L), NEW y, Tree(y.dir), NEW p \in Paths, NEW kind, Came(x, y, p, kind)
  PROVE  L[p] = None /\ HasParents(L, p) /\ \A d, e : ~Denotes(x.dir, p, d, e)
<1>1. PICK k, f :
        /\ Under(x.dir, p, k) /\ Gains(x.dir, y.dir, k, f) /\ f.name = Last(p)
        /\ \A b, z : In(x.dir, b, z) => z.anode # f.anode
  BY DEF Came
<1>2. Tree(x.dir) /\ Shows(x.dir, L)
  BY DEF Seen
<1>3. ASSUME NEW d, NEW e, Denotes(x.dir, p, d, e) PROVE FALSE
  <2>1. d = k /\ In(x.dir, k, e) /\ e.name = f.name
    BY <1>1, <1>2, <1>3, OneFolder DEF Denotes
  <2>2. In(y.dir, k, e) /\ In(y.dir, k, f) /\ e.anode # f.anode
    BY <1>1, <2>1 DEF Gains
  <2>3. QED
    BY <2>1, <2>2 DEF Tree
<1>4. QED
  BY <1>1, <1>2, <1>3, ParentIs DEF Shows

LEMMA MovedTwice ==
  ASSUME NEW L, L = [a \in Paths |-> L[a]], NEW p \in Paths, NEW q \in Paths, p # q
  PROVE  MovedTable([L EXCEPT ![q] = None], p, q) = MovedTable(L, p, q)
<1>  DEFINE M == [L EXCEPT ![q] = None]
<1>1. \A a \in Paths \ {q} : M[a] = L[a]
  OBVIOUS
<1>2. ASSUME NEW a \in Paths, Beneath(q, a), <<p[1], a[2]>> \in Paths PROVE M[<<p[1], a[2]>>] = L[<<p[1], a[2]>>]
  <2>1. <<p[1], a[2]>> # q
    BY <1>2 DEF Beneath
  <2>2. QED
    BY <1>1, <1>2, <2>1
<1>3. M[p] = L[p]
  BY <1>1
<1>  HIDE DEF M
<1>4. MovedTable(M, p, q) = MovedTable(L, p, q)
  BY <1>1, <1>2, <1>3 DEF MovedTable
<1>5. QED
  BY <1>4 DEF M

\* A name that was given to what had it.
LEMMA SeenSelf ==
  ASSUME NEW x, NEW L, Seen(x, L), NEW y, Tree(y.dir), NEW p \in Paths, WasMoved(x, y, p, p)
  PROVE  Seen(y, L)
<1>1. PICK d, e, k, f :
        /\ Denotes(x.dir, p, d, e) /\ Under(x.dir, p, k) /\ Swaps(x.dir, y.dir, d, e, k, f)
        /\ f.name = Last(p) /\ f.kind = e.kind /\ f.anode = e.anode /\ f.size = e.size
        /\ y.avail = x.avail
  BY DEF WasMoved
<1>2. Tree(x.dir) /\ k = d /\ e \in DirEntry /\ f \in DirEntry
  <2>1. Tree(x.dir)
    BY DEF Seen
  <2>2. k = d
    BY <1>1, <2>1, OneFolder DEF Denotes
  <2>3. In(y.dir, k, f)
    BY <1>1 DEF Swaps
  <2>4. QED
    BY <1>1, <2>1, <2>2, <2>3, KindIs DEF Tree
<1>3. f = e
  BY <1>1, <1>2 DEF DirEntry, Denotes
<1>4. \A b, z : In(y.dir, b, z) <=> In(x.dir, b, z)
  BY <1>1, <1>2, <1>3 DEF Swaps, Tree
<1>5. Shows(y.dir, L)
  <2>1. \A a \in Paths : \A b, z : Denotes(y.dir, a, b, z) <=> Denotes(x.dir, a, b, z)
    BY <1>4 DEF Denotes, Under
  <2>2. QED
    BY <2>1 DEF Seen, Shows
<1>6. Blocks(y.dir) = Blocks(x.dir)
  BY <1>4 DEF Blocks
<1>7. QED
  BY <1>1, <1>5, <1>6 DEF Seen, Budget
-----------------------------------------------------------------------------
(***************************************************************************)
(* The steps of FileTable.                                                  *)
(***************************************************************************)
Owned == [h \in Handles |-> IF Opened(g, h) THEN [path |-> path[h], size |-> SizeOf(g, h)] ELSE None]
HasNone(p) == \A o \in Handles : Owned[o] = None \/ Owned[o].path # p

LEMMA StepOpen ==
  ASSUME NEW h \in Handles, NEW p, NEW size, Owned[h] = None, HasParents(listing, p), listing[p] # Dir,
         \/ listing[p] # None /\ listing' = listing
         \/ size = 0 /\ listing' = [listing EXCEPT ![p] = 0],
         Owned' = [Owned EXCEPT ![h] = [path |-> p, size |-> size]]
  PROVE  FileTableOfVolume!OpenFileAt(h, p, size)
  BY DEF Owned, HasParents, Beneath, FileTableOfVolume!OpenFileAt, FileTableOfVolume!HasParent, FileTableOfVolume!Below

LEMMA StepWrite ==
  ASSUME NEW h \in Handles, NEW size, Owned[h] # None,
         \A o \in Handles \ {h} : Owned[o] = None \/ Owned[o].path # Owned[h].path,
         listing' = [listing EXCEPT ![Owned[h].path] = size], Owned' = [Owned EXCEPT ![h].size = size]
  PROVE  FileTableOfVolume!WriteThrough(h, size)
  BY DEF Owned, FileTableOfVolume!WriteThrough

LEMMA StepClose ==
  ASSUME NEW h \in Handles, NEW deletes \in BOOLEAN, Owned[h] # None, Owned' = [Owned EXCEPT ![h] = None],
         listing' = [listing EXCEPT ![Owned[h].path] = IF deletes THEN None ELSE Owned[h].size],
         deletes => \A o \in Handles \ {h} : Owned[o] = None \/ Owned[o].path # Owned[h].path
  PROVE  FileTableOfVolume!CloseFile(h, deletes)
  BY DEF Owned, FileTableOfVolume!CloseFile

LEMMA StepMakeDir ==
  ASSUME NEW p, listing[p] = None, HasParents(listing, p), listing' = [listing EXCEPT ![p] = Dir], Owned' = Owned
  PROVE  FileTableOfVolume!MakeDir(p)
  BY DEF Owned, HasParents, Beneath, FileTableOfVolume!MakeDir, FileTableOfVolume!HasParent, FileTableOfVolume!Below

LEMMA StepRemove ==
  ASSUME NEW p, listing[p] # None, HasNone(p), listing' = [listing EXCEPT ![p] = None], Owned' = Owned,
         listing[p] = Dir => \A q \in Paths : Beneath(p, q) => listing[q] = None
  PROVE  FileTableOfVolume!Remove(p)
  BY DEF Owned, HasNone, Beneath, FileTableOfVolume!Remove, FileTableOfVolume!InUse, FileTableOfVolume!Below

LEMMA StepMove ==
  ASSUME NEW p, NEW q, p # q, listing[p] # None, HasParents(listing, q), HasNone(p), HasNone(q),
         \A a \in Paths : Beneath(p, a) => HasNone(a),
         listing' = MovedTable(listing, p, q), Owned' = Owned
  PROVE  FileTableOfVolume!Move(p, q)
  BY DEF Owned, HasNone, HasParents, Beneath, MovedTable, FileTableOfVolume!Move, FileTableOfVolume!InUse,
         FileTableOfVolume!HasParent, FileTableOfVolume!Below
-----------------------------------------------------------------------------
LEMMA OpenSeen ==
  ASSUME NEW x, NEW name, Sound(x, name), NEW L, Seen(x, L), NEW h \in Handles, Opened(x, h)
  PROVE  /\ name[h] \in Paths /\ Last(name[h]) \notin Folders
         /\ SizeOf(x, h) = L[name[h]] /\ L[name[h]] \in 0 .. Room /\ L[name[h]] \notin {Dir, None}
         /\ \E d, e : Denotes(x.dir, name[h], d, e)
         /\ Exists(x, name[h]) /\ EntryAt(x, Find(x, name[h])).anode = x.le[h].anode
         /\ h \in UsersOf(x, EntryAt(x, Find(x, name[h])).anode)
<1>  DEFINE at == x.le[h].at
            e == EntryOf(x.dir, at)
            p == name[h]
<1>1. /\ at \in Nat \X Nat /\ At(x.dir, at) /\ EntryAt(x, at) = e /\ e.anode = x.le[h].anode
      /\ SizeOf(x, h) = e.size /\ Find(x, p) = at /\ p \in Paths /\ Last(p) \notin Folders
  BY OpenIs
<1>2. DirsOK(x.dir, x.used) /\ Blocky(x.dir) /\ RefsOK(x.dir, x.le, name)
  BY DEF Sound, DirsOK
<1>3. Leads(x.dir, p, at)
  BY <1>2, RefIs DEF Opened
<1>4. Denotes(x.dir, p, at[1], e)
  BY <1>2, <1>3, LeadsDenotes
<1>5. at # NoPlace
  BY <1>1, <1>2, EntryIs DEF At, NoPlace
<1>  HIDE DEF at, e, p
<1>6. L[p] = e.size /\ L[p] \in 0 .. Room /\ L[p] \notin {Dir, None}
  BY <1>1, <1>4, LookIs
<1>7. Exists(x, p) /\ EntryAt(x, Find(x, p)).anode = x.le[h].anode
  BY <1>1, <1>5 DEF Exists
<1>8. QED
  BY <1>1, <1>4, <1>6, <1>7 DEF UsersOf, p

LEMMA HeldIs ==
  ASSUME NEW x, NEW name, Sound(x, name), NEW L, Seen(x, L)
  PROVE  [h \in Handles |-> IF Opened(x, h) THEN [path |-> name[h], size |-> SizeOf(x, h)] ELSE None]
           = HeldOpen(x, name, L)
<1>1. \A h \in Handles : Opened(x, h) => SizeOf(x, h) = L[name[h]]
  BY OpenSeen
<1>2. QED
  BY <1>1 DEF HeldOpen

LEMMA HeldAt ==
  ASSUME NEW x, NEW name, Sound(x, name), NEW L, Seen(x, L), NEW h \in Handles
  PROVE  /\ HeldOpen(x, name, L)[h] = None <=> ~Opened(x, h)
         /\ Opened(x, h) => HeldOpen(x, name, L)[h] = [path |-> name[h], size |-> L[name[h]]]
<1>1. CASE Opened(x, h)
  <2>1. HeldOpen(x, name, L)[h] = [path |-> name[h], size |-> L[name[h]]]
    BY <1>1 DEF HeldOpen
  <2>2. [path |-> name[h], size |-> L[name[h]]] \in [path : Paths, size : 0 .. Room]
    BY <1>1, OpenSeen
  <2>3. QED
    BY <1>1, <2>1, <2>2, PfsMarksAssumption
<1>2. CASE ~Opened(x, h)
  BY <1>2 DEF HeldOpen
<1>3. QED
  BY <1>1, <1>2

LEMMA NoUserIs ==
  ASSUME NEW x, NEW name, Sound(x, name), NEW L, Seen(x, L), NEW p, NoUser(x, p), NEW h \in Handles, Opened(x, h)
  PROVE  name[h] # p
  BY OpenSeen DEF NoUser

\* Programs that have a file open and nothing else happens to it; and one more, or one less.
LEMMA HeldSame ==
  ASSUME NEW x, NEW y, SameOpen(x, y), NEW name, NEW name2, NEW L, NEW M,
         \A k \in Handles : Opened(x, k) => name2[k] = name[k] /\ M[name[k]] = L[name[k]]
  PROVE  HeldOpen(y, name2, M) = HeldOpen(x, name, L)
<1>1. \A k \in Handles : (IF Opened(y, k) THEN [path |-> name2[k], size |-> M[name2[k]]] ELSE None)
                       = (IF Opened(x, k) THEN [path |-> name[k], size |-> L[name[k]]] ELSE None)
  BY DEF SameOpen, Opened
<1>2. QED
  BY <1>1 DEF HeldOpen

LEMMA HeldOpens ==
  ASSUME NEW x, NEW y, NEW h \in Handles, Opens(x, y, h), NEW name, NEW name2, NEW p, NEW L, NEW M, name2[h] = p,
         \A k \in Handles \ {h} : Opened(x, k) => name2[k] = name[k] /\ M[name[k]] = L[name[k]]
  PROVE  HeldOpen(y, name2, M) = [HeldOpen(x, name, L) EXCEPT ![h] = [path |-> p, size |-> M[p]]]
<1>1. \A k \in Handles \ {h} : (IF Opened(y, k) THEN [path |-> name2[k], size |-> M[name2[k]]] ELSE None)
                             = (IF Opened(x, k) THEN [path |-> name[k], size |-> L[name[k]]] ELSE None)
  BY DEF Opens, Opened
<1>2. Opened(y, h)
  BY DEF Opens, Opened
<1>3. QED
  BY <1>1, <1>2 DEF HeldOpen

LEMMA HeldCloses ==
  ASSUME NEW x, NEW y, NEW h \in Handles, ~Opened(y, h), NEW name, NEW name2, NEW L, NEW M,
         \A k \in Handles \ {h} : Opened(y, k) <=> Opened(x, k),
         \A k \in Handles \ {h} : Opened(x, k) => name2[k] = name[k] /\ M[name[k]] = L[name[k]]
  PROVE  HeldOpen(y, name2, M) = [HeldOpen(x, name, L) EXCEPT ![h] = None]
<1>1. \A k \in Handles \ {h} : (IF Opened(y, k) THEN [path |-> name2[k], size |-> M[name2[k]]] ELSE None)
                             = (IF Opened(x, k) THEN [path |-> name[k], size |-> L[name[k]]] ELSE None)
  OBVIOUS
<1>2. QED
  BY <1>1 DEF HeldOpen

LEMMA HeldSized ==
  ASSUME NEW x, NEW y, SameOpen(x, y), NEW h \in Handles, Opened(x, h), NEW name, NEW L, NEW M, NEW t, M[name[h]] = t,
         \A k \in Handles \ {h} : Opened(x, k) => M[name[k]] = L[name[k]]
  PROVE  HeldOpen(y, name, M) = [HeldOpen(x, name, L) EXCEPT ![h].size = t]
<1>1. \A k \in Handles \ {h} : (IF Opened(y, k) THEN [path |-> name[k], size |-> M[name[k]]] ELSE None)
                             = (IF Opened(x, k) THEN [path |-> name[k], size |-> L[name[k]]] ELSE None)
  BY DEF SameOpen, Opened
<1>2. Opened(y, h)
  BY DEF SameOpen, Opened
<1>3. HeldOpen(x, name, L)[h] = [path |-> name[h], size |-> L[name[h]]]
  BY DEF HeldOpen
<1>4. [HeldOpen(x, name, L)[h] EXCEPT !.size = t] = [path |-> name[h], size |-> t]
  BY <1>3
<1>5. [HeldOpen(x, name, L) EXCEPT ![h].size = t] = [HeldOpen(x, name, L) EXCEPT ![h] = [path |-> name[h], size |-> t]]
  BY <1>4
<1>6. QED
  BY ZenonT(60), <1>1, <1>2, <1>5 DEF HeldOpen

TableInv == FilesInv /\ LocksInv /\ AloneInv /\ ~alarm /\ Seen(g, listing)
ShowsAfter(M) == listing' = M /\ Owned' = HeldOpen(g', path', M) /\ Seen(g', listing')

LEMMA Before ==
  ASSUME TableInv
  PROVE  /\ Sound(g, path) /\ path \in [Handles -> Paths \cup {<<>>}] /\ Held(g) /\ Seen(g, listing)
         /\ Tree(g.dir) /\ listing = [p \in Paths |-> listing[p]]
         /\ Owned = HeldOpen(g, path, listing)
         /\ \A h \in Handles : /\ Owned[h] = None <=> ~Opened(g, h)
                               /\ Opened(g, h) => Owned[h] = [path |-> path[h], size |-> listing[path[h]]]
<1>1. Sound(g, path) /\ path \in [Handles -> Paths \cup {<<>>}] /\ Held(g) /\ Seen(g, listing)
  BY DEF TableInv, FilesInv, LocksInv, Held
<1>2. Owned = HeldOpen(g, path, listing)
  BY <1>1, HeldIs DEF Owned
<1>3. Tree(g.dir) /\ listing = [p \in Paths |-> listing[p]]
  BY <1>1 DEF Seen, Shows
<1>4. QED
  BY <1>1, <1>2, <1>3, HeldAt

LEMMA After ==
  ASSUME FilesInv', NEW M, Seen(g', M), listing' = Listing(g')
  PROVE  ShowsAfter(M)
<1>1. Sound(g', path')
  BY DEF FilesInv
<1>2. M = listing'
  BY <1>1, SeenIs
<1>3. Owned' = HeldOpen(g', path', M)
  BY <1>1, HeldIs DEF Owned
<1>4. QED
  BY <1>2, <1>3 DEF ShowsAfter
-----------------------------------------------------------------------------
Implemented == Seen(g', listing') /\ (FileTableOfVolume!TableNext \/ (listing' = listing /\ Owned' = Owned))

\* Nothing that programs see has changed.
LEMMA Stutters ==
  ASSUME TableInv, ShowsAfter(listing), SameOpen(g, g'),
         \A k \in Handles : Opened(g, k) => path'[k] = path[k]
  PROVE  Implemented
<1>1. HeldOpen(g', path', listing) = HeldOpen(g, path, listing)
  <2>  DEFINE y == g'
              name2 == path'
  <2>1. SameOpen(g, y) /\ \A k \in Handles : Opened(g, k) => name2[k] = path[k]
    OBVIOUS
  <2>  HIDE DEF y, name2
  <2>2. HeldOpen(y, name2, listing) = HeldOpen(g, path, listing)
    BY <2>1, HeldSame
  <2>3. QED
    BY <2>2 DEF y, name2
<1>2. QED
  BY <1>1, Before DEF ShowsAfter, Implemented

LEMMA OpenTable ==
  ASSUME TableInv, FilesInv', Allow = {}, NEW h \in Handles, NEW p \in Paths, NEW readOnly \in BOOLEAN,
         NEW disp \in DOMAIN Modes, OpenFile(h, p, readOnly, disp)
  PROVE  Implemented
<1>  DEFINE r == Createfile(g, h, p, Modes[disp], readOnly)
<1>1. /\ Sound(g, path) /\ path \in [Handles -> Paths \cup {<<>>}] /\ Held(g) /\ Seen(g, listing)
      /\ Tree(g.dir) /\ listing = [a \in Paths |-> listing[a]] /\ Owned = HeldOpen(g, path, listing)
      /\ Owned[h] = None <=> ~Opened(g, h)
  BY Before
<1>2. /\ ~Opened(g, h) /\ Last(p) \notin Folders /\ g' = r.g /\ listing' = Listing(g')
      /\ disp \in {"CREATE_ALWAYS", "TRUNCATE_EXISTING"} => Careful(p)
      /\ r.error = "eOK" => path' = [path EXCEPT ![h] = p]
      /\ r.error # "eOK" => path' = path
  BY DEF OpenFile, VolumeBecomes
<1>3. Modes[disp] \in {"omCreateAlways", "omTruncateExisting"} => disp \in {"CREATE_ALWAYS", "TRUNCATE_EXISTING"}
  BY DEF Modes
<1>4. Modes[disp] \in {"omCreateAlways", "omTruncateExisting"} => UsersOf(g, EntryAt(g, Find(g, p)).anode) = {}
  BY <1>2, <1>3, CarefulIs DEF Considerate
<1>5. CreateDone(g, r, h, p)
  BY <1>1, <1>2, <1>4, CreatefileDone
<1>6. Sound(g', path') /\ Tree(g'.dir)
  BY SoundTree DEF FilesInv
<1>  HIDE DEF r
<1>7. CASE r.error # "eOK"
  <2>1. g' = g /\ path' = path
    BY <1>2, <1>5, <1>7 DEF CreateDone
  <2>2. ShowsAfter(listing)
    BY <1>1, <1>2, <2>1, After
  <2>3. QED
    BY <2>1, <2>2, Stutters DEF SameOpen
<1>8. CASE r.error = "eOK"
  <2>  DEFINE Gets(M) == \/ M = listing /\ listing[p] # None
                         \/ M = [listing EXCEPT ![p] = 0] /\ \A k \in Handles : Opened(g, k) => path[k] # p
  <2>1. Opens(g, r.g, h) /\ path' = [path EXCEPT ![h] = p]
    BY <1>2, <1>5, <1>8 DEF CreateDone
  <2>2. \E M : Gets(M) /\ Seen(g', M) /\ M[p] \in {0, listing[p]} \cap Sizes /\ HasParents(listing, p)
    <3>1. CASE Kept(g, r.g) /\ \E d, e : Denotes(g.dir, p, d, e) /\ e.kind = "file"
      <4>1. PICK d, e : Denotes(g.dir, p, d, e) /\ e.kind = "file"
        BY <3>1
      <4>2. listing[p] # None /\ listing[p] \in Sizes
        BY <1>1, <4>1, LookIs DEF Sizes
      <4>3. Seen(r.g, listing)
        BY <1>1, <3>1, SeenKept
      <4>4. HasParents(listing, p)
        BY <1>1, <4>1, ParentIs DEF Denotes
      <4>5. QED
        BY <1>2, <4>2, <4>3, <4>4
    <3>2. CASE SizeGiven(g, r.g, p, 0) /\ NoUser(g, p)
      <4>1. Seen(r.g, [listing EXCEPT ![p] = 0]) /\ 0 \in 0 .. Room
        BY <1>1, <1>2, <1>6, <3>2, SeenSized
      <4>2. \A k \in Handles : Opened(g, k) => path[k] # p
        BY <1>1, <3>2, NoUserIs
      <4>3. HasParents(listing, p)
        BY <1>1, <3>2, ParentIs DEF SizeGiven, Denotes
      <4>4. [listing EXCEPT ![p] = 0][p] = 0
        BY <1>1
      <4>5. QED
        BY <1>2, <4>1, <4>2, <4>3, <4>4 DEF Sizes
    <3>3. CASE Came(g, r.g, p, "file")
      <4>1. Seen(r.g, [listing EXCEPT ![p] = 0])
        BY <1>1, <1>2, <1>6, <3>3, SeenCame
      <4>2. HasParents(listing, p) /\ \A d, e : ~Denotes(g.dir, p, d, e)
        BY <1>1, <1>2, <1>6, <3>3, CameNew
      <4>3. \A k \in Handles : Opened(g, k) => path[k] # p
        BY <1>1, <4>2, OpenSeen
      <4>4. [listing EXCEPT ![p] = 0][p] = 0
        BY <1>1
      <4>5. 0 \in Sizes
        BY PfsNumbersAssumption DEF Sizes
      <4>6. QED
        BY <1>2, <4>1, <4>2, <4>3, <4>4, <4>5
    <3>4. QED
      BY <1>5, <1>8, <3>1, <3>2, <3>3 DEF CreateDone
  <2>3. PICK M : Gets(M) /\ Seen(g', M) /\ M[p] \in {0, listing[p]} \cap Sizes /\ HasParents(listing, p)
    BY <2>2
  <2>4. ShowsAfter(M)
    BY <1>2, <2>3, After
  <2>5. \A k \in Handles : Opened(g, k) => M[path[k]] = listing[path[k]]
    <3>1. \A k \in Handles : Opened(g, k) => path[k] \in Paths
      BY <1>1, OpenSeen
    <3>2. \A a \in Paths \ {p} : M[a] = listing[a]
      BY <1>1, <2>3
    <3>3. M = listing \/ \A k \in Handles : Opened(g, k) => path[k] # p
      BY <2>3
    <3>4. QED
      BY <3>1, <3>2, <3>3
  <2>6. HeldOpen(r.g, [path EXCEPT ![h] = p], M) = [HeldOpen(g, path, listing) EXCEPT ![h] = [path |-> p, size |-> M[p]]]
    <3>  DEFINE name2 == [path EXCEPT ![h] = p]
    <3>1. name2[h] = p /\ \A k \in Handles \ {h} : name2[k] = path[k]
      BY <1>1
    <3>  HIDE DEF name2
    <3>2. HeldOpen(r.g, name2, M) = [HeldOpen(g, path, listing) EXCEPT ![h] = [path |-> p, size |-> M[p]]]
      BY <2>1, <2>5, <3>1, HeldOpens
    <3>3. QED
      BY <3>2 DEF name2
  <2>7. Owned' = [Owned EXCEPT ![h] = [path |-> p, size |-> M[p]]]
    BY <1>1, <1>2, <2>1, <2>4, <2>6 DEF ShowsAfter
  <2>8. listing[p] # Dir
    BY <1>1, <1>2, NoLook
  <2>9. (M[p] = 0 /\ listing' = [listing EXCEPT ![p] = 0]) \/ (listing[p] # None /\ listing' = listing)
    <3>1. listing' = M
      BY <2>4 DEF ShowsAfter
    <3>2. M = [listing EXCEPT ![p] = 0] => M[p] = 0
      BY <1>1
    <3>3. CASE M = listing /\ listing[p] # None
      BY <3>1, <3>3
    <3>4. CASE M = [listing EXCEPT ![p] = 0]
      <4>1. M[p] = 0
        BY <3>2, <3>4
      <4>2. listing' = [listing EXCEPT ![p] = 0]
        BY <3>1, <3>4
      <4>3. QED
        BY <4>1, <4>2
    <3>5. QED
      BY <2>3, <3>3, <3>4
  <2>10. FileTableOfVolume!OpenFileAt(h, p, M[p])
    BY <1>1, <1>2, <2>3, <2>7, <2>8, <2>9, StepOpen
  <2>11. FileTableOfVolume!TableNext
    BY <2>3, <2>10 DEF FileTableOfVolume!TableNext
  <2>12. QED
    BY <2>4, <2>11 DEF Implemented, ShowsAfter
<1>9. QED
  BY <1>7, <1>8

LEMMA MakeDirectoryTable ==
  ASSUME TableInv, FilesInv', NEW p \in Paths, MakeDirectory(p)
  PROVE  Implemented
<1>1. /\ Sound(g, path) /\ Held(g) /\ Seen(g, listing) /\ listing = [a \in Paths |-> listing[a]]
      /\ Owned = HeldOpen(g, path, listing)
  BY Before
<1>2. Last(p) \in Folders /\ g' = MkDir(g, p).g /\ path' = path /\ listing' = Listing(g')
  BY DEF MakeDirectory, VolumeBecomes
<1>3. Tree(g'.dir)
  BY SoundTree DEF FilesInv
<1>4. Steady(g, g') \/ (Came(g, g', p, "dir") /\ SameOpen(g, g'))
  BY <1>1, <1>2, MkDirDone
<1>5. CASE Steady(g, g')
  <2>1. Seen(g', listing)
    BY <1>1, <1>5, SeenKept DEF Steady
  <2>2. ShowsAfter(listing)
    BY <1>2, <2>1, After
  <2>3. QED
    BY <1>2, <1>5, <2>2, Stutters DEF Steady
<1>6. CASE Came(g, g', p, "dir") /\ SameOpen(g, g')
  <2>  DEFINE M == [listing EXCEPT ![p] = Dir]
  <2>1. Seen(g', M)
    BY <1>1, <1>3, <1>6, SeenCame
  <2>2. listing[p] = None /\ HasParents(listing, p)
    BY <1>1, <1>3, <1>6, CameNew
  <2>3. \A k \in Handles : Opened(g, k) => path[k] \in Paths /\ path[k] # p
    BY <1>1, <1>2, OpenSeen
  <2>4. \A k \in Handles : Opened(g, k) => path[k] = path[k] /\ M[path[k]] = listing[path[k]]
    BY <1>1, <2>3
  <2>5. M = [listing EXCEPT ![p] = Dir]
    OBVIOUS
  <2>  HIDE DEF M
  <2>6. ShowsAfter(M)
    BY <1>2, <2>1, After
  <2>7. Owned' = Owned
    BY <1>1, <1>2, <1>6, <2>4, <2>6, HeldSame DEF ShowsAfter
  <2>8. FileTableOfVolume!MakeDir(p)
    BY <2>2, <2>5, <2>6, <2>7, StepMakeDir DEF ShowsAfter
  <2>9. FileTableOfVolume!TableNext
    BY <2>8 DEF FileTableOfVolume!TableNext
  <2>10. QED
    BY <2>6, <2>9 DEF Implemented, ShowsAfter
<1>7. QED
  BY <1>4, <1>5, <1>6

\* What goes is not open, and no directory that something is in.
LEMMA WentIs ==
  ASSUME NEW x, NEW name, Sound(x, name), NEW L, Seen(x, L), NEW y, NEW p \in Paths, Went(x, y, p)
  PROVE  /\ L[p] # None
         /\ L[p] = Dir => \A q \in Paths : Beneath(p, q) => L[q] = None
<1>1. PICK d, e :
        /\ Denotes(x.dir, p, d, e) /\ Loses(x.dir, y.dir, d, e)
        /\ e.kind = "dir" => \A z : ~In(x.dir, e.anode, z)
  BY DEF Went
<1>2. L[p] # None /\ (L[p] = Dir => e.kind = "dir")
  BY <1>1, LookIs
<1>3. ASSUME NEW q \in Paths, Beneath(p, q), e.kind = "dir" PROVE L[q] = None
  <2>1. Len(q) = 2 /\ p = <<q[1]>> /\ Tree(x.dir)
    BY <1>3 DEF Beneath, Seen
  <2>2. e.name = q[1] /\ d = RootDir
    BY <1>1, <2>1 DEF Denotes, Under, Last
  <2>3. ASSUME NEW b, NEW z, Denotes(x.dir, q, b, z) PROVE FALSE
    <3>1. In(x.dir, b, z) /\ \E f : In(x.dir, RootDir, f) /\ f.name = q[1] /\ f.anode = b
      BY <2>1, <2>3 DEF Denotes, Under
    <3>2. b = e.anode
      BY <1>1, <2>1, <2>2, <3>1 DEF Tree, Denotes
    <3>3. QED
      BY <1>1, <1>3, <3>1, <3>2
  <2>4. QED
    BY <2>3 DEF Seen, Shows
<1>4. QED
  BY <1>2, <1>3

LEMMA DeleteTable ==
  ASSUME TableInv, FilesInv', Allow = {}, NEW p \in Paths, DeleteFile(p) \/ DeleteDirectory(p)
  PROVE  Implemented
<1>1. /\ Sound(g, path) /\ Held(g) /\ Seen(g, listing) /\ listing = [a \in Paths |-> listing[a]]
      /\ Owned = HeldOpen(g, path, listing)
      /\ \A h \in Handles : /\ Owned[h] = None <=> ~Opened(g, h)
                            /\ Opened(g, h) => Owned[h] = [path |-> path[h], size |-> listing[path[h]]]
  BY Before
<1>2. PICK r : /\ Leaves(r) /\ DeleteDone(g, r, p)
               /\ r.error = "eOK" => \A h \in Handles : Opened(g, h) => path[h] # p
  <2>1. CASE DeleteFile(p)
    <3>1. NoUser(g, p) /\ Leaves(Deletefile(g, p))
      BY <2>1, CarefulIs DEF DeleteFile, NoUser, Considerate
    <3>2. DeleteDone(g, Deletefile(g, p), p)
      BY <1>1, <3>1, DeletefileDone DEF NoUser
    <3>3. \A h \in Handles : Opened(g, h) => path[h] # p
      BY <1>1, <3>1, NoUserIs
    <3>4. QED
      BY <3>1, <3>2, <3>3
  <2>2. CASE DeleteDirectory(p)
    <3>1. /\ Leaves(RmDir(g, p)) /\ DeleteDone(g, RmDir(g, p), p)
          /\ RmDir(g, p).error = "eOK" => EntryAt(g, Find(g, p)).kind = "dir"
      BY <1>1, <2>2, RmDirDone DEF DeleteDirectory
    <3>2. ASSUME NEW h \in Handles, Opened(g, h), path[h] = p PROVE EntryAt(g, Find(g, p)).kind # "dir"
      <4>1. /\ At(g.dir, g.le[h].at) /\ EntryAt(g, g.le[h].at) = EntryOf(g.dir, g.le[h].at)
            /\ Find(g, p) = g.le[h].at /\ Last(p) \notin Folders
        BY <1>1, <3>2, OpenIs
      <4>2. Leads(g.dir, p, g.le[h].at) /\ DirsOK(g.dir, g.used)
        BY <1>1, <3>2, RefIs DEF Sound, Opened
      <4>3. QED
        BY <4>1, <4>2, LeadsDenotes, NotFolder
    <3>3. QED
      BY <3>1, <3>2
  <2>3. QED
    BY <2>1, <2>2
<1>3. g' = r.g /\ path' = path /\ listing' = Listing(g') /\ Tree(g'.dir)
  BY <1>2, SoundTree DEF Leaves, VolumeBecomes, FilesInv
<1>4. CASE r.error # "eOK"
  <2>1. g' = g
    BY <1>2, <1>3, <1>4 DEF DeleteDone
  <2>2. ShowsAfter(listing)
    BY <1>1, <1>3, <2>1, After
  <2>3. QED
    BY <1>3, <2>1, <2>2, Stutters DEF SameOpen
<1>5. CASE r.error = "eOK"
  <2>  DEFINE M == [listing EXCEPT ![p] = None]
  <2>1. Went(g, g', p) /\ SameOpen(g, g')
    BY <1>2, <1>3, <1>5 DEF DeleteDone
  <2>2. Seen(g', M)
    BY <1>1, <1>3, <2>1, SeenWent
  <2>3. listing[p] # None /\ (listing[p] = Dir => \A q \in Paths : Beneath(p, q) => listing[q] = None)
    BY <1>1, <2>1, WentIs
  <2>4. \A k \in Handles : Opened(g, k) => path[k] \in Paths /\ path[k] # p
    BY <1>1, <1>2, <1>5, OpenSeen
  <2>5. \A k \in Handles : Opened(g, k) => path[k] = path[k] /\ M[path[k]] = listing[path[k]]
    BY <1>1, <2>4
  <2>6. M = [listing EXCEPT ![p] = None]
    OBVIOUS
  <2>  HIDE DEF M
  <2>7. ShowsAfter(M)
    BY <1>3, <2>2, After
  <2>8. Owned' = Owned
    BY <1>1, <1>3, <2>1, <2>5, <2>7, HeldSame DEF ShowsAfter
  <2>9. HasNone(p)
    <3>1. ASSUME NEW o \in Handles, Owned[o] # None PROVE Owned[o].path # p
      <4>1. Owned[o] = [path |-> path[o], size |-> listing[path[o]]] /\ path[o] # p
        BY <1>1, <2>4, <3>1
      <4>2. QED
        BY <4>1
    <3>2. QED
      BY <3>1 DEF HasNone
  <2>10. FileTableOfVolume!Remove(p)
    BY <2>3, <2>6, <2>7, <2>8, <2>9, StepRemove DEF ShowsAfter
  <2>11. FileTableOfVolume!TableNext
    BY <2>10 DEF FileTableOfVolume!TableNext
  <2>12. QED
    BY <2>7, <2>11 DEF Implemented, ShowsAfter
<1>6. QED
  BY <1>4, <1>5

LEMMA FreeIs ==
  ASSUME NEW x, NEW name, Sound(x, name), NEW L, Seen(x, L), NEW q \in Paths, ~Exists(x, q)
  PROVE  L[q] = None
<1>1. L = Listing(x) /\ Find(x, q) = NoPlace
  BY SeenIs DEF Exists
<1>2. QED
  BY <1>1 DEF Listing, Shown

\* Where nobody is in the way.
Clear(q) == \A k \in Handles : Opened(g, k) => path[k] # q /\ ~Beneath(q, path[k])

LEMMA ClearOfNothing ==
  ASSUME TableInv, NEW q \in Paths, ~Exists(g, q)
  PROVE  Clear(q)
<1>1. Sound(g, path) /\ Seen(g, listing) /\ listing[q] = None
  BY Before, FreeIs
<1>2. ASSUME NEW k \in Handles, Opened(g, k) PROVE path[k] # q /\ ~Beneath(q, path[k])
  <2>1. Exists(g, path[k]) /\ path[k] \in Paths
    BY <1>1, <1>2, OpenSeen
  <2>2. PICK d, e : Denotes(g.dir, path[k], d, e)
    BY <1>1, <1>2, OpenSeen
  <2>3. HasParents(listing, path[k])
    BY <1>1, <2>1, <2>2, ParentIs DEF Denotes
  <2>4. QED
    BY <1>1, <2>1, <2>3, PfsMarksAssumption DEF HasParents
<1>3. QED
  BY <1>2 DEF Clear

LEMMA ClearOfGone ==
  ASSUME TableInv, NEW q \in Paths, NoUser(g, q), NEW z, Went(g, z, q)
  PROVE  Clear(q)
<1>1. /\ Sound(g, path) /\ Seen(g, listing)
      /\ listing[q] = Dir => \A a \in Paths : Beneath(q, a) => listing[a] = None
  BY Before, WentIs
<1>2. ASSUME NEW k \in Handles, Opened(g, k) PROVE path[k] # q /\ ~Beneath(q, path[k])
  <2>1. path[k] # q
    BY <1>1, <1>2, NoUserIs
  <2>2. path[k] \in Paths /\ listing[path[k]] # None
    BY <1>1, <1>2, OpenSeen
  <2>3. PICK d, e : Denotes(g.dir, path[k], d, e)
    BY <1>1, <1>2, OpenSeen
  <2>4. HasParents(listing, path[k])
    BY <1>1, <2>2, <2>3, ParentIs DEF Denotes
  <2>5. QED
    BY <1>1, <2>1, <2>2, <2>4 DEF HasParents
<1>3. QED
  BY <1>2 DEF Clear

LEMMA MoveTable ==
  ASSUME TableInv, FilesInv', Allow = {}, PathsClosed, NEW p \in Paths, NEW q \in Paths, NEW replace \in BOOLEAN,
         MoveFile(p, q, replace)
  PROVE  Implemented
<1>  DEFINE r == Movefile(g, p, q, replace)
<1>1. /\ Sound(g, path) /\ Seen(g, listing) /\ listing = [a \in Paths |-> listing[a]]
      /\ Owned = HeldOpen(g, path, listing)
      /\ \A h \in Handles : /\ Owned[h] = None <=> ~Opened(g, h)
                            /\ Opened(g, h) => Owned[h] = [path |-> path[h], size |-> listing[path[h]]]
  BY Before
<1>2. /\ Last(p) \in Folders <=> Last(q) \in Folders
      /\ Careful(p) /\ (replace => Careful(q) /\ ReplacesBehind(p, q))
      /\ g' = r.g /\ listing' = Listing(g')
      /\ path' = [h \in Handles |-> IF r.error = "eOK" /\ path[h] = p THEN q ELSE path[h]]
  BY DEF MoveFile, VolumeBecomes
<1>3. (replace => p # q) /\ \A h \in Handles : Len(path[h]) = 2 => p # <<path[h][1]>>
  BY DEF MoveFile
<1>4. NoUser(g, p) /\ (replace => NoUser(g, q))
  BY <1>2, CarefulIs DEF NoUser, Considerate
<1>5. replace => Find(g, q) = NoPlace \/ Find(g, q)[1] # Find(g, p)[1] \/ Find(g, q)[2] > Find(g, p)[2]
  BY <1>2 DEF ReplacesBehind
<1>6. MoveDone(g, r, p, q)
  BY <1>1, <1>2, <1>3, <1>4, <1>5, MovefileDone DEF NoUser
<1>7. \A k \in Handles : Opened(g, k) => path[k] # p /\ path[k] \in Paths
  BY <1>1, <1>4, NoUserIs, OpenSeen
<1>  HIDE DEF r
<1>8. \A k \in Handles : Opened(g, k) => path'[k] = path[k]
  BY <1>2, <1>7
<1>9. Tree(g'.dir)
  BY SoundTree DEF FilesInv
<1>10. CASE r.error # "eOK"
  <2>1. g' = g
    BY <1>2, <1>6, <1>10 DEF MoveDone
  <2>2. ShowsAfter(listing)
    BY <1>1, <1>2, <2>1, After
  <2>3. QED
    BY <1>8, <2>1, <2>2, Stutters DEF SameOpen
<1>11. CASE r.error = "eOK" /\ p = q
  <2>1. SameOpen(g, g') /\ WasMoved(g, g', p, p)
    BY <1>2, <1>6, <1>11 DEF MoveDone
  <2>2. Seen(g', listing)
    BY <1>1, <1>9, <2>1, SeenSelf
  <2>3. ShowsAfter(listing)
    BY <1>2, <2>2, After
  <2>4. QED
    BY <1>8, <2>1, <2>3, Stutters
<1>12. CASE r.error = "eOK" /\ p # q
  <2>  DEFINE M == MovedTable(listing, p, q)
  <2>1. SameOpen(g, g')
    BY <1>2, <1>6, <1>12 DEF MoveDone
  <2>2. Seen(g', M) /\ listing[p] # None /\ HasParents(listing, q) /\ Clear(q)
    <3>1. CASE WasMoved(g, g', p, q) /\ ~Exists(g, q)
      <4>1. PICK d, e, k, f : Denotes(g.dir, p, d, e) /\ Under(g.dir, q, k)
        BY <3>1 DEF WasMoved
      <4>2. QED
        BY <1>1, <1>9, <1>12, <3>1, <4>1, SeenMoved, LookIs, ParentIs, ClearOfNothing
    <3>2. ASSUME NEW z, Tree(z.dir), Went(g, z, q), WasMoved(z, g', p, q), NoUser(g, q)
          PROVE  Seen(g', M) /\ listing[p] # None /\ HasParents(listing, q) /\ Clear(q)
      <4>  DEFINE N == [listing EXCEPT ![q] = None]
      <4>1. Seen(z, N)
        BY <1>1, <3>2, SeenWent
      <4>2. MovedTable(N, p, q) = M
        BY <1>1, <1>12, MovedTwice
      <4>3. N[p] = listing[p]
        BY <1>1, <1>12
      <4>  HIDE DEF N, M
      <4>4. PICK d, e : Denotes(z.dir, p, d, e)
        BY <3>2 DEF WasMoved
      <4>5. listing[p] # None
        BY <4>1, <4>3, <4>4, LookIs
      <4>6. Seen(g', M)
        BY <1>9, <1>12, <3>2, <4>1, <4>2, SeenMoved
      <4>7. PICK b, f : Denotes(g.dir, q, b, f)
        BY <3>2 DEF Went
      <4>8. HasParents(listing, q)
        BY <1>1, <4>7, ParentIs DEF Denotes
      <4>9. Clear(q)
        BY <3>2, ClearOfGone
      <4>10. QED
        BY <4>5, <4>6, <4>8, <4>9
    <3>3. QED
      BY <1>2, <1>6, <1>12, <3>1, <3>2 DEF MoveDone
  <2>3. \A k \in Handles : Opened(g, k) => path[k] # p /\ path[k] # q /\ ~Beneath(p, path[k]) /\ ~Beneath(q, path[k])
    BY <1>3, <1>7, <2>2 DEF Clear, Beneath
  <2>4. \A k \in Handles : Opened(g, k) => M[path[k]] = listing[path[k]]
    BY <1>7, <2>3 DEF MovedTable
  <2>5. M = MovedTable(listing, p, q)
    OBVIOUS
  <2>  HIDE DEF M
  <2>6. ShowsAfter(M)
    BY <1>2, <2>2, After
  <2>7. Owned' = Owned
    <3>  DEFINE y == g'
                name2 == path'
    <3>1. SameOpen(g, y) /\ \A k \in Handles : Opened(g, k) => name2[k] = path[k]
      BY <1>8, <2>1
    <3>  HIDE DEF y, name2
    <3>2. HeldOpen(y, name2, M) = HeldOpen(g, path, listing)
      BY <2>4, <3>1, HeldSame
    <3>3. QED
      BY <1>1, <2>6, <3>2 DEF y, name2, ShowsAfter
  <2>8. HasNone(p) /\ HasNone(q) /\ \A a \in Paths : Beneath(p, a) => HasNone(a)
    <3>1. ASSUME NEW o \in Handles, Owned[o] # None PROVE Owned[o].path # p /\ Owned[o].path # q /\ ~Beneath(p, Owned[o].path)
      <4>1. Owned[o] = [path |-> path[o], size |-> listing[path[o]]] /\ path[o] # p /\ path[o] # q /\ ~Beneath(p, path[o])
        BY <1>1, <2>3, <3>1
      <4>2. QED
        BY <4>1
    <3>2. QED
      BY <3>1 DEF HasNone
  <2>9. FileTableOfVolume!Move(p, q)
    BY <1>12, <2>2, <2>5, <2>6, <2>7, <2>8, StepMove DEF ShowsAfter
  <2>10. FileTableOfVolume!TableNext
    BY <2>9 DEF FileTableOfVolume!TableNext
  <2>11. QED
    BY <2>6, <2>10 DEF Implemented, ShowsAfter
<1>13. QED
  BY <1>10, <1>11, <1>12

\* Whoever writes a file has it alone.
LEMMA OneUser ==
  ASSUME TableInv, NEW h \in Handles, Opened(g, h), NEW k \in Handles, Opened(g, k), path[k] = path[h]
  PROVE  g.le[k].anode = g.le[h].anode /\ (k # h => ~g.le[h].exclusive)
<1>1. Sound(g, path) /\ Seen(g, listing)
  BY Before
<1>2. g.le[k].anode = g.le[h].anode
  BY <1>1, OpenSeen
<1>3. QED
  BY <1>2 DEF TableInv, AloneInv, Alone, Opened

LEMMA DataThen ==
  ASSUME TableInv, FilesInv', NEW h \in Handles, Opened(g, h), g.le[h].exclusive, NEW r, Leaves(r),
         DataEnds(g, r.g, path[h])
  PROVE  Implemented
<1>  DEFINE p == path[h]
<1>1. /\ Sound(g, path) /\ Seen(g, listing) /\ listing = [a \in Paths |-> listing[a]]
      /\ Owned = HeldOpen(g, path, listing)
      /\ \A k \in Handles : /\ Owned[k] = None <=> ~Opened(g, k)
                            /\ Opened(g, k) => Owned[k] = [path |-> path[k], size |-> listing[path[k]]]
  BY Before
<1>2. g' = r.g /\ path' = path /\ listing' = Listing(g') /\ Tree(g'.dir)
  BY SoundTree DEF Leaves, VolumeBecomes, FilesInv
<1>3. CASE Kept(g, r.g)
  <2>1. ShowsAfter(listing)
    BY <1>1, <1>2, <1>3, SeenKept, After
  <2>2. QED
    BY <1>2, <2>1, Stutters DEF DataEnds
<1>4. ASSUME NEW t, SizeGiven(g, r.g, p, t) PROVE Implemented
  <2>  DEFINE M == [listing EXCEPT ![p] = t]
  <2>1. \A k \in Handles : Opened(g, k) => path[k] \in Paths /\ (k # h => path[k] # p)
    BY <1>1, OpenSeen, OneUser
  <2>2. Seen(g', M) /\ t \in 0 .. Room
    BY <1>1, <1>2, <1>4, <2>1, SeenSized
  <2>3. M[p] = t /\ \A k \in Handles \ {h} : Opened(g, k) => M[path[k]] = listing[path[k]]
    BY <1>1, <2>1
  <2>4. M = [listing EXCEPT ![p] = t]
    OBVIOUS
  <2>  HIDE DEF M
  <2>5. ShowsAfter(M)
    BY <1>2, <2>2, After
  <2>6. SameOpen(g, g')
    BY <1>2 DEF DataEnds
  <2>7. Owned' = [Owned EXCEPT ![h].size = t]
    BY <1>1, <1>2, <2>3, <2>5, <2>6, HeldSized DEF ShowsAfter
  <2>8. Owned[h] # None /\ Owned[h].path = p
    <3>1. Owned[h] = [path |-> p, size |-> listing[p]] /\ Owned[h] # None
      BY <1>1
    <3>2. QED
      BY <3>1
  <2>9. \A o \in Handles \ {h} : Owned[o] = None \/ Owned[o].path # p
    <3>1. ASSUME NEW o \in Handles \ {h}, Owned[o] # None PROVE Owned[o].path # p
      <4>1. Owned[o] = [path |-> path[o], size |-> listing[path[o]]] /\ path[o] # p
        BY <1>1, <2>1, <3>1
      <4>2. QED
        BY <4>1
    <3>2. QED
      BY <3>1
  <2>  HIDE DEF p
  <2>10. FileTableOfVolume!WriteThrough(h, t)
    BY <2>4, <2>5, <2>7, <2>8, <2>9, StepWrite DEF ShowsAfter
  <2>11. FileTableOfVolume!TableNext
    BY <2>2, <2>10 DEF FileTableOfVolume!TableNext, Sizes
  <2>12. QED
    BY <2>5, <2>11 DEF Implemented, ShowsAfter
<1>5. QED
  BY <1>3, <1>4 DEF DataEnds

LEMMA DataTable ==
  ASSUME TableInv, FilesInv', NEW h \in Handles, NEW ofs \in Ends, NEW n \in Ends, NEW paging \in BOOLEAN,
         \/ ReadFile(h, ofs, n) \/ WriteFile(h, ofs, n, paging) \/ AppendFile(h, n)
         \/ SetEndOfFile(h, ofs) \/ SetAllocationSize(h, ofs)
  PROVE  Implemented
<1>  DEFINE s == SeekUnlessThere(g, h, ofs)
<1>1. Sound(g, path) /\ Opened(g, h) /\ ofs \in Nat /\ n \in Nat /\ Seen(g, listing)
  BY PfsNumbersAssumption DEF TableInv, FilesInv, ReadFile, WriteFile, AppendFile, SetEndOfFile, SetAllocationSize
<1>2. Sound(s.g, path) /\ Opened(s.g, h) /\ SizeOf(g, h) \in Nat /\ Steady(g, s.g)
  BY <1>1, SeekOK, OpenIs, SeekSteady
<1>  HIDE DEF s
<1>3. CASE ReadFile(h, ofs, n)
  <2>  DEFINE r == IF s.error = "eOK" THEN Readfile(s.g, h, n) ELSE s
  <2>1. Leaves(r)
    BY <1>3 DEF ReadFile, s
  <2>2. Steady(g, r.g)
    <3>1. Steady(s.g, Readfile(s.g, h, n).g)
      BY <1>1, <1>2, ReadSteady
    <3>2. Steady(g, Readfile(s.g, h, n).g)
      BY <1>2, <3>1 DEF Steady, Kept, SameOpen
    <3>3. QED
      BY <1>2, <3>2
  <2>  HIDE DEF r
  <2>3. g' = r.g /\ path' = path /\ listing' = Listing(g')
    BY <2>1 DEF Leaves, VolumeBecomes
  <2>4. ShowsAfter(listing)
    BY <1>1, <2>2, <2>3, SeenKept, After DEF Steady
  <2>5. QED
    BY <2>2, <2>3, <2>4, Stutters DEF Steady
<1>4. CASE WriteFile(h, ofs, n, paging)
  <2>  DEFINE m == IF paging THEN Min({n, SizeOf(g, h) - ofs}) ELSE n
              r == WriteAt(s, h, m)
  <2>1. Leaves(r) /\ g.le[h].exclusive
    BY <1>4 DEF WriteFile, s
  <2>2. m \in Nat
    <3>1. CASE paging
      <4>1. SizeOf(g, h) - ofs \in Nat
        BY <1>1, <1>2, <1>4, <3>1 DEF WriteFile
      <4>2. QED
        BY <1>1, <3>1, <4>1, MinOfTwo
    <3>2. QED
      BY <1>1, <3>1
  <2>  HIDE DEF m
  <2>3. DataEnds(g, r.g, path[h])
    BY <1>2, <2>2, WriteAtEnds
  <2>  HIDE DEF r
  <2>4. QED
    BY <1>1, <2>1, <2>3, DataThen
<1>5. CASE AppendFile(h, n)
  <2>  DEFINE t == Seekfile(g, h, SizeOf(g, h))
              r == WriteAt(t, h, n)
  <2>1. Leaves(r) /\ g.le[h].exclusive
    BY <1>5 DEF AppendFile
  <2>2. Sound(t.g, path) /\ Opened(t.g, h) /\ Steady(g, t.g)
    BY <1>1, <1>2, SeekOK, SeekSteady
  <2>  HIDE DEF t
  <2>3. DataEnds(g, r.g, path[h])
    BY <1>1, <2>2, WriteAtEnds
  <2>  HIDE DEF r
  <2>4. QED
    BY <1>1, <2>1, <2>3, DataThen
<1>6. CASE SetEndOfFile(h, ofs)
  <2>  DEFINE r == TruncateAt(s, h)
  <2>1. Leaves(r) /\ g.le[h].exclusive
    BY <1>6 DEF SetEndOfFile, s
  <2>2. DataEnds(g, r.g, path[h])
    BY <1>2, TruncateAtEnds
  <2>  HIDE DEF r
  <2>3. QED
    BY <1>1, <2>1, <2>2, DataThen
<1>7. CASE SetAllocationSize(h, ofs)
  <2>  DEFINE t == Seekfile(g, h, ofs)
              r == IF ofs < SizeOf(g, h) THEN TruncateAt(t, h) ELSE ChangefileSize(g, h, ofs)
  <2>1. Leaves(r) /\ g.le[h].exclusive
    BY <1>7 DEF SetAllocationSize
  <2>2. Sound(t.g, path) /\ Opened(t.g, h) /\ Steady(g, t.g)
    BY <1>1, SeekOK, SeekSteady
  <2>  HIDE DEF t
  <2>3. DataEnds(g, TruncateAt(t, h).g, path[h]) /\ DataEnds(g, ChangefileSize(g, h, ofs).g, path[h])
    BY <1>1, <2>2, TruncateAtEnds, ChangeEnds
  <2>4. DataEnds(g, r.g, path[h])
    BY <2>3
  <2>  HIDE DEF r
  <2>5. QED
    BY <1>1, <2>1, <2>4, DataThen
<1>8. QED
  BY <1>3, <1>4, <1>5, <1>6, <1>7

LEMMA CleanupTable ==
  ASSUME TableInv, FilesInv', Allow = {}, NEW h \in Handles, NEW deleteOnClose \in BOOLEAN, Cleanup(h, deleteOnClose)
  PROVE  Implemented
<1>  DEFINE p == path[h]
            x == ClosedBy(h)
            name2 == [path EXCEPT ![h] = <<>>]
<1>1. /\ Sound(g, path) /\ path \in [Handles -> Paths \cup {<<>>}] /\ Seen(g, listing)
      /\ listing = [a \in Paths |-> listing[a]] /\ Owned = HeldOpen(g, path, listing)
      /\ \A k \in Handles : /\ Owned[k] = None <=> ~Opened(g, k)
                            /\ Opened(g, k) => Owned[k] = [path |-> path[k], size |-> listing[path[k]]]
  BY Before
<1>2. /\ Opened(g, h) /\ path' = name2 /\ listing' = Listing(g')
      /\ \/ g' = x
         \/ deleteOnClose /\ g' = Deletefile(x, p).g
      /\ deleteOnClose => UsersOf(g, g.le[h].anode) = {h}
  BY DEF Cleanup, VolumeBecomes
<1>3. Sound(x, name2)
  BY <1>1, ClosedOK DEF ClosedBy
<1>4. p \in Paths /\ Exists(g, p) /\ EntryAt(g, Find(g, p)).anode = g.le[h].anode
  BY <1>1, <1>2, OpenSeen
<1>5. x.dir = g.dir /\ x.avail = g.avail /\ x.le = [g.le EXCEPT ![h] = Closed] /\ g.le \in [Handles -> {Closed} \cup OpenFileEntry]
  BY <1>1 DEF ClosedBy, Sound, Volume
<1>6. ~Opened(x, h) /\ \A k \in Handles \ {h} : Opened(x, k) <=> Opened(g, k)
  BY <1>5 DEF Opened
<1>7. Seen(x, listing)
  BY <1>1, <1>5, SeenKept DEF Kept
<1>8. \A k \in Handles \ {h} : name2[k] = path[k]
  BY <1>1
<1>9. Owned[h] # None /\ Owned[h].path = p /\ Owned[h].size = listing[p]
  <2>1. Owned[h] # None /\ Owned[h] = [path |-> p, size |-> listing[p]]
    BY <1>1, <1>2
  <2>2. QED
    BY <2>1
<1>10. ASSUME deleteOnClose, NEW k \in Handles \ {h}, Opened(g, k) PROVE path[k] # p
  <2>1. k \notin UsersOf(g, g.le[h].anode)
    BY <1>2, <1>10
  <2>2. QED
    BY <1>2, <1>10, <2>1, OneUser DEF UsersOf
<1>11. Tree(g'.dir)
  BY SoundTree DEF FilesInv
<1>  HIDE DEF x, name2, p
<1>12. CASE g' = x
  <2>1. ShowsAfter(listing)
    BY <1>2, <1>7, <1>12, After
  <2>2. HeldOpen(x, name2, listing) = [HeldOpen(g, path, listing) EXCEPT ![h] = None]
    BY SMTT(60), <1>6, <1>8, HeldCloses
  <2>3. Owned' = [Owned EXCEPT ![h] = None]
    BY <1>1, <1>2, <1>12, <2>1, <2>2 DEF ShowsAfter
  <2>4. listing' = [listing EXCEPT ![p] = Owned[h].size]
    BY <1>1, <1>4, <1>9, <2>1 DEF ShowsAfter
  <2>5. PICK deletes \in BOOLEAN : ~deletes
    OBVIOUS
  <2>6. listing' = [listing EXCEPT ![Owned[h].path] = IF deletes THEN None ELSE Owned[h].size]
    BY <1>9, <2>4, <2>5
  <2>7. FileTableOfVolume!CloseFile(h, deletes)
    BY <1>9, <2>3, <2>5, <2>6, StepClose
  <2>8. FileTableOfVolume!TableNext
    BY <2>7 DEF FileTableOfVolume!TableNext
  <2>9. QED
    BY <2>1, <2>8 DEF Implemented, ShowsAfter
<1>13. CASE deleteOnClose /\ g' = Deletefile(x, p).g
  <2>1. NoUser(x, p)
    <3>1. Find(x, p) = Find(g, p) /\ \A at : EntryAt(x, at) = EntryAt(g, at)
      <4>1. \A at : EntryAt(x, at) = EntryAt(g, at)
        BY <1>5 DEF EntryAt
      <4>2. \A d, n : Search(x, d, n) = Search(g, d, n)
        BY <1>5 DEF Search
      <4>3. FolderOf(x, p) = FolderOf(g, p)
        BY <4>1, <4>2 DEF FolderOf
      <4>4. QED
        BY <4>1, <4>2, <4>3 DEF Find, PlaceIn
    <3>2. UsersOf(x, g.le[h].anode) = {}
      BY <1>2, <1>5, <1>13 DEF UsersOf, Opened
    <3>3. QED
      BY <1>4, <3>1, <3>2 DEF NoUser
  <2>2. DeleteDone(x, Deletefile(x, p), p)
    BY <1>3, <1>4, <2>1, DeletefileDone DEF NoUser
  <2>3. CASE Deletefile(x, p).error # "eOK"
    BY <1>12, <1>13, <2>2, <2>3 DEF DeleteDone
  <2>4. CASE Deletefile(x, p).error = "eOK"
    <3>  DEFINE M == [listing EXCEPT ![p] = None]
    <3>1. Went(x, g', p) /\ SameOpen(x, g')
      BY <1>13, <2>2, <2>4 DEF DeleteDone
    <3>2. Seen(g', M)
      BY <1>4, <1>7, <1>11, <3>1, SeenWent
    <3>3. \A k \in Handles \ {h} : Opened(g, k) => path[k] \in Paths /\ path[k] # p
      BY <1>1, <1>10, <1>13, OpenSeen
    <3>4. \A k \in Handles \ {h} : Opened(g, k) => name2[k] = path[k] /\ M[path[k]] = listing[path[k]]
      BY <1>1, <1>8, <3>3
    <3>5. M = [listing EXCEPT ![p] = None]
      OBVIOUS
    <3>  HIDE DEF M
    <3>6. ShowsAfter(M)
      BY <1>2, <3>2, After
    <3>7. ~Opened(g', h) /\ \A k \in Handles \ {h} : Opened(g', k) <=> Opened(g, k)
      BY <1>6, <3>1 DEF SameOpen, Opened
    <3>8. HeldOpen(g', name2, M) = [HeldOpen(g, path, listing) EXCEPT ![h] = None]
      BY SMTT(60), <3>4, <3>7, HeldCloses
    <3>9. Owned' = [Owned EXCEPT ![h] = None]
      BY <1>1, <1>2, <3>6, <3>8 DEF ShowsAfter
    <3>10. listing' = [listing EXCEPT ![Owned[h].path] = IF deleteOnClose THEN None ELSE Owned[h].size]
      BY <1>9, <1>13, <3>5, <3>6 DEF ShowsAfter
    <3>11. \A o \in Handles \ {h} : Owned[o] = None \/ Owned[o].path # Owned[h].path
      <4>1. ASSUME NEW o \in Handles \ {h}, Owned[o] # None PROVE Owned[o].path # p
        <5>1. Owned[o] = [path |-> path[o], size |-> listing[path[o]]] /\ path[o] # p
          BY <1>1, <3>3, <4>1
        <5>2. QED
          BY <5>1
      <4>2. QED
        BY <1>9, <4>1
    <3>12. FileTableOfVolume!CloseFile(h, deleteOnClose)
      BY <1>9, <3>9, <3>10, <3>11, StepClose
    <3>13. FileTableOfVolume!TableNext
      BY <3>12 DEF FileTableOfVolume!TableNext
    <3>14. QED
      BY <3>6, <3>13 DEF Implemented, ShowsAfter
  <2>5. QED
    BY <2>3, <2>4
<1>14. QED
  BY <1>2, <1>12, <1>13

LEMMA TableInitial ==
  ASSUME Init
  PROVE  TableInv /\ FileTableOfVolume!TableInit
<1>1. FilesInv /\ AloneInv /\ ~alarm /\ listing = Listing(g)
  BY FilesInit, AloneInit DEF Init
<1>2. PICK S \in SUBSET Folders : g = Formatted(SetToSeq(S))
  BY DEF Init
<1>  DEFINE order == SetToSeq(S)
<1>3. g.locks = {} /\ g.avail = Room /\ g.le = [h \in Handles |-> Closed]
  BY <1>2 DEF Formatted
<1>4. ASSUME NEW d, NEW e, In(g.dir, d, e) PROVE Weight(e) = 0
  <2>1. g.dir = [k \in {RootDir} \cup {RootDir + i : i \in DOMAIN order} |->
                   IF k = RootDir
                   THEN [i \in DOMAIN order |-> [name |-> order[i], anode |-> RootDir + i, kind |-> "dir", size |-> 0]]
                   ELSE <<>>]
    BY <1>2 DEF Formatted
  <2>2. PICK i \in 1 .. Len(g.dir[d]) : g.dir[d][i] = e /\ d \in DOMAIN g.dir
    BY <1>4 DEF In
  <2>3. d = RootDir
    BY <2>1, <2>2
  <2>4. i \in DOMAIN g.dir[d]
    <3>1. Blocky(g.dir)
      BY <1>1 DEF FilesInv, Sound, DirsOK
    <3>2. QED
      BY <2>2, <3>1, EntryIs
  <2>5. e = [name |-> order[i], anode |-> RootDir + i, kind |-> "dir", size |-> 0]
    BY <2>1, <2>2, <2>3, <2>4
  <2>6. QED
    BY <2>5 DEF Weight
<1>5. Sound(g, path) /\ DirsOK(g.dir, g.used)
  BY <1>1 DEF FilesInv, Sound
<1>6. Blocks(g.dir) = {}
  <2>1. ASSUME NEW b \in Blocks(g.dir) PROVE FALSE
    <3>1. PICK d, e : In(g.dir, d, e) /\ b[2] <= Weight(e) /\ b[2] \in Nat \ {0}
      BY <2>1 DEF Blocks
    <3>2. QED
      BY <1>4, <3>1
  <2>2. QED
    BY <2>1
<1>7. Budget(g.dir, g.avail)
  <2>1. IsFiniteSet(Blocks(g.dir)) /\ Cardinality(Blocks(g.dir)) = 0
    BY <1>6, FS_EmptySet
  <2>2. QED
    BY <1>3, <2>1, PfsNumbersAssumption DEF Budget
<1>8. Seen(g, listing)
  BY <1>1, <1>5, <1>7, SoundTree, ShowsListing DEF Seen
<1>9. LocksInv
  BY <1>3 DEF LocksInv
<1>10. TableInv
  BY <1>1, <1>8, <1>9 DEF TableInv
<1>11. \A h \in Handles : ~Opened(g, h)
  BY <1>3 DEF Opened
<1>12. Owned = [h \in Handles |-> None]
  BY <1>11 DEF Owned
<1>13. \A p \in Paths : listing[p] # None => HasParents(listing, p)
  BY <1>8, ParentIs DEF Seen, Shows, Denotes
<1>14. FileTableOfVolume!TableInit
  BY <1>12, <1>13 DEF Owned, HasParents, Beneath, FileTableOfVolume!TableInit, FileTableOfVolume!HasParent,
                      FileTableOfVolume!Below
<1>15. QED
  BY <1>10, <1>14

LEMMA TableStep ==
  ASSUME TableInv, [Next]_vars, Allow = {}, PathsClosed
  PROVE  TableInv' /\ (FileTableOfVolume!TableNext \/ (listing' = listing /\ Owned' = Owned))
<1>1. FilesInv' /\ AloneInv' /\ LocksInv' /\ ~alarm'
  BY FilesNext, AloneNext, LocksNext DEF TableInv, Considerate
<1>2. CASE UNCHANGED vars
  <2>1. g' = g /\ listing' = listing /\ path' = path
    BY <1>2 DEF vars
  <2>2. Owned' = Owned
    BY <2>1 DEF Owned, Opened, SizeOf, EntryAt
  <2>3. Seen(g', listing')
    BY <2>1 DEF TableInv
  <2>4. QED
    BY <1>1, <2>1, <2>2, <2>3 DEF TableInv
<1>3. CASE Next
  <2>  SUFFICES Implemented
    BY <1>1 DEF Implemented, TableInv
  <2>1. ASSUME NEW p \in Paths, MakeDirectory(p) \/ DeleteFile(p) \/ DeleteDirectory(p) PROVE Implemented
    BY <1>1, <2>1, MakeDirectoryTable, DeleteTable
  <2>2. ASSUME NEW p \in Paths, NEW q \in Paths, NEW replace \in BOOLEAN, MoveFile(p, q, replace) PROVE Implemented
    BY <1>1, <2>2, MoveTable
  <2>3. ASSUME NEW h \in Handles, NEW ofs \in Ends, NEW n \in Ends, NEW paging \in BOOLEAN,
               \/ ReadFile(h, ofs, n) \/ WriteFile(h, ofs, n, paging) \/ AppendFile(h, n)
               \/ SetEndOfFile(h, ofs) \/ SetAllocationSize(h, ofs)
        PROVE  Implemented
    BY <1>1, <2>3, DataTable
  <2>4. CASE \E p \in Paths :
               \/ MakeDirectory(p) \/ DeleteFile(p) \/ DeleteDirectory(p)
               \/ \E q \in Paths, replace \in BOOLEAN : MoveFile(p, q, replace)
    BY <2>1, <2>2, <2>4
  <2>5. CASE \E h \in Handles, n \in Ends \ {0} : AppendFile(h, n)
    BY <2>3, <2>5
  <2>6. CASE \E h \in Handles, ofs \in Ends : SetEndOfFile(h, ofs) \/ SetAllocationSize(h, ofs)
    BY <2>3, <2>6
  <2>7. CASE \E h \in Handles, ofs \in Ends, n \in Ends \ {0} :
               ReadFile(h, ofs, n) \/ \E paging \in BOOLEAN : WriteFile(h, ofs, n, paging)
    BY <2>3, <2>7
  <2>8. CASE \E h \in Handles, p \in Paths, readOnly \in BOOLEAN, disp \in DOMAIN Modes : OpenFile(h, p, readOnly, disp)
    BY <1>1, <2>8, OpenTable
  <2>9. CASE \E h \in Handles, deleteOnClose \in BOOLEAN : Cleanup(h, deleteOnClose)
    BY <1>1, <2>9, CleanupTable
  <2>10. QED
    BY <1>3, <2>4, <2>5, <2>6, <2>7, <2>8, <2>9 DEF Next
<1>4. QED
  BY <1>2, <1>3

(* Programs see one file at a time appear, change its size, move and go, and  *)
(* never one that somebody has open, whatever entries move in the blocks of  *)
(* directories and whichever programs share the volume: each call of         *)
(* pfs3_operations.cpp is one step of FileTable, or none.                    *)
THEOREM VolumeImplementsTable ==
  ASSUME Allow = {}, PathsClosed
  PROVE  Spec => ImplementsFileTable
<1>1. Init => TableInv /\ FileTableOfVolume!TableInit
  BY TableInitial
<1>2. TableInv /\ [Next]_vars => TableInv' /\ [FileTableOfVolume!TableNext]_(FileTableOfVolume!tableVars)
  <2>  SUFFICES ASSUME TableInv, [Next]_vars
                PROVE  TableInv' /\ [FileTableOfVolume!TableNext]_(FileTableOfVolume!tableVars)
    OBVIOUS
  <2>1. TableInv' /\ (FileTableOfVolume!TableNext \/ (listing' = listing /\ Owned' = Owned))
    BY TableStep
  <2>2. QED
    BY <2>1 DEF Owned, FileTableOfVolume!tableVars
<1>3. QED
  BY <1>1, <1>2, PTL DEF Spec, ImplementsFileTable, FileTableOfVolume!TableSpec
=============================================================================
