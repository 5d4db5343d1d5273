-------------------------- MODULE PfsBlocks_proofs --------------------------
(***************************************************************************)
(* Theorems about PfsBlocks, for volumes of any size with any number of     *)
(* files, provided no file is emptied when tobefreed is nearly full (Allow  *)
(* without "overwrite").                                                    *)
(***************************************************************************)
EXTENDS PfsBlocks, FiniteSetTheorems, TLAPS

Careful == "overwrite" \notin Allow

(***************************************************************************)
(* What holds of a version, and of the library's data at every point of a   *)
(* call.                                                                    *)
(***************************************************************************)
Task == [file : Files \cup {Nobody}, count : Nat]
Stored == [there : [Files -> BOOLEAN], size : [Files -> Nat], chain : [Files -> Seq(Blocks)],
           free : SUBSET Blocks, blocksfree : Nat, todo : Task]
Volume == [up : {TRUE}, there : [Files -> BOOLEAN], size : [Files -> Nat],
           chain : [Files -> Seq(Blocks)], free : SUBSET Blocks, tbf : Seq(Blocks),
           clean : Nat, avail : Nat, todo : Task, blank : Files \cup {Nobody},
           dirty : BOOLEAN, past : Seq(Stored)]

\* Each block is free, or waits once, or is in one place of one file.
Parted(free, tbf, chain) ==
  /\ \A i, j \in 1 .. Len(tbf) : tbf[i] = tbf[j] => i = j
  /\ \A i \in 1 .. Len(tbf) : tbf[i] \notin free
  /\ \A f \in Files : \A i \in 1 .. Len(chain[f]) :
       /\ chain[f][i] \notin free
       /\ \A j \in 1 .. Len(tbf) : tbf[j] # chain[f][i]
       /\ \A g \in Files : \A j \in 1 .. Len(chain[g]) : chain[f][i] = chain[g][j] => f = g /\ i = j
  /\ \A b \in Blocks : \/ b \in free
                       \/ \E i \in 1 .. Len(tbf) : tbf[i] = b
                       \/ \E f \in Files : \E i \in 1 .. Len(chain[f]) : chain[f][i] = b

\* How long a file is, and what is left of a chain when n blocks are freed.
Shown(d, f) == IF d.there[f] THEN d.size[f] ELSE 0
Left(len, n) == IF len > n THEN len - n ELSE 0
\* A file is as long as its chain, less what is noted to be freed.
Fits(d) ==
  \A f \in Files : Shown(d, f) = IF f = d.todo.file THEN Left(Len(d.chain[f]), d.todo.count)
                                                    ELSE Len(d.chain[f])
Noting(d) == d.todo = Nothing \/ d.todo.file \in Files

VersionOK(d) ==
  /\ d \in Stored /\ Parted(d.free, <<>>, d.chain) /\ d.blocksfree = Cardinality(d.free)
  /\ Noting(d) /\ Fits(d)
CountOK(v) == v.clean = Cardinality(v.free) /\ v.avail = v.clean + Len(v.tbf)
VolumeOK(v) == v \in Volume /\ Parted(v.free, v.tbf, v.chain) /\ CountOK(v)

\* The version that a crash would find, d being the disk before the call.
Base(d, v) == IF v.past = <<>> THEN d ELSE v.past[Len(v.past)]
\* Its blocks wait, or are where they were.
Intact(v, d) ==
  \A f \in Files : \A i \in 1 .. Len(d.chain[f]) :
    \/ \E j \in 1 .. Len(v.tbf) : v.tbf[j] = d.chain[f][i]
    \/ i \in 1 .. Len(v.chain[f]) /\ v.chain[f][i] = d.chain[f][i]
\* What is clean has been committed.
SameEntries(v, d) == v.there = d.there /\ v.size = d.size
Saved(v, d) == v.dirty \/ SameEntries(v, d)
\* The versions of a call leave the entries of other files alone.
Alike(v, G) ==
  \A i \in 1 .. Len(v.past) : /\ VersionOK(v.past[i])
                              /\ \A g \in G : /\ v.past[i].there[g] = v.there[g]
                                              /\ v.past[i].size[g] = v.size[g]

Calling(d, G, v) ==
  /\ VersionOK(d) /\ VolumeOK(v) /\ Alike(v, G)
  /\ Intact(v, Base(d, v)) /\ Saved(v, Base(d, v))
AtRest(v) == v.todo = Nothing /\ v.blank = Nobody /\ Fits(v)

SettledOK ==
  \A f \in Files : settled[f] # Nobody =>
    /\ SizesOf(disk)[f] = settled[f]
    /\ Up => SizesOf(vol)[f] = settled[f]
BlocksInv ==
  /\ VersionOK(disk) /\ settled \in [Files -> Nat \cup {Nobody}] /\ SettledOK
  /\ Up => Calling(disk, Files, vol) /\ AtRest(vol) /\ vol.past = <<>>
-----------------------------------------------------------------------------
(***************************************************************************)
(* Blocks move from one use to another, one at a time or, in an update, all *)
(* that wait.                                                               *)
(***************************************************************************)
LEMMA FrontIs ==
  ASSUME NEW S, NEW s \in Seq(S), s # <<>>
  PROVE  /\ Front(s) \in Seq(S) /\ Len(Front(s)) = Len(s) - 1 /\ Len(s) \in Nat \ {0}
         /\ \A i \in 1 .. (Len(s) - 1) : Front(s)[i] = s[i]
         /\ Last(s) = s[Len(s)] /\ Last(s) \in S
<1>1. Len(s) \in Nat \ {0} /\ \A i \in 1 .. Len(s) : s[i] \in S
  OBVIOUS
<1>2. \A i \in 1 .. (Len(s) - 1) : i \in 1 .. Len(s)
  BY <1>1
<1>3. SubSeq(s, 1, Len(s) - 1) = [i \in 1 .. (Len(s) - 1) |-> s[i]]
  BY <1>1
<1>4. Front(s) = [i \in 1 .. (Len(s) - 1) |-> s[i]]
  BY <1>3 DEF Front
<1>5. Front(s) \in Seq(S) /\ Len(Front(s)) = Len(s) - 1
  <2>1. Len(s) - 1 \in Nat
    BY <1>1
  <2>2. \A i \in 1 .. (Len(s) - 1) : s[i] \in S
    BY <1>1, <1>2
  <2>3. QED
    BY <1>4, <2>1, <2>2
<1>6. Last(s) = s[Len(s)] /\ Last(s) \in S
  BY <1>1 DEF Last
<1>7. QED
  BY <1>1, <1>4, <1>5, <1>6

LEMMA AppendIs ==
  ASSUME NEW S, NEW s \in Seq(S), NEW e \in S
  PROVE  /\ Append(s, e) \in Seq(S) /\ Len(Append(s, e)) = Len(s) + 1 /\ Len(s) \in Nat
         /\ \A i \in 1 .. Len(s) : Append(s, e)[i] = s[i]
         /\ Append(s, e)[Len(s) + 1] = e
  OBVIOUS

LEMMA FreeLastParts ==
  ASSUME NEW free \in SUBSET Blocks, NEW tbf \in Seq(Blocks), NEW chain \in [Files -> Seq(Blocks)],
         NEW f \in Files, chain[f] # <<>>, Parted(free, tbf, chain)
  PROVE  Parted(free, Append(tbf, Last(chain[f])), [chain EXCEPT ![f] = Front(@)])
<1>  DEFINE s == chain[f]
            b == Last(s)
            t == Append(tbf, b)
            c == [chain EXCEPT ![f] = Front(@)]
<1>1. /\ Front(s) \in Seq(Blocks) /\ Len(Front(s)) = Len(s) - 1 /\ Len(s) \in Nat \ {0}
      /\ \A i \in 1 .. (Len(s) - 1) : Front(s)[i] = s[i]
      /\ b = s[Len(s)] /\ b \in Blocks
  BY FrontIs
<1>2. /\ Len(t) = Len(tbf) + 1 /\ Len(tbf) \in Nat /\ t[Len(tbf) + 1] = b
      /\ \A i \in 1 .. Len(tbf) : t[i] = tbf[i]
  BY <1>1, AppendIs
<1>3. /\ c[f] = Front(s) /\ \A g \in Files \ {f} : c[g] = chain[g]
      /\ \A g \in Files : Len(c[g]) \in Nat /\ Len(chain[g]) \in Nat
  BY <1>1
<1>4. \A g \in Files : \A i \in 1 .. Len(c[g]) : i \in 1 .. Len(chain[g]) /\ c[g][i] = chain[g][i]
  BY SMTT(60), <1>1, <1>3
<1>5. \A g \in Files : \A i \in 1 .. Len(c[g]) : c[g][i] # b
  <2>1. \A g \in Files \ {f} : \A i \in 1 .. Len(c[g]) : c[g][i] # b
    BY <1>1, <1>3, <1>4 DEF Parted
  <2>2. \A i \in 1 .. Len(c[f]) : c[f][i] # b
    BY SMTT(60), <1>1, <1>3, <1>4 DEF Parted
  <2>3. QED
    BY <2>1, <2>2
<1>6. \A i \in 1 .. Len(t) : t[i] \notin free
  BY <1>1, <1>2 DEF Parted
<1>7. \A i, j \in 1 .. Len(t) : t[i] = t[j] => i = j
  <2>1. \A i \in 1 .. Len(tbf) : tbf[i] # b
    BY <1>1 DEF Parted
  <2>2. QED
    BY <1>2, <2>1 DEF Parted
<1>8. \A g \in Files : \A i \in 1 .. Len(c[g]) :
        /\ c[g][i] \notin free
        /\ \A j \in 1 .. Len(t) : t[j] # c[g][i]
        /\ \A h \in Files : \A j \in 1 .. Len(c[h]) : c[g][i] = c[h][j] => g = h /\ i = j
  <2>1. \A g \in Files : \A i \in 1 .. Len(c[g]) : \A j \in 1 .. Len(t) : t[j] # c[g][i]
    BY <1>2, <1>4, <1>5 DEF Parted
  <2>2. QED
    BY SMTT(60), <1>4, <2>1 DEF Parted
<1>9. ASSUME NEW x \in Blocks
      PROVE  \/ x \in free
             \/ \E i \in 1 .. Len(t) : t[i] = x
             \/ \E g \in Files : \E i \in 1 .. Len(c[g]) : c[g][i] = x
  <2>1. CASE \E i \in 1 .. Len(tbf) : tbf[i] = x
    BY <1>2, <2>1
  <2>2. ASSUME NEW g \in Files, NEW i \in 1 .. Len(chain[g]), chain[g][i] = x
        PROVE  (\E j \in 1 .. Len(t) : t[j] = x) \/ \E h \in Files : \E j \in 1 .. Len(c[h]) : c[h][j] = x
    <3>1. CASE g = f /\ i = Len(s)
      BY <1>1, <1>2, <2>2, <3>1, Len(tbf) + 1 \in 1 .. Len(t)
    <3>2. CASE ~(g = f /\ i = Len(s))
      <4>1. i \in 1 .. Len(c[g])
        BY <1>1, <1>3, <3>2
      <4>2. QED
        BY <1>4, <2>2, <4>1
    <3>3. QED
      BY <3>1, <3>2
  <2>3. QED
    BY ZenonT(60), <2>1, <2>2 DEF Parted
<1>10. QED
  BY <1>6, <1>7, <1>8, <1>9 DEF Parted

LEMMA TakeParts ==
  ASSUME NEW free \in SUBSET Blocks, NEW tbf \in Seq(Blocks), NEW chain \in [Files -> Seq(Blocks)],
         NEW f \in Files, NEW b \in free, Parted(free, tbf, chain)
  PROVE  Parted(free \ {b}, tbf, [chain EXCEPT ![f] = Append(@, b)])
<1>  DEFINE s == chain[f]
            c == [chain EXCEPT ![f] = Append(@, b)]
<1>1. /\ Len(Append(s, b)) = Len(s) + 1 /\ Len(s) \in Nat /\ Append(s, b)[Len(s) + 1] = b
      /\ \A i \in 1 .. Len(s) : Append(s, b)[i] = s[i]
  BY AppendIs
<1>2. /\ c[f] = Append(s, b) /\ \A g \in Files \ {f} : c[g] = chain[g]
      /\ \A g \in Files : Len(chain[g]) \in Nat
  OBVIOUS
<1>3. \A g \in Files : \A i \in 1 .. Len(chain[g]) : i \in 1 .. Len(c[g]) /\ c[g][i] = chain[g][i]
  BY <1>1, <1>2
<1>4. c[f][Len(s) + 1] = b /\ Len(s) + 1 \in 1 .. Len(c[f])
  BY <1>1, <1>2
<1>5. \A g \in Files : \A i \in 1 .. Len(c[g]) :
        (g = f /\ i = Len(s) + 1 /\ c[g][i] = b) \/ (i \in 1 .. Len(chain[g]) /\ c[g][i] = chain[g][i])
  BY <1>1, <1>2
<1>6. \A g \in Files : \A i \in 1 .. Len(chain[g]) : chain[g][i] # b
  BY DEF Parted
<1>7. \A g \in Files : \A i \in 1 .. Len(c[g]) :
        /\ c[g][i] \notin free \ {b}
        /\ \A j \in 1 .. Len(tbf) : tbf[j] # c[g][i]
        /\ \A h \in Files : \A j \in 1 .. Len(c[h]) : c[g][i] = c[h][j] => g = h /\ i = j
  <2>1. \A g \in Files : \A i \in 1 .. Len(c[g]) :
          c[g][i] \notin free \ {b} /\ \A j \in 1 .. Len(tbf) : tbf[j] # c[g][i]
    BY <1>5 DEF Parted
  <2>2. \A g, h \in Files : \A i \in 1 .. Len(c[g]), j \in 1 .. Len(c[h]) :
          c[g][i] = c[h][j] => g = h /\ i = j
    BY <1>5, <1>6 DEF Parted
  <2>  HIDE DEF c
  <2>3. QED
    BY <2>1, <2>2
<1>8. ASSUME NEW x \in Blocks
      PROVE  \/ x \in free \ {b}
             \/ \E i \in 1 .. Len(tbf) : tbf[i] = x
             \/ \E g \in Files : \E i \in 1 .. Len(c[g]) : c[g][i] = x
  <2>1. CASE x = b
    BY <1>4, <2>1
  <2>2. ASSUME NEW g \in Files, NEW i \in 1 .. Len(chain[g]), chain[g][i] = x
        PROVE  \E h \in Files : \E j \in 1 .. Len(c[h]) : c[h][j] = x
    BY <1>3, <2>2
  <2>  HIDE DEF c
  <2>3. QED
    BY <2>1, <2>2 DEF Parted
<1>9. QED
  BY <1>7, <1>8 DEF Parted

LEMMA FlushParts ==
  ASSUME NEW free \in SUBSET Blocks, NEW tbf \in Seq(Blocks), NEW chain \in [Files -> Seq(Blocks)],
         Parted(free, tbf, chain)
  PROVE  /\ Parted(free \cup Range(tbf), <<>>, chain)
         /\ Cardinality(free \cup Range(tbf)) = Cardinality(free) + Len(tbf)
         /\ free \cup Range(tbf) \in SUBSET Blocks
<1>1. Range(tbf) = {tbf[i] : i \in 1 .. Len(tbf)} /\ Range(tbf) \subseteq Blocks /\ Len(tbf) \in Nat
  BY DEF Range
<1>2. Parted(free \cup Range(tbf), <<>>, chain)
  <2>1. \A g \in Files : \A i \in 1 .. Len(chain[g]) : chain[g][i] \notin free \cup Range(tbf)
    BY <1>1 DEF Parted
  <2>2. \A x \in Blocks : \/ x \in free \cup Range(tbf)
                         \/ \E g \in Files : \E i \in 1 .. Len(chain[g]) : chain[g][i] = x
    BY <1>1 DEF Parted
  <2>3. Len(<<>>) = 0 /\ 1 .. 0 = {}
    OBVIOUS
  <2>4. QED
    BY <2>1, <2>2, <2>3 DEF Parted
<1>3. IsFiniteSet(free) /\ IsFiniteSet(Range(tbf)) /\ Cardinality(free) \in Nat
  BY <1>1, FS_Subset, FS_CardinalityType, PfsBlocksAssumption
<1>4. Cardinality(Range(tbf)) = Len(tbf)
  <2>  DEFINE I == 1 .. Len(tbf)
  <2>1. IsFiniteSet(I) /\ Cardinality(I) = Len(tbf)
    <3>1. /\ IsFiniteSet(1 .. Len(tbf))
          /\ Cardinality(1 .. Len(tbf)) = IF 1 > Len(tbf) THEN 0 ELSE Len(tbf) - 1 + 1
      BY SMTT(60), <1>1, FS_Interval
    <3>2. \A n \in Nat : (IF 1 > n THEN 0 ELSE n - 1 + 1) = n
      OBVIOUS
    <3>3. QED
      BY <1>1, <3>1, <3>2
  <2>2. tbf \in Bijection(I, Range(tbf))
    BY SMTT(60), <1>1 DEF Bijection, Injection, Surjection, IsInjective, Parted
  <2>3. QED
    BY <2>1, <2>2, FS_Bijection DEF ExistsBijection
<1>5. free \cap Range(tbf) = {}
  BY <1>1 DEF Parted
<1>6. QED
  <2>1. Cardinality(free \cup Range(tbf)) = Cardinality(free) + Len(tbf) - Cardinality(free \cap Range(tbf))
    BY <1>3, <1>4, FS_Union
  <2>2. Cardinality(free \cap Range(tbf)) = 0
    BY <1>5, FS_EmptySet
  <2>3. QED
    BY <1>1, <1>2, <1>3, <2>1, <2>2

\* What an update leaves alone.
Keeps(v, w) ==
  /\ w.there = v.there /\ w.size = v.size /\ w.chain = v.chain /\ w.todo = v.todo /\ w.blank = v.blank
  /\ v.free \subseteq w.free

(* An update commits a version that is sound, and that of the program.       *)
LEMMA UpdateEffect ==
  ASSUME NEW d, NEW G \in SUBSET Files, NEW v, Calling(d, G, v),
         v.blank = Nobody, Noting(v), Fits(v)
  PROVE  Calling(d, G, UpdateDisk(v)) /\ Keeps(v, UpdateDisk(v))
<1>1. CASE ~v.dirty
  BY <1>1 DEF UpdateDisk, Keeps
<1>2. CASE v.dirty
  <2>  DEFINE R == v.free \cup Range(v.tbf)
              e == [there |-> v.there, size |-> v.size, chain |-> v.chain, free |-> R,
                    blocksfree |-> v.clean + Len(v.tbf), todo |-> v.todo]
  <2>0. /\ v \in Volume /\ Parted(v.free, v.tbf, v.chain) /\ CountOK(v) /\ Alike(v, G)
        /\ VersionOK(d)
    BY DEF Calling, VolumeOK
  <2>1. /\ Parted(R, <<>>, v.chain) /\ Cardinality(R) = Cardinality(v.free) + Len(v.tbf)
        /\ R \in SUBSET Blocks
    BY <2>0, FlushParts DEF Volume
  <2>2. e \in Stored
    BY <2>0, <2>1 DEF Volume, Stored
  <2>3. VersionOK(e)
    BY <2>0, <2>1, <2>2 DEF VersionOK, CountOK, Fits, Shown, Noting
  <2>4. UpdateDisk(v) = [v EXCEPT !.free = R, !.clean = @ + Len(v.tbf), !.tbf = <<>>,
                                  !.past = Append(@, e), !.dirty = FALSE]
    <3>1. PICK u : u = UpdateFreeList(v)
      OBVIOUS
    <3>2. u = [v EXCEPT !.free = R, !.clean = @ + Len(v.tbf), !.tbf = <<>>]
      BY <3>1 DEF UpdateFreeList
    <3>3. [f \in Files |-> SavedChain(u, f)] = v.chain
      BY <3>2, <2>0, PfsBlocksAssumption DEF SavedChain, Volume
    <3>4. Snapshot(u) = e
      BY <3>2, <3>3, <2>0 DEF Snapshot, Volume
    <3>5. UpdateDisk(v) = [u EXCEPT !.past = Append(@, e), !.dirty = FALSE]
      BY <1>2, <3>1, <3>4 DEF UpdateDisk, Committed
    <3>6. QED
      BY <3>2, <3>5, <2>0 DEF Volume
  <2>  HIDE DEF e, R
  <2>5. PICK w : w = UpdateDisk(v)
    OBVIOUS
  <2>6. /\ w.there = v.there /\ w.size = v.size /\ w.chain = v.chain /\ w.todo = v.todo
        /\ w.blank = v.blank /\ w.free = R /\ w.clean = v.clean + Len(v.tbf) /\ w.tbf = <<>>
        /\ w.past = Append(v.past, e) /\ w.dirty = FALSE /\ w.avail = v.avail
        /\ w \in Volume
    <3>1. v.clean + Len(v.tbf) \in Nat /\ <<>> \in Seq(Blocks) /\ Append(v.past, e) \in Seq(Stored)
      BY <2>0, <2>2, AppendIs DEF Volume
    <3>2. QED
      BY ZenonT(60), <2>0, <2>1, <2>4, <2>5, <3>1 DEF Volume
  <2>7. VolumeOK(w)
    <3>1. Parted(w.free, w.tbf, w.chain)
      BY <2>1, <2>6
    <3>2. v.clean \in Nat /\ Len(v.tbf) \in Nat
      BY <2>0 DEF Volume
    <3>3. w.clean = Cardinality(w.free)
      BY <2>0, <2>1, <2>6 DEF CountOK
    <3>4. Len(w.tbf) = 0
      BY <2>6
    <3>5. w.avail = w.clean + Len(w.tbf)
      BY <2>0, <2>6, <3>2, <3>4 DEF CountOK
    <3>6. QED
      BY <2>6, <3>1, <3>3, <3>5 DEF VolumeOK, CountOK
  <2>8. /\ Len(w.past) = Len(v.past) + 1 /\ Len(v.past) \in Nat /\ w.past[Len(v.past) + 1] = e
        /\ \A i \in 1 .. Len(v.past) : w.past[i] = v.past[i]
    BY <2>0, <2>2, <2>6, AppendIs DEF Volume
  <2>9. e.there = v.there /\ e.size = v.size /\ e.chain = v.chain
    BY DEF e
  <2>10. Alike(w, G)
    BY <2>0, <2>3, <2>6, <2>8, <2>9 DEF Alike
  <2>11. Base(d, w) = e
    BY <2>8, Len(<<>>) = 0 DEF Base
  <2>12. Intact(w, e) /\ Saved(w, e)
    BY <2>6, <2>9 DEF Intact, Saved, SameEntries
  <2>13. QED
    BY <2>0, <2>5, <2>6, <2>7, <2>10, <2>11, <2>12 DEF Calling, Keeps, R
<1>3. QED
  BY <1>1, <1>2
-----------------------------------------------------------------------------
(***************************************************************************)
(* FreeBlocksAC, block by block.  x is the volume after k of n blocks, of    *)
(* the chain of f as it is in v.  A file that is being emptied has a blank  *)
(* anode, and must not be committed.                                        *)
(***************************************************************************)
EmptiedWhole(x, f) == x.blank = f /\ Len(x.tbf) + Len(x.chain[f]) < TbfSize
Freeing(d, G, v, f, n, k, x) ==
  /\ Calling(d, G, x) /\ SameEntries(x, v) /\ x.todo.file = f
  /\ \A g \in Files \ {f} : Shown(v, g) = Len(x.chain[g])
  /\ Shown(v, f) = Left(Len(x.chain[f]), n - k)
  /\ x.blank = Nobody \/ EmptiedWhole(x, f)

LEMMA FreeLastEffect ==
  ASSUME NEW d, NEW G \in SUBSET Files, NEW v, NEW f \in Files, NEW n \in Nat, NEW k \in 1 .. n, NEW x,
         Freeing(d, G, v, f, n, k - 1, x), x.chain[f] # <<>>
  PROVE  Freeing(d, G, v, f, n, k, FreeLast(x, f)) /\ FreeLast(x, f).blank = x.blank
<1>  DEFINE s == x.chain[f]
            b == Last(s)
            t == Append(x.tbf, b)
            c == [x.chain EXCEPT ![f] = Front(@)]
<1>0. /\ x \in Volume /\ Parted(x.free, x.tbf, x.chain) /\ CountOK(x) /\ Alike(x, G)
      /\ VersionOK(d)
  BY DEF Freeing, Calling, VolumeOK
<1>1. Parted(x.free, t, c)
  BY <1>0, FreeLastParts DEF Volume
<1>2. /\ s \in Seq(Blocks) /\ x.chain \in [Files -> Seq(Blocks)] /\ x.tbf \in Seq(Blocks)
      /\ x.avail \in Nat /\ x.clean \in Nat
  BY <1>0 DEF Volume
<1>3. /\ Front(s) \in Seq(Blocks) /\ Len(Front(s)) = Len(s) - 1 /\ Len(s) \in Nat \ {0}
      /\ \A i \in 1 .. (Len(s) - 1) : Front(s)[i] = s[i]
      /\ b = s[Len(s)] /\ b \in Blocks
  BY <1>2, FrontIs
<1>4. /\ c \in [Files -> Seq(Blocks)] /\ Len(c[f]) = Len(s) - 1
      /\ \A i \in 1 .. Len(c[f]) : c[f][i] = s[i]
      /\ \A g \in Files \ {f} : c[g] = x.chain[g]
  BY SMTT(60), <1>2, <1>3
<1>5. /\ t \in Seq(Blocks) /\ Len(t) = Len(x.tbf) + 1 /\ Len(x.tbf) \in Nat
      /\ \A i \in 1 .. Len(x.tbf) : t[i] = x.tbf[i]
      /\ t[Len(x.tbf) + 1] = b
  BY SMTT(60), <1>2, <1>3, AppendIs
<1>6. FreeLast(x, f) = [x EXCEPT !.chain = c, !.tbf = t, !.avail = x.avail + 1]
  BY <1>0 DEF FreeLast, Volume
<1>  HIDE DEF s, b, c, t
<1>  DEFINE y == FreeLast(x, f)
<1>7. /\ y.there = x.there /\ y.size = x.size /\ y.chain = c /\ y.free = x.free /\ y.clean = x.clean
      /\ y.tbf = t /\ y.avail = x.avail + 1 /\ y.todo = x.todo /\ y.blank = x.blank
      /\ y.dirty = x.dirty /\ y.past = x.past
  BY <1>0, <1>6 DEF Volume
<1>8. y \in Volume
  <2>1. x.avail + 1 \in Nat /\ c \in [Files -> Seq(Blocks)] /\ t \in Seq(Blocks)
    BY SMTT(60), <1>2, <1>4, <1>5
  <2>2. QED
    BY ZenonT(60), <1>0, <1>6, <2>1 DEF Volume
<1>  HIDE DEF y
<1>9. VolumeOK(y)
  <2>1. CountOK(y)
    BY SMTT(60), <1>0, <1>5, <1>7, <1>2 DEF CountOK
  <2>2. QED
    BY <1>1, <1>7, <1>8, <2>1 DEF VolumeOK
<1>10. Alike(y, G) /\ Base(d, y) = Base(d, x) /\ Saved(y, Base(d, x))
  BY <1>0, <1>7 DEF Alike, Base, Saved, SameEntries, Freeing, Calling
<1>11. Intact(y, Base(d, x))
  <2>  SUFFICES ASSUME NEW e, Intact(x, e), NEW g \in Files, NEW i \in 1 .. Len(e.chain[g])
                PROVE  \/ \E j \in 1 .. Len(t) : t[j] = e.chain[g][i]
                       \/ i \in 1 .. Len(c[g]) /\ c[g][i] = e.chain[g][i]
    BY SMTT(60), <1>7 DEF Freeing, Calling, Intact
  <2>1. CASE \E j \in 1 .. Len(x.tbf) : x.tbf[j] = e.chain[g][i]
    BY SMTT(60), <1>5, <2>1
  <2>2. CASE i \in 1 .. Len(x.chain[g]) /\ x.chain[g][i] = e.chain[g][i]
    <3>1. CASE g = f /\ i = Len(s)
      <4>1. t[Len(x.tbf) + 1] = e.chain[g][i]
        BY <1>3, <1>5, <2>2, <3>1 DEF s
      <4>2. QED
        BY SMTT(60), <1>5, <4>1
    <3>2. CASE ~(g = f /\ i = Len(s))
      <4>1. i \in 1 .. Len(c[g])
        BY <1>3, <1>4, <2>2, <3>2 DEF s
      <4>2. QED
        BY <1>4, <2>2, <4>1 DEF s
    <3>3. QED
      BY <3>1, <3>2
  <2>3. QED
    BY <2>1, <2>2 DEF Intact
<1>12. Len(y.chain[f]) = Len(x.chain[f]) - 1 /\ Len(x.chain[f]) \in Nat \ {0} /\ Len(y.tbf) = Len(x.tbf) + 1
       /\ Len(x.tbf) \in Nat
  BY <1>3, <1>4, <1>5, <1>7 DEF s
<1>13. Shown(v, f) = Left(Len(y.chain[f]), n - k)
  BY SMTT(60), <1>12 DEF Freeing, Left
<1>14. SameEntries(y, v) /\ y.todo.file = f /\ \A g \in Files \ {f} : Shown(v, g) = Len(y.chain[g])
  BY <1>4, <1>7 DEF Freeing, SameEntries
<1>15. Len(y.tbf) + Len(y.chain[f]) = Len(x.tbf) + Len(x.chain[f])
  <2>1. \A a, e \in Nat : (a + 1) + (e - 1) = a + e
    OBVIOUS
  <2>2. QED
    BY Zenon, <1>12, <2>1
<1>16. QED
  BY <1>0, <1>7, <1>9, <1>10, <1>11, <1>13, <1>14, <1>15 DEF Freeing, Calling, EmptiedWhole, y

(* Entries of files that no version of the call depends on may change.       *)
LEMMA CallingKept ==
  ASSUME NEW d, NEW G \in SUBSET Files, NEW x, Calling(d, G, x),
         NEW z \in Volume, z.dirty, z.free = x.free, z.tbf = x.tbf, z.chain = x.chain,
         z.clean = x.clean, z.avail = x.avail, z.past = x.past,
         \A g \in G : z.there[g] = x.there[g] /\ z.size[g] = x.size[g]
  PROVE  Calling(d, G, z)
<1>1. VolumeOK(z) /\ Alike(z, G)
  BY DEF Calling, VolumeOK, CountOK, Alike
<1>2. Base(d, z) = Base(d, x) /\ Intact(z, Base(d, x)) /\ Saved(z, Base(d, x))
  BY DEF Calling, Base, Intact, Saved
<1>3. QED
  BY <1>1, <1>2 DEF Calling

LEMMA PauseEffect ==
  ASSUME NEW d, NEW G \in SUBSET Files, NEW v, NEW f \in Files, NEW n \in Nat, NEW k \in 0 .. n, NEW x,
         Freeing(d, G, v, f, n, k, x), NEW pressed \in BOOLEAN, x.blank = f => ~pressed
  PROVE  /\ Freeing(d, G, v, f, n, k, Pause(x, f, n - k, pressed))
         /\ Pause(x, f, n - k, pressed).blank = f => x.blank = f
<1>  DEFINE z == [x EXCEPT !.blank = Nobody, !.dirty = TRUE, !.todo = [file |-> f, count |-> n - k]]
<1>0. x \in Volume /\ x.todo.file = f /\ TbfSize \in Nat
  BY PfsBlocksAssumption DEF Freeing, Calling, VolumeOK
<1>01. x.todo \in Task /\ x.tbf \in Seq(Blocks) /\ x.chain[f] \in Seq(Blocks)
  BY <1>0 DEF Volume
<1>02. Len(x.tbf) \in Nat /\ Len(x.chain[f]) \in Nat
  BY <1>01
<1>1. CASE ~(Len(x.tbf) >= TbfSize \/ pressed)
  BY <1>1 DEF Pause
<1>2. CASE Len(x.tbf) >= TbfSize \/ pressed
  <2>1. x.blank = Nobody /\ Nobody # f
    <3>1. x.blank = Nobody \/ EmptiedWhole(x, f)
      BY DEF Freeing
    <3>2. Nobody # f
      BY PfsBlocksAssumption
    <3>3. EmptiedWhole(x, f) => ~(Len(x.tbf) >= TbfSize)
      BY <1>0, <1>02, \A a, b, c \in Nat : a + b < c => ~(a >= c) DEF EmptiedWhole
    <3>4. QED
      BY <1>2, <3>1, <3>2, <3>3, Zenon DEF EmptiedWhole
  <2>2. [RestoreAnodeChain(x, f) EXCEPT !.dirty = TRUE, !.todo.count = n - k] = z
    <3>1. [x.todo EXCEPT !.count = n - k] = [file |-> f, count |-> n - k]
      BY <1>0, <1>01 DEF Task
    <3>2. RestoreAnodeChain(x, f) = [x EXCEPT !.blank = Nobody]
      BY <2>1 DEF RestoreAnodeChain
    <3>3. QED
      BY <1>0, <3>1, <3>2 DEF Volume
  <2>3. z \in Volume
    <3>1. [file |-> f, count |-> n - k] \in Task
      BY DEF Task
    <3>2. QED
      BY <1>0, <3>1 DEF Volume
  <2>4. /\ z.free = x.free /\ z.tbf = x.tbf /\ z.chain = x.chain /\ z.clean = x.clean
        /\ z.avail = x.avail /\ z.past = x.past /\ z.there = x.there /\ z.size = x.size
        /\ z.dirty = TRUE /\ z.blank = Nobody /\ z.todo = [file |-> f, count |-> n - k]
    BY <1>0 DEF Volume
  <2>  HIDE DEF z
  <2>5. Calling(d, G, z)
    BY <2>3, <2>4, CallingKept DEF Freeing
  <2>6. Noting(z) /\ Fits(z)
    BY <2>4 DEF Noting, Fits, Shown, Freeing, SameEntries
  <2>7. Calling(d, G, UpdateDisk(z)) /\ Keeps(z, UpdateDisk(z))
    BY <2>4, <2>5, <2>6, UpdateEffect
  <2>8. Pause(x, f, n - k, pressed) = UpdateDisk(z)
    BY <1>2, <2>2 DEF Pause
  <2>9. QED
    BY <2>1, <2>4, <2>7, <2>8 DEF Freeing, Keeps, SameEntries
<1>3. QED
  BY <1>1, <1>2

LEMMA FreeOneEffect ==
  ASSUME NEW d, NEW G \in SUBSET Files, NEW v, NEW f \in Files, NEW n \in Nat, NEW k \in 1 .. n, NEW x,
         Freeing(d, G, v, f, n, k - 1, x), NEW pressed \in BOOLEAN, x.blank = f => ~pressed
  PROVE  /\ Freeing(d, G, v, f, n, k, FreeOne(x, f, n - k, pressed))
         /\ FreeOne(x, f, n - k, pressed).blank = f => x.blank = f
<1>1. CASE x.chain[f] = <<>>
  <2>1. Left(Len(x.chain[f]), n - k) = Left(Len(x.chain[f]), n - (k - 1))
    BY <1>1, Len(<<>>) = 0 DEF Left
  <2>2. QED
    BY <1>1, <2>1 DEF FreeOne, Freeing
<1>2. CASE x.chain[f] # <<>>
  <2>  DEFINE y == FreeLast(x, f)
  <2>1. Freeing(d, G, v, f, n, k, y) /\ y.blank = x.blank
    BY <1>2, FreeLastEffect
  <2>2. k \in 0 .. n
    OBVIOUS
  <2>  HIDE DEF y
  <2>3. /\ Freeing(d, G, v, f, n, k, Pause(y, f, n - k, pressed))
        /\ Pause(y, f, n - k, pressed).blank = f => y.blank = f
    BY <2>1, <2>2, PauseEffect
  <2>4. QED
    BY <1>2, <2>1, <2>3 DEF FreeOne, y
<1>3. QED
  BY <1>1, <1>2

(* Counting up to n goes through every number.                              *)
LEMMA CountingUp ==
  ASSUME NEW n \in Nat, NEW T, 0 \in T, \A k \in 1 .. n : k - 1 \in T => k \in T
  PROVE  \A k \in 0 .. n : k \in T
<1>  DEFINE D == {k \in 0 .. n : k \notin T}
            Less == {p \in Nat \X Nat : p[1] < p[2]}
<1>  SUFFICES ASSUME D # {} PROVE FALSE
  OBVIOUS
<1>1. IsWellFoundedOn(Less, Nat)
  BY ONLY NatLessThanWellFounded, Zenon DEF OpToRel
<1>2. \E t \in D : \A u \in D : ~(<<u, t>> \in Less)
  <2>1. D \subseteq Nat
    OBVIOUS
  <2> HIDE DEF Less, D
  <2> QED BY <1>1, <2>1, WFMin, Zenon
<1>3. PICK t \in D : \A u \in D : ~(<<u, t>> \in Less)
  BY <1>2
<1>4. t \in 1 .. n
  OBVIOUS
<1>5. t - 1 \in D => <<t - 1, t>> \in Less
  BY <1>4
<1>6. t - 1 \in T
  BY <1>3, <1>4, <1>5
<1>7. QED
  BY <1>4, <1>6

(* The loop of FreeBlocksAC ends, after n blocks.                            *)
LEMMA FreeLoop ==
  ASSUME NEW v, NEW f, NEW n \in Nat, NEW pressed
  PROVE  \E after :
           /\ after[0] = FreeNone(MakeRoom(Noted(v, f, n), f), f, n, 1 \in pressed)
           /\ \A k \in 1 .. n : after[k] = FreeOne(after[k - 1], f, n - k, k \in pressed)
           /\ FreeBlocksAC(v, f, n, pressed) = Finished(after[n], f)
<1>  DEFINE A == FreeNone(MakeRoom(Noted(v, f, n), f), f, n, 1 \in pressed)
            S(x, k) == FreeOne(x, f, n - k, k \in pressed)
            Body(g, m) == [k \in 0 .. m |-> IF k = 0 THEN A ELSE S(g[k - 1], k)]
            T == {m \in 0 .. n : \E g : g = Body(g, m)}
<1>  HIDE DEF A, S
<1>1. 0 \in T
  <2>1. [k \in 0 .. 0 |-> A] = Body([k \in 0 .. 0 |-> A], 0)
    OBVIOUS
  <2>  HIDE DEF Body
  <2>2. QED
    BY <2>1
<1>2. ASSUME NEW m \in 1 .. n, m - 1 \in T PROVE m \in T
  <2>1. PICK g : g = Body(g, m - 1)
    BY <1>2
  <2>  DEFINE h == [k \in 0 .. m |-> IF k = m THEN S(g[m - 1], m) ELSE g[k]]
  <2>2. \A k \in 0 .. (m - 1) : g[k] = IF k = 0 THEN A ELSE S(g[k - 1], k)
    BY <2>1
  <2>3. \A k \in 0 .. m : h[k] = IF k = 0 THEN A ELSE S(h[k - 1], k)
    BY <2>2
  <2>4. h = Body(h, m)
    BY <2>3
  <2>  HIDE DEF Body, h
  <2>5. QED
    BY <2>4
<1>3. \E g : g = Body(g, n)
  <2>1. n \in T
    <3>  HIDE DEF T
    <3>  QED BY <1>1, <1>2, CountingUp
  <2>2. QED
    BY <2>1
<1>  DEFINE after == CHOOSE g : g = Body(g, n)
<1>4. after = Body(after, n)
  BY <1>3
<1>5. FreeBlocksAC(v, f, n, pressed) = Finished(after[n], f)
  BY DEF FreeBlocksAC, A, S
<1>  HIDE DEF after
<1>6. after[0] = A /\ \A k \in 1 .. n : after[k] = S(after[k - 1], k)
  BY <1>4
<1>7. QED
  BY <1>5, <1>6 DEF A, S

\* A call of FreeBlocksAC: what is left is what the entry says.
MayFree(d, G, v, f, n, pressed) ==
  /\ Calling(d, G, v)
  /\ \A g \in Files \ {f} : Shown(v, g) = Len(v.chain[g])
  /\ Shown(v, f) = Left(Len(v.chain[f]), n)
  /\ v.blank = Nobody \/ (EmptiedWhole(v, f) /\ v.chain[f] # <<>> /\ pressed = {} /\ n >= Len(v.chain[f]))

LEMMA FreeRoom ==
  ASSUME NEW d, NEW G \in SUBSET Files, NEW v, NEW f \in Files, NEW n \in Nat, NEW pressed,
         MayFree(d, G, v, f, n, pressed)
  PROVE  /\ Freeing(d, G, v, f, n, 0, MakeRoom(Noted(v, f, n), f))
         /\ MakeRoom(Noted(v, f, n), f).blank = v.blank
<1>  DEFINE y == Noted(v, f, n)
<1>0. v \in Volume /\ Calling(d, G, v) /\ TbfSize \in Nat \ {0, 1} /\ Nobody \notin Files
  BY PfsBlocksAssumption DEF MayFree, Calling, VolumeOK
<1>1. v.tbf \in Seq(Blocks) /\ v.chain[f] \in Seq(Blocks)
  BY <1>0 DEF Volume
<1>2. Len(v.tbf) \in Nat /\ Len(v.chain[f]) \in Nat
  BY <1>1
<1>3. /\ y.free = v.free /\ y.tbf = v.tbf /\ y.chain = v.chain /\ y.clean = v.clean
      /\ y.avail = v.avail /\ y.past = v.past /\ y.there = v.there /\ y.size = v.size
      /\ y.dirty = TRUE /\ y.blank = v.blank /\ y.todo = [file |-> f, count |-> n]
  BY <1>0 DEF Noted, Volume
<1>4. y \in Volume
  <2>1. [file |-> f, count |-> n] \in Task
    BY DEF Task
  <2>2. QED
    BY <1>0, <2>1 DEF Noted, Volume
<1>  HIDE DEF y
<1>5. Calling(d, G, y)
  BY <1>0, <1>3, <1>4, CallingKept
<1>6. Freeing(d, G, v, f, n, 0, y)
  <2>1. n - 0 = n
    OBVIOUS
  <2>2. y.blank = Nobody \/ EmptiedWhole(y, f)
    BY <1>3 DEF MayFree, EmptiedWhole
  <2>3. Shown(v, f) = Left(Len(y.chain[f]), n - 0) /\ \A g \in Files \ {f} : Shown(v, g) = Len(y.chain[g])
    BY <1>3, <2>1 DEF MayFree
  <2>4. SameEntries(y, v) /\ y.todo.file = f
    BY <1>3 DEF SameEntries
  <2>5. QED
    BY <1>5, <2>2, <2>3, <2>4 DEF Freeing
<1>7. CASE ~NearlyFull(y, f)
  BY <1>3, <1>6, <1>7 DEF MakeRoom, y
<1>8. CASE NearlyFull(y, f)
  <2>1. y.blank = Nobody
    <3>1. v.chain[f] # <<>> => ~EmptiedWhole(v, f)
      BY <1>0, <1>2, <1>3, <1>8,
         \A a, b \in Nat, c \in Nat \ {0, 1} : ~((a - 1) + b >= c - 1 /\ b + a < c)
         DEF EmptiedWhole, NearlyFull, Hops
    <3>2. QED
      BY <1>3, <3>1 DEF MayFree
  <2>2. Noting(y) /\ Fits(y)
    BY <1>3 DEF Noting, Fits, Shown, MayFree
  <2>3. Calling(d, G, UpdateDisk(y)) /\ Keeps(y, UpdateDisk(y))
    BY <1>5, <2>1, <2>2, UpdateEffect
  <2>4. Freeing(d, G, v, f, n, 0, UpdateDisk(y)) /\ UpdateDisk(y).blank = v.blank
    BY <1>3, <1>6, <2>1, <2>3 DEF Freeing, Keeps, SameEntries
  <2>5. QED
    BY <1>8, <2>4 DEF MakeRoom, y
<1>9. QED
  BY <1>7, <1>8

LEMMA FreeStarts ==
  ASSUME NEW d, NEW G \in SUBSET Files, NEW v, NEW f \in Files, NEW n \in Nat, NEW pressed,
         MayFree(d, G, v, f, n, pressed)
  PROVE  LET x == FreeNone(MakeRoom(Noted(v, f, n), f), f, n, 1 \in pressed) IN
         Freeing(d, G, v, f, n, 0, x) /\ (x.blank = f => v.blank = f)
<1>  DEFINE y == MakeRoom(Noted(v, f, n), f)
            few == 1 \in pressed
<1>1. Freeing(d, G, v, f, n, 0, y) /\ y.blank = v.blank
  BY FreeRoom
<1>2. v.blank = f => ~few
  BY PfsBlocksAssumption DEF MayFree
<1>3. few \in BOOLEAN /\ 0 \in 0 .. n /\ n - 0 = n
  OBVIOUS
<1>  HIDE DEF y, few
<1>4. CASE y.chain[f] = <<>> /\ n > 0 /\ few
  <2>1. y.blank = f => ~few
    BY <1>1, <1>2
  <2>2. /\ Freeing(d, G, v, f, n, 0, Pause(y, f, n - 0, few))
        /\ Pause(y, f, n - 0, few).blank = f => y.blank = f
    BY ONLY <1>1, <1>3, <2>1, PauseEffect, f \in Files, n \in Nat, G \in SUBSET Files
  <2>3. FreeNone(y, f, n, few) = Pause(y, f, n - 0, few)
    BY <1>3, <1>4, few = TRUE DEF FreeNone
  <2>4. QED
    BY <1>1, <2>2, <2>3 DEF y, few
<1>5. CASE ~(y.chain[f] = <<>> /\ n > 0 /\ few)
  <2>1. FreeNone(y, f, n, few) = y
    BY <1>5 DEF FreeNone
  <2>2. QED
    BY <1>1, <2>1 DEF y, few
<1>6. QED
  BY <1>4, <1>5

LEMMA FreeEnds ==
  ASSUME NEW d, NEW G \in SUBSET Files, NEW v, NEW f \in Files, NEW n \in Nat, NEW pressed,
         MayFree(d, G, v, f, n, pressed), NEW x, Freeing(d, G, v, f, n, n, x),
         x.blank = f => v.blank = f
  PROVE  Calling(d, G, Finished(x, f)) /\ SameEntries(Finished(x, f), v) /\ AtRest(Finished(x, f))
<1>  DEFINE w == Finished(x, f)
            z == [x EXCEPT !.blank = Nobody, !.todo = Nothing, !.dirty = TRUE]
<1>0. /\ x \in Volume /\ Calling(d, G, x) /\ v \in Volume /\ Nobody \notin Files
  BY PfsBlocksAssumption DEF Freeing, MayFree, Calling, VolumeOK
<1>1. x.chain[f] \in Seq(Blocks) /\ v.chain[f] \in Seq(Blocks)
  BY <1>0 DEF Volume
<1>2. Len(x.chain[f]) \in Nat /\ Len(v.chain[f]) \in Nat
  BY <1>1
<1>3. Shown(v, f) = Len(x.chain[f])
  <2>1. Shown(v, f) = Left(Len(x.chain[f]), n - n) /\ n - n = 0
    BY DEF Freeing
  <2>2. QED
    BY <1>2, <2>1 DEF Left
<1>4. ~(x.blank = f /\ Len(x.chain[f]) > 1)
  <2>1. x.blank = f => Left(Len(v.chain[f]), n) = 0
    BY <1>0, <1>2 DEF MayFree, Left
  <2>2. QED
    BY <1>2, <1>3, <2>1 DEF MayFree
<1>5. w = z
  <2>1. RestoreAnodeChain(x, f) = [x EXCEPT !.blank = Nobody]
    BY <1>0, <1>4 DEF RestoreAnodeChain, Volume
  <2>2. QED
    BY <1>0, <2>1 DEF Finished, Volume
<1>6. z \in Volume
  <2>1. Nothing \in Task
    BY DEF Nothing, Task
  <2>2. QED
    BY <1>0, <2>1 DEF Volume
<1>7. /\ z.free = x.free /\ z.tbf = x.tbf /\ z.chain = x.chain /\ z.clean = x.clean
      /\ z.avail = x.avail /\ z.past = x.past /\ z.there = x.there /\ z.size = x.size
      /\ z.dirty = TRUE /\ z.blank = Nobody /\ z.todo = Nothing
  BY <1>0 DEF Volume
<1>  HIDE DEF w, z
<1>8. Calling(d, G, z)
  BY <1>0, <1>6, <1>7, CallingKept
<1>9. SameEntries(z, v)
  BY <1>7 DEF Freeing, SameEntries
<1>10. Fits(z)
  BY <1>0, <1>3, <1>7 DEF Fits, Shown, Freeing, SameEntries, Nothing
<1>11. QED
  BY <1>5, <1>7, <1>8, <1>9, <1>10 DEF AtRest, w

(* FreeBlocksAC keeps all accounts, whatever it commits on its way.          *)
LEMMA FreeBlocksEffect ==
  ASSUME NEW d, NEW G \in SUBSET Files, NEW v, NEW f \in Files, NEW n \in Nat, NEW pressed,
         MayFree(d, G, v, f, n, pressed)
  PROVE  LET w == FreeBlocksAC(v, f, n, pressed) IN
         Calling(d, G, w) /\ SameEntries(w, v) /\ AtRest(w)
<1>1. PICK after :
        /\ after[0] = FreeNone(MakeRoom(Noted(v, f, n), f), f, n, 1 \in pressed)
        /\ \A k \in 1 .. n : after[k] = FreeOne(after[k - 1], f, n - k, k \in pressed)
        /\ FreeBlocksAC(v, f, n, pressed) = Finished(after[n], f)
  BY FreeLoop
<1>  DEFINE OK(k) == Freeing(d, G, v, f, n, k, after[k]) /\ (after[k].blank = f => v.blank = f)
            T == {k \in 0 .. n : OK(k)}
<1>2. OK(0)
  BY <1>1, FreeStarts
<1>3. ASSUME NEW k \in 1 .. n, OK(k - 1) PROVE OK(k)
  <2>1. v.blank = f => pressed = {}
    BY PfsBlocksAssumption DEF MayFree
  <2>  DEFINE few == k \in pressed
              x == after[k - 1]
  <2>2. few \in BOOLEAN /\ (x.blank = f => ~few) /\ Freeing(d, G, v, f, n, k - 1, x)
    BY <1>3, <2>1
  <2>3. after[k] = FreeOne(x, f, n - k, few)
    BY <1>1
  <2>  HIDE DEF few, x
  <2>4. /\ Freeing(d, G, v, f, n, k, FreeOne(x, f, n - k, few))
        /\ FreeOne(x, f, n - k, few).blank = f => x.blank = f
    BY <2>2, FreeOneEffect
  <2>5. x.blank = f => v.blank = f
    BY <1>3 DEF x
  <2>6. QED
    BY <2>3, <2>4, <2>5
<1>4. OK(n)
  <2>  HIDE DEF OK
  <2>1. 0 \in T /\ \A k \in 1 .. n : k - 1 \in T => k \in T
    BY <1>2, <1>3
  <2>2. n \in T
    <3>  HIDE DEF T
    <3>  QED BY <2>1, CountingUp
  <2>3. QED
    BY <2>2
<1>5. QED
  BY <1>1, <1>4, FreeEnds
-----------------------------------------------------------------------------
(***************************************************************************)
(* AllocateBlocksAC, block by block.                                        *)
(***************************************************************************)
Grown(v, x, f, k) == x.there = v.there /\ x.size = [v.size EXCEPT ![f] = @ + k]
Taking(d, G, v, f, bs, k, x) ==
  /\ Calling(d, G, x) /\ AtRest(x) /\ Grown(v, x, f, k)
  /\ \A j \in (k + 1) .. Len(bs) : bs[j] \in x.free

\* What taking the block b does to the volume x.
Took(d, G, x, f, b, y) ==
  /\ Calling(d, G, y) /\ AtRest(y) /\ x.free \ {b} \subseteq y.free
  /\ Grown(x, y, f, 1)

LEMMA TakeBlockEffect ==
  ASSUME NEW d, NEW G \in SUBSET Files, NEW f \in Files \ G, NEW x, Calling(d, G, x), AtRest(x),
         x.there[f], NEW b \in x.free
  PROVE  Took(d, G, x, f, b, TakeBlock(x, f, b))
<1>  DEFINE s == x.chain[f]
            a == Append(s, b)
            c == [x.chain EXCEPT ![f] = a]
            sz == [x.size EXCEPT ![f] = @ + 1]
            y == TakeBlock(x, f, b)
<1>0. /\ x \in Volume /\ Parted(x.free, x.tbf, x.chain) /\ CountOK(x) /\ Alike(x, G)
      /\ VersionOK(d)
  BY DEF Calling, VolumeOK
<1>1. /\ s \in Seq(Blocks) /\ x.chain \in [Files -> Seq(Blocks)] /\ x.tbf \in Seq(Blocks)
      /\ x.size \in [Files -> Nat] /\ x.free \in SUBSET Blocks
      /\ x.clean \in Nat /\ x.avail \in Nat
  BY <1>0 DEF Volume
<1>2. /\ a \in Seq(Blocks) /\ Len(a) = Len(s) + 1 /\ Len(s) \in Nat
      /\ \A i \in 1 .. Len(s) : a[i] = s[i]
  BY <1>1, AppendIs
<1>3. /\ c \in [Files -> Seq(Blocks)] /\ c[f] = a /\ \A g \in Files \ {f} : c[g] = x.chain[g]
  BY SMTT(60), <1>1, <1>2
<1>4. Parted(x.free \ {b}, x.tbf, c)
  BY <1>0, <1>1, TakeParts
<1>5. /\ Cardinality(x.free \ {b}) = x.clean - 1 /\ x.clean - 1 \in Nat
      /\ x.avail - 1 = (x.clean - 1) + Len(x.tbf) /\ x.avail - 1 \in Nat
  <2>1. IsFiniteSet(x.free) /\ IsFiniteSet(x.free \ {b})
    BY <1>1, FS_Subset, FS_RemoveElement, PfsBlocksAssumption
  <2>2. Cardinality(x.free \ {b}) = Cardinality(x.free) - 1 /\ Cardinality(x.free \ {b}) \in Nat
    BY <2>1, FS_RemoveElement, FS_CardinalityType
  <2>3. Len(x.tbf) \in Nat
    BY <1>1
  <2>4. QED
    BY SMTT(60), <1>0, <1>1, <2>2, <2>3 DEF CountOK
<1>6. sz \in [Files -> Nat] /\ sz[f] = x.size[f] + 1 /\ \A g \in Files \ {f} : sz[g] = x.size[g]
  BY <1>1
<1>7. y = [x EXCEPT !.free = x.free \ {b}, !.chain = c, !.size = sz, !.clean = x.clean - 1,
                    !.avail = x.avail - 1, !.dirty = TRUE]
  BY <1>0 DEF TakeBlock, Volume
<1>  HIDE DEF s, a, c, sz, y
<1>8. /\ y.there = x.there /\ y.size = sz /\ y.chain = c /\ y.free = x.free \ {b} /\ y.clean = x.clean - 1
      /\ y.tbf = x.tbf /\ y.avail = x.avail - 1 /\ y.todo = x.todo /\ y.blank = x.blank
      /\ y.dirty = TRUE /\ y.past = x.past
  BY <1>0, <1>7 DEF Volume
<1>9. y \in Volume
  <2>1. x.free \ {b} \in SUBSET Blocks
    BY <1>1
  <2>2. QED
    BY <1>0, <1>3, <1>5, <1>6, <1>7, <2>1 DEF Volume
<1>10. VolumeOK(y)
  BY <1>4, <1>5, <1>8, <1>9 DEF VolumeOK, CountOK
<1>11. Alike(y, G) /\ Base(d, y) = Base(d, x) /\ Saved(y, Base(d, x))
  BY <1>0, <1>6, <1>8 DEF Alike, Base, Saved
<1>12. Intact(y, Base(d, x))
  <2>  SUFFICES ASSUME NEW e, Intact(x, e), NEW g \in Files, NEW i \in 1 .. Len(e.chain[g])
                PROVE  \/ \E j \in 1 .. Len(x.tbf) : x.tbf[j] = e.chain[g][i]
                       \/ i \in 1 .. Len(c[g]) /\ c[g][i] = e.chain[g][i]
    BY SMTT(60), <1>8 DEF Calling, Intact
  <2>1. CASE i \in 1 .. Len(x.chain[g]) /\ x.chain[g][i] = e.chain[g][i]
    <3>1. CASE g = f
      BY <1>2, <1>3, <2>1, <3>1 DEF s
    <3>2. CASE g # f
      BY <1>3, <2>1, <3>2
    <3>3. QED
      BY <3>1, <3>2
  <2>2. QED
    BY <2>1 DEF Intact
<1>13. AtRest(y)
  <2>1. x.todo = Nothing /\ Nobody \notin Files
    BY PfsBlocksAssumption DEF AtRest
  <2>2. \A g \in Files : Shown(x, g) = Len(x.chain[g])
    BY <2>1 DEF AtRest, Fits, Nothing
  <2>3. \A g \in Files \ {f} : Shown(y, g) = Len(y.chain[g])
    BY <1>3, <1>6, <1>8, <2>2 DEF Shown
  <2>4. Shown(y, f) = Len(y.chain[f])
    <3>1. x.size[f] = Len(s)
      BY <2>2 DEF Shown, s
    <3>2. QED
      BY <1>2, <1>3, <1>6, <1>8, <3>1 DEF Shown
  <2>5. QED
    BY <1>8, <2>1, <2>3, <2>4 DEF AtRest, Fits, Nothing
<1>14. QED
  BY <1>0, <1>8, <1>10, <1>11, <1>12, <1>13 DEF Calling, Took, Grown, sz, y

LEMMA TakeOneEffect ==
  ASSUME NEW d, NEW G \in SUBSET Files, NEW f \in Files \ G, NEW x, Calling(d, G, x), AtRest(x),
         x.there[f], NEW b \in x.free, NEW pressed \in BOOLEAN
  PROVE  Took(d, G, x, f, b, TakeOne(x, f, b, pressed))
<1>  DEFINE y == TakeBlock(x, f, b)
<1>1. Took(d, G, x, f, b, y)
  BY TakeBlockEffect
<1>  HIDE DEF y
<1>2. CASE ~pressed
  BY <1>1, <1>2 DEF TakeOne, y
<1>3. CASE pressed
  <2>1. y.blank = Nobody /\ Noting(y) /\ Fits(y)
    BY <1>1 DEF AtRest, Noting, Took
  <2>2. Calling(d, G, UpdateDisk(y)) /\ Keeps(y, UpdateDisk(y))
    BY <1>1, <2>1, UpdateEffect DEF Took
  <2>3. AtRest(UpdateDisk(y))
    BY <1>1, <2>2 DEF Took, AtRest, Keeps, Fits, Shown
  <2>4. TakeOne(x, f, b, pressed) = UpdateDisk(y)
    BY <1>3 DEF TakeOne, y
  <2>5. QED
    BY <1>1, <2>2, <2>3, <2>4 DEF Keeps, Took, Grown
<1>4. QED
  BY <1>2, <1>3

(* The loop of AllocateBlocksAC ends as well.                                *)
LEMMA TakeLoop ==
  ASSUME NEW v, NEW f, NEW bs, Len(bs) \in Nat, NEW pressed
  PROVE  \E after :
           /\ after[0] = v
           /\ \A k \in 1 .. Len(bs) : after[k] = TakeOne(after[k - 1], f, bs[k], k \in pressed)
           /\ AllocateBlocksAC(v, f, bs, pressed) = after[Len(bs)]
<1>  DEFINE n == Len(bs)
            S(x, k) == TakeOne(x, f, bs[k], k \in pressed)
            Body(g, m) == [k \in 0 .. m |-> IF k = 0 THEN v ELSE S(g[k - 1], k)]
            T == {m \in 0 .. n : \E g : g = Body(g, m)}
<1>0. n \in Nat
  OBVIOUS
<1>  HIDE DEF n, S
<1>1. 0 \in T
  <2>1. [k \in 0 .. 0 |-> v] = Body([k \in 0 .. 0 |-> v], 0)
    OBVIOUS
  <2>  HIDE DEF Body
  <2>2. QED
    BY <1>0, <2>1
<1>2. ASSUME NEW m \in 1 .. n, m - 1 \in T PROVE m \in T
  <2>1. PICK g : g = Body(g, m - 1)
    BY <1>2
  <2>  DEFINE h == [k \in 0 .. m |-> IF k = m THEN S(g[m - 1], m) ELSE g[k]]
  <2>2. \A k \in 0 .. (m - 1) : g[k] = IF k = 0 THEN v ELSE S(g[k - 1], k)
    BY <1>0, <2>1
  <2>3. \A k \in 0 .. m : h[k] = IF k = 0 THEN v ELSE S(h[k - 1], k)
    BY <1>0, <2>2
  <2>4. h = Body(h, m)
    BY <1>0, <2>3
  <2>  HIDE DEF Body, h
  <2>5. QED
    BY <1>0, <2>4
<1>3. \E g : g = Body(g, n)
  <2>1. n \in T
    <3>  HIDE DEF T
    <3>  QED BY SMTT(60), <1>0, <1>1, <1>2, CountingUp
  <2>2. QED
    BY <2>1
<1>  DEFINE after == CHOOSE g : g = Body(g, n)
<1>4. after = Body(after, n)
  BY <1>3
<1>5. AllocateBlocksAC(v, f, bs, pressed) = after[n]
  BY DEF AllocateBlocksAC, S, n
<1>  HIDE DEF after
<1>6. after[0] = v /\ \A k \in 1 .. n : after[k] = S(after[k - 1], k)
  BY <1>0, <1>4
<1>7. QED
  BY <1>5, <1>6 DEF S, n

(* AllocateBlocksAC takes blocks that are free, and the file grows by them.  *)
LEMMA AllocateEffect ==
  ASSUME NEW d, NEW G \in SUBSET Files, NEW f \in Files \ G, NEW v, Calling(d, G, v), AtRest(v),
         v.there[f], NEW n \in Nat, NEW bs \in [1 .. n -> v.free], IsInjective(bs), NEW pressed
  PROVE  LET w == AllocateBlocksAC(v, f, bs, pressed) IN
         Calling(d, G, w) /\ AtRest(w) /\ Grown(v, w, f, n)
<1>0. Len(bs) = n
  OBVIOUS
<1>1. PICK after :
        /\ after[0] = v
        /\ \A k \in 1 .. Len(bs) : after[k] = TakeOne(after[k - 1], f, bs[k], k \in pressed)
        /\ AllocateBlocksAC(v, f, bs, pressed) = after[Len(bs)]
  <2>1. Len(bs) \in Nat
    BY <1>0
  <2>2. QED
    BY SMTT(60), <2>1, TakeLoop
<1>  DEFINE OK(k) == Taking(d, G, v, f, bs, k, after[k])
            T == {k \in 0 .. n : OK(k)}
<1>2. v.size \in [Files -> Nat]
  BY DEF Calling, VolumeOK, Volume
<1>3. OK(0)
  <2>1. [v.size EXCEPT ![f] = @ + 0] = v.size
    BY SMTT(60), <1>2
  <2>2. \A j \in (0 + 1) .. Len(bs) : bs[j] \in v.free
    BY <1>0
  <2>3. QED
    BY <1>1, <2>1, <2>2 DEF Taking, Grown
<1>4. ASSUME NEW k \in 1 .. n, OK(k - 1) PROVE OK(k)
  <2>  DEFINE few == k \in pressed
              x == after[k - 1]
              b == bs[k]
  <2>1. few \in BOOLEAN /\ after[k] = TakeOne(x, f, b, few)
    BY <1>0, <1>1
  <2>2. /\ Calling(d, G, x) /\ AtRest(x) /\ x.there[f] /\ x.there = v.there
        /\ x.size = [v.size EXCEPT ![f] = @ + (k - 1)]
    BY <1>4 DEF Taking, Grown
  <2>3. b \in x.free /\ \A j \in (k + 1) .. n : bs[j] \in x.free \ {b}
    BY <1>0, <1>4 DEF Taking, IsInjective
  <2>  HIDE DEF few, x, b
  <2>  DEFINE y == TakeOne(x, f, b, few)
  <2>4. Took(d, G, x, f, b, y)
    BY <2>1, <2>2, <2>3, TakeOneEffect
  <2>  HIDE DEF y
  <2>5. y.size = [v.size EXCEPT ![f] = @ + k]
    BY <1>2, <2>2, <2>4 DEF Took, Grown
  <2>6. Taking(d, G, v, f, bs, k, y)
    BY <1>0, <2>2, <2>3, <2>4, <2>5 DEF Taking, Took, Grown
  <2>7. QED
    BY <2>1, <2>6 DEF y
<1>5. OK(n)
  <2>  HIDE DEF OK
  <2>1. 0 \in T /\ \A k \in 1 .. n : k - 1 \in T => k \in T
    BY <1>3, <1>4
  <2>2. \A k \in 0 .. n : k \in T
    <3>  HIDE DEF T
    <3>  QED BY <2>1, CountingUp, Zenon
  <2>3. QED
    BY <2>2
<1>6. QED
  BY <1>0, <1>1, <1>5 DEF Taking
-----------------------------------------------------------------------------
(***************************************************************************)
(* The calls: what they change before blocks move, and how they end.        *)
(***************************************************************************)
OthersSame(v, w, f) == \A g \in Files \ {f} : v.there[g] = w.there[g] /\ v.size[g] = w.size[g]

LEMMA FewerFiles ==
  ASSUME NEW d, NEW G, NEW H \in SUBSET G, NEW v, Calling(d, G, v)
  PROVE  Calling(d, H, v)
  BY DEF Calling, Alike

\* No file has more blocks than there are.
LEMMA ChainBounded ==
  ASSUME NEW v, VolumeOK(v), NEW f \in Files
  PROVE  /\ Len(v.chain[f]) \in Nat /\ All \in Nat /\ Len(v.chain[f]) < All
<1>  DEFINE s == v.chain[f]
            I == 1 .. Len(s)
<1>1. s \in Seq(Blocks) /\ IsFiniteSet(Blocks) /\ Cardinality(Blocks) \in Nat
  BY PfsBlocksAssumption, FS_CardinalityType DEF VolumeOK, Volume
<1>2. \A i, j \in I : s[i] = s[j] => i = j
  BY DEF VolumeOK, Parted
<1>3. s \in Injection(I, Blocks) /\ Len(s) \in Nat
  BY SMTT(60), <1>1, <1>2 DEF Injection, IsInjective
<1>4. Cardinality(I) = Len(s)
  BY <1>3, FS_Interval, 1 \in Int, Len(s) \in Int
<1>5. Cardinality(I) <= Cardinality(Blocks)
  <2>  HIDE DEF I, s
  <2>  QED BY <1>1, <1>3, FS_Injection
<1>6. QED
  BY <1>1, <1>3, <1>4, <1>5 DEF All

LEMMA EntryChanged ==
  ASSUME NEW d, NEW f \in Files, NEW x, Calling(d, Files \ {f}, x), AtRest(x),
         NEW z \in Volume, z.dirty, z.free = x.free, z.tbf = x.tbf, z.chain = x.chain,
         z.clean = x.clean, z.avail = x.avail, z.past = x.past, OthersSame(z, x, f)
  PROVE  Calling(d, Files \ {f}, z) /\ \A g \in Files \ {f} : Shown(z, g) = Len(z.chain[g])
<1>1. Calling(d, Files \ {f}, z)
  BY CallingKept DEF OthersSame
<1>2. \A g \in Files : Shown(x, g) = Len(x.chain[g])
  BY PfsBlocksAssumption DEF AtRest, Fits, Nothing
<1>3. QED
  BY <1>1, <1>2 DEF OthersSame, Shown

LEMMA EndsEffect ==
  ASSUME NEW G \in SUBSET Files, NEW w, Calling(disk, G, w), AtRest(w), Ends(w)
  PROVE  /\ VersionOK(disk') /\ Calling(disk', Files, vol') /\ AtRest(vol') /\ vol'.past = <<>>
         /\ SameEntries(vol', w)
         /\ \A g \in G : \/ disk' = disk
                         \/ disk'.there[g] = w.there[g] /\ disk'.size[g] = w.size[g]
<1>0. w \in Volume /\ VolumeOK(w) /\ Alike(w, G) /\ VersionOK(disk)
  BY DEF Calling, VolumeOK
<1>1. disk' = Base(disk, w)
  BY DEF Ends, Base, Last
<1>2. w.past \in Seq(Stored)
  BY <1>0 DEF Volume
<1>3. w.past # <<>> => Len(w.past) \in 1 .. Len(w.past)
  BY <1>2
<1>4. /\ VersionOK(disk')
      /\ \A g \in G : \/ disk' = disk
                      \/ disk'.there[g] = w.there[g] /\ disk'.size[g] = w.size[g]
  BY <1>0, <1>1, <1>3 DEF Base, Alike
<1>5. /\ vol'.there = w.there /\ vol'.size = w.size /\ vol'.chain = w.chain /\ vol'.free = w.free
      /\ vol'.tbf = w.tbf /\ vol'.clean = w.clean /\ vol'.avail = w.avail /\ vol'.todo = w.todo
      /\ vol'.blank = w.blank /\ vol'.dirty = w.dirty /\ vol'.past = <<>>
  BY <1>0 DEF Ends, Volume
<1>6. vol' \in Volume
  <2>1. <<>> \in Seq(Stored)
    OBVIOUS
  <2>2. QED
    BY <1>0, <2>1 DEF Ends, Volume
<1>7. VolumeOK(vol')
  BY <1>0, <1>5, <1>6 DEF VolumeOK, CountOK
<1>8. Alike(vol', Files) /\ Base(disk', vol') = disk'
  BY <1>5, Len(<<>>) = 0 DEF Alike, Base
<1>9. Intact(vol', disk') /\ Saved(vol', disk')
  BY <1>1, <1>5 DEF Calling, Intact, Saved, SameEntries
<1>10. AtRest(vol') /\ SameEntries(vol', w)
  BY <1>5 DEF AtRest, Fits, Shown, SameEntries
<1>11. QED
  BY <1>4, <1>5, <1>7, <1>8, <1>9, <1>10 DEF Calling

LEMMA DiesEffect ==
  ASSUME NEW G \in SUBSET Files, NEW w, Calling(disk, G, w), DiesIn(w)
  PROVE  /\ VersionOK(disk') /\ vol' = Down
         /\ \A g \in G : disk'.there[g] = w.there[g] /\ disk'.size[g] = w.size[g]
<1>1. w.past \in Seq(Stored)
  BY DEF Calling, VolumeOK, Volume
<1>2. PICK i \in 1 .. Len(w.past) : disk' = w.past[i] /\ vol' = Down
  BY <1>1 DEF DiesIn
<1>3. QED
  BY <1>2 DEF Calling, Alike

(* A call that keeps the accounts and the entries of other files keeps the   *)
(* invariant, whether it runs to its end or the program dies in it.         *)
LEMMA RunsEffect ==
  ASSUME BlocksInv, Up, NEW f \in Files, NEW w, Calling(disk, Files \ {f}, w), AtRest(w),
         OthersSame(w, vol, f), Runs(w, f)
  PROVE  BlocksInv'
<1>1. settled' = [settled EXCEPT ![f] = Nobody] /\ (Ends(w) \/ DiesIn(w))
  BY DEF Runs
<1>2. settled' \in [Files -> Nat \cup {Nobody}] /\ settled'[f] = Nobody
      /\ \A g \in Files \ {f} : settled'[g] = settled[g]
  BY <1>1 DEF BlocksInv
<1>3. \A g \in Files \ {f} : settled[g] # Nobody =>
        SizesOf(disk)[g] = settled[g] /\ SizesOf(w)[g] = settled[g]
  BY DEF BlocksInv, SettledOK, SizesOf, OthersSame
<1>4. CASE Ends(w)
  <2>1. /\ VersionOK(disk') /\ Calling(disk', Files, vol') /\ AtRest(vol') /\ vol'.past = <<>>
        /\ SameEntries(vol', w)
        /\ \A g \in Files \ {f} : \/ disk' = disk
                                  \/ disk'.there[g] = w.there[g] /\ disk'.size[g] = w.size[g]
    BY SMTT(60), <1>4, EndsEffect
  <2>2. \A g \in Files \ {f} : settled[g] # Nobody =>
          SizesOf(disk')[g] = settled[g] /\ SizesOf(vol')[g] = settled[g]
    BY <1>3, <2>1 DEF SizesOf, SameEntries
  <2>3. SettledOK'
    BY <1>2, <2>2 DEF SettledOK, SizesOf
  <2>4. QED
    BY <1>2, <2>1, <2>3 DEF BlocksInv
<1>5. CASE DiesIn(w)
  <2>1. /\ VersionOK(disk') /\ vol' = Down
        /\ \A g \in Files \ {f} : disk'.there[g] = w.there[g] /\ disk'.size[g] = w.size[g]
    BY <1>5, DiesEffect
  <2>2. \A g \in Files \ {f} : settled[g] # Nobody => SizesOf(disk')[g] = settled[g]
    BY <1>3, <2>1 DEF SizesOf
  <2>3. SettledOK'
    BY <1>2, <2>1, <2>2 DEF SettledOK, SizesOf, Up
  <2>4. QED
    BY <1>2, <2>1, <2>3 DEF BlocksInv, Up
<1>6. QED
  BY <1>1, <1>4, <1>5

\* The library's data between two calls, as one about f finds it.
LEMMA BetweenCalls ==
  ASSUME BlocksInv, Up, NEW f \in Files
  PROVE  /\ Calling(disk, Files, vol) /\ Calling(disk, Files \ {f}, vol) /\ AtRest(vol) /\ vol \in Volume
         /\ \A g \in Files : Shown(vol, g) = Len(vol.chain[g])
         /\ Len(vol.chain[f]) \in Nat /\ All \in Nat /\ Len(vol.chain[f]) < All
         /\ vol.size \in [Files -> Nat] /\ vol.there \in [Files -> BOOLEAN]
         /\ vol.todo = Nothing /\ vol.blank = Nobody /\ Nobody # f
<1>1. Calling(disk, Files, vol) /\ AtRest(vol)
  BY DEF BlocksInv
<1>2. vol \in Volume /\ VolumeOK(vol)
  BY <1>1 DEF Calling, VolumeOK
<1>3. Calling(disk, Files \ {f}, vol)
  BY <1>1, FewerFiles
<1>4. \A g \in Files : Shown(vol, g) = Len(vol.chain[g])
  BY <1>1, PfsBlocksAssumption DEF AtRest, Fits, Nothing
<1>5. vol.size \in [Files -> Nat] /\ vol.there \in [Files -> BOOLEAN]
  BY <1>2 DEF Volume
<1>6. QED
  BY <1>1, <1>2, <1>3, <1>4, <1>5, ChainBounded, PfsBlocksAssumption DEF AtRest

LEMMA CreateStep ==
  ASSUME BlocksInv, NEW f \in Files, CreateFile(f)
  PROVE  BlocksInv'
<1>  DEFINE z == [vol EXCEPT !.there[f] = TRUE, !.size[f] = 0, !.dirty = TRUE]
<1>0. Up /\ ~vol.there[f] /\ Runs(z, f)
  BY DEF CreateFile
<1>1. /\ Calling(disk, Files \ {f}, vol) /\ AtRest(vol) /\ vol \in Volume
      /\ Shown(vol, f) = Len(vol.chain[f])
      /\ vol.size \in [Files -> Nat] /\ vol.there \in [Files -> BOOLEAN]
      /\ vol.todo = Nothing /\ vol.blank = Nobody /\ Nobody # f
  BY <1>0, BetweenCalls
<1>2. /\ z.there = [vol.there EXCEPT ![f] = TRUE] /\ z.size = [vol.size EXCEPT ![f] = 0] /\ z.dirty = TRUE
      /\ z.free = vol.free /\ z.tbf = vol.tbf /\ z.chain = vol.chain /\ z.clean = vol.clean
      /\ z.avail = vol.avail /\ z.past = vol.past /\ z.todo = vol.todo /\ z.blank = vol.blank
  BY <1>1 DEF Volume
<1>3. z \in Volume
  BY <1>1 DEF Volume
<1>  HIDE DEF z
<1>4. OthersSame(z, vol, f) /\ Shown(z, f) = Len(z.chain[f])
  BY <1>0, <1>1, <1>2 DEF OthersSame, Shown
<1>5. Calling(disk, Files \ {f}, z) /\ \A g \in Files \ {f} : Shown(z, g) = Len(z.chain[g])
  BY <1>1, <1>2, <1>3, <1>4, EntryChanged
<1>6. AtRest(z)
  BY <1>1, <1>2, <1>4, <1>5, PfsBlocksAssumption DEF AtRest, Fits, Nothing
<1>7. QED
  BY <1>0, <1>4, <1>5, <1>6, RunsEffect

(* What ends in FreeBlocksAC, after a change of the entry.                   *)
LEMMA FreeingStep ==
  ASSUME BlocksInv, Up, NEW f \in Files, NEW n \in Nat, NEW pressed,
         NEW z, MayFree(disk, Files \ {f}, z, f, n, pressed), OthersSame(z, vol, f),
         Runs(FreeBlocksAC(z, f, n, pressed), f)
  PROVE  BlocksInv'
<1>  DEFINE w == FreeBlocksAC(z, f, n, pressed)
<1>1. Calling(disk, Files \ {f}, w) /\ SameEntries(w, z) /\ AtRest(w)
  BY FreeBlocksEffect
<1>  HIDE DEF w
<1>2. OthersSame(w, vol, f)
  BY <1>1 DEF OthersSame, SameEntries
<1>3. QED
  BY <1>1, <1>2, RunsEffect DEF w

LEMMA OverwriteStep ==
  ASSUME Careful, BlocksInv, NEW f \in Files, NEW pressed, OverwriteFile(f, pressed)
  PROVE  BlocksInv'
<1>  DEFINE z == Emptied(vol, f)
<1>0. /\ Up /\ vol.there[f] /\ Runs(FreeBlocksAC(z, f, All, pressed), f)
      /\ vol.chain[f] # <<>> => pressed = {} /\ Len(vol.tbf) + Len(vol.chain[f]) < TbfSize
  BY DEF OverwriteFile, Careful
<1>1. /\ Calling(disk, Files \ {f}, vol) /\ AtRest(vol) /\ vol \in Volume
      /\ Len(vol.chain[f]) \in Nat /\ All \in Nat /\ Len(vol.chain[f]) < All
      /\ vol.size \in [Files -> Nat]
  BY <1>0, BetweenCalls
<1>2. /\ z.there = vol.there /\ z.size = [vol.size EXCEPT ![f] = 0] /\ z.dirty = TRUE
      /\ z.free = vol.free /\ z.tbf = vol.tbf /\ z.chain = vol.chain /\ z.clean = vol.clean
      /\ z.avail = vol.avail /\ z.past = vol.past /\ z.todo = vol.todo
      /\ z.blank = IF vol.chain[f] = <<>> THEN Nobody ELSE f
  BY <1>1 DEF Emptied, Volume
<1>3. z \in Volume
  BY <1>1 DEF Emptied, Volume
<1>  HIDE DEF z
<1>4. OthersSame(z, vol, f) /\ Shown(z, f) = Left(Len(z.chain[f]), All)
  BY <1>1, <1>2 DEF OthersSame, Shown, Left
<1>5. Calling(disk, Files \ {f}, z) /\ \A g \in Files \ {f} : Shown(z, g) = Len(z.chain[g])
  BY <1>1, <1>2, <1>3, <1>4, EntryChanged
<1>6. z.blank = Nobody \/ (EmptiedWhole(z, f) /\ z.chain[f] # <<>> /\ pressed = {} /\ All >= Len(z.chain[f]))
  <2>1. All >= Len(z.chain[f]) /\ (vol.chain[f] # <<>> => Len(z.tbf) + Len(z.chain[f]) < TbfSize)
    BY <1>0, <1>1, <1>2, \A a, b \in Nat : a < b => b >= a
  <2>2. QED
    BY <1>0, <1>2, <2>1 DEF EmptiedWhole
<1>7. MayFree(disk, Files \ {f}, z, f, All, pressed)
  BY <1>4, <1>5, <1>6 DEF MayFree
<1>8. QED
  BY <1>0, <1>1, <1>4, <1>7, FreeingStep

LEMMA ShrinkStep ==
  ASSUME BlocksInv, NEW f \in Files, NEW n \in Nat, NEW pressed, ShrinkFile(f, n, pressed)
  PROVE  BlocksInv'
<1>  DEFINE z == [vol EXCEPT !.size[f] = @ - n, !.dirty = TRUE]
<1>0. Up /\ vol.there[f] /\ n \in 1 .. vol.size[f] /\ Runs(FreeBlocksAC(z, f, n, pressed), f)
  BY DEF ShrinkFile
<1>1. /\ Calling(disk, Files \ {f}, vol) /\ AtRest(vol) /\ vol \in Volume
      /\ Shown(vol, f) = Len(vol.chain[f]) /\ Len(vol.chain[f]) \in Nat
      /\ vol.size \in [Files -> Nat] /\ vol.blank = Nobody
  BY <1>0, BetweenCalls
<1>2. /\ z.there = vol.there /\ z.size = [vol.size EXCEPT ![f] = @ - n] /\ z.dirty = TRUE
      /\ z.free = vol.free /\ z.tbf = vol.tbf /\ z.chain = vol.chain /\ z.clean = vol.clean
      /\ z.avail = vol.avail /\ z.past = vol.past /\ z.todo = vol.todo /\ z.blank = vol.blank
  BY <1>1 DEF Volume
<1>3. z \in Volume
  <2>1. vol.size[f] - n \in Nat
    BY <1>0, <1>1
  <2>2. QED
    BY <1>1, <2>1 DEF Volume
<1>  HIDE DEF z
<1>4. OthersSame(z, vol, f) /\ Shown(z, f) = Left(Len(z.chain[f]), n)
  BY <1>0, <1>1, <1>2 DEF OthersSame, Shown, Left
<1>5. Calling(disk, Files \ {f}, z) /\ \A g \in Files \ {f} : Shown(z, g) = Len(z.chain[g])
  BY SMTT(60), <1>1, <1>2, <1>3, <1>4, EntryChanged
<1>6. MayFree(disk, Files \ {f}, z, f, n, pressed)
  BY <1>1, <1>2, <1>4, <1>5 DEF MayFree
<1>7. QED
  BY <1>0, <1>4, <1>6, FreeingStep

LEMMA DeleteStep ==
  ASSUME BlocksInv, NEW f \in Files, NEW pressed, DeleteFile(f, pressed)
  PROVE  BlocksInv'
<1>  DEFINE z == [vol EXCEPT !.there[f] = FALSE, !.size[f] = 0, !.dirty = TRUE]
<1>0. Up /\ Runs(FreeBlocksAC(z, f, All, pressed), f)
  BY DEF DeleteFile
<1>1. /\ Calling(disk, Files \ {f}, vol) /\ AtRest(vol) /\ vol \in Volume
      /\ Len(vol.chain[f]) \in Nat /\ All \in Nat /\ Len(vol.chain[f]) < All
      /\ vol.size \in [Files -> Nat] /\ vol.there \in [Files -> BOOLEAN] /\ vol.blank = Nobody
  BY <1>0, BetweenCalls
<1>2. /\ z.there = [vol.there EXCEPT ![f] = FALSE] /\ z.size = [vol.size EXCEPT ![f] = 0] /\ z.dirty = TRUE
      /\ z.free = vol.free /\ z.tbf = vol.tbf /\ z.chain = vol.chain /\ z.clean = vol.clean
      /\ z.avail = vol.avail /\ z.past = vol.past /\ z.todo = vol.todo /\ z.blank = vol.blank
  BY <1>1 DEF Volume
<1>3. z \in Volume
  BY <1>1 DEF Volume
<1>  HIDE DEF z
<1>4. OthersSame(z, vol, f) /\ Shown(z, f) = Left(Len(z.chain[f]), All)
  BY <1>1, <1>2 DEF OthersSame, Shown, Left
<1>5. Calling(disk, Files \ {f}, z) /\ \A g \in Files \ {f} : Shown(z, g) = Len(z.chain[g])
  BY <1>1, <1>2, <1>3, <1>4, EntryChanged
<1>6. MayFree(disk, Files \ {f}, z, f, All, pressed)
  BY <1>1, <1>2, <1>4, <1>5 DEF MayFree
<1>7. QED
  BY <1>0, <1>1, <1>4, <1>6, FreeingStep

LEMMA GrowStep ==
  ASSUME BlocksInv, NEW f \in Files, NEW n \in Nat, NEW pressed, NEW fails \in BOOLEAN,
         NEW again, GrowFile(f, n, pressed, fails, again)
  PROVE  BlocksInv'
<1>  DEFINE v == CleanEnough(vol, n)
<1>0. Up /\ vol.there[f]
  BY DEF GrowFile
<1>1. /\ Calling(disk, Files \ {f}, vol) /\ AtRest(vol) /\ vol.size \in [Files -> Nat]
  BY <1>0, BetweenCalls
<1>2. Calling(disk, Files \ {f}, v) /\ AtRest(v) /\ SameEntries(v, vol)
  <2>1. vol.blank = Nobody /\ Noting(vol) /\ Fits(vol)
    BY <1>1 DEF AtRest, Noting
  <2>2. Calling(disk, Files \ {f}, UpdateDisk(vol)) /\ Keeps(vol, UpdateDisk(vol))
    BY <1>1, <2>1, UpdateEffect
  <2>3. AtRest(UpdateDisk(vol)) /\ SameEntries(UpdateDisk(vol), vol)
    BY <1>1, <2>2 DEF AtRest, Keeps, Fits, Shown, SameEntries
  <2>4. QED
    BY <1>1, <2>2, <2>3 DEF CleanEnough, SameEntries
<1>3. PICK bs \in [1 .. n -> v.free] :
        /\ IsInjective(bs)
        /\ Runs(IF fails THEN Undone(AllocateBlocksAC(v, f, bs, pressed), f, n, again)
                ELSE AllocateBlocksAC(v, f, bs, pressed), f)
  BY DEF GrowFile
<1>  HIDE DEF v
<1>  DEFINE w == AllocateBlocksAC(v, f, bs, pressed)
<1>4. Calling(disk, Files \ {f}, w) /\ AtRest(w) /\ Grown(v, w, f, n)
  BY <1>0, <1>2, <1>3, AllocateEffect DEF SameEntries
<1>5. CASE ~fails
  <2>1. OthersSame(w, vol, f) /\ Runs(w, f)
    BY <1>1, <1>2, <1>3, <1>4, <1>5 DEF OthersSame, Grown, SameEntries
  <2>2. QED
    BY <1>0, <1>4, <2>1, RunsEffect
<1>6. CASE fails
  <2>  DEFINE z == [w EXCEPT !.size[f] = @ - n, !.dirty = TRUE]
  <2>0. Runs(FreeBlocksAC(z, f, n, again), f)
    BY <1>3, <1>6 DEF Undone
  <2>  HIDE DEF w
  <2>1. w \in Volume /\ VolumeOK(w) /\ w.blank = Nobody
    BY <1>4 DEF Calling, VolumeOK, AtRest
  <2>2. w.size[f] = vol.size[f] + n /\ w.there = vol.there /\ \A g \in Files \ {f} : w.size[g] = vol.size[g]
    BY <1>1, <1>2, <1>4 DEF Grown, SameEntries
  <2>3. w.size \in [Files -> Nat] /\ w.size[f] - n \in Nat
    BY SMTT(60), <1>1, <2>1, <2>2 DEF Volume
  <2>4. /\ z.there = w.there /\ z.size = [w.size EXCEPT ![f] = @ - n] /\ z.dirty = TRUE
        /\ z.free = w.free /\ z.tbf = w.tbf /\ z.chain = w.chain /\ z.clean = w.clean
        /\ z.avail = w.avail /\ z.past = w.past /\ z.todo = w.todo /\ z.blank = w.blank
    BY <2>1 DEF Volume
  <2>5. z \in Volume
    BY <2>1, <2>3 DEF Volume
  <2>  HIDE DEF z
  <2>6. Shown(w, f) = Len(w.chain[f]) /\ Shown(w, f) = w.size[f]
    BY <1>0, <1>4, <2>2, PfsBlocksAssumption DEF AtRest, Fits, Nothing, Shown
  <2>7. OthersSame(z, w, f) /\ OthersSame(z, vol, f)
    BY <2>2, <2>3, <2>4 DEF OthersSame
  <2>8. Shown(z, f) = Left(Len(z.chain[f]), n)
    <3>1. Shown(z, f) = w.size[f] - n
      BY <1>0, <2>2, <2>3, <2>4 DEF Shown
    <3>2. w.size[f] = Len(z.chain[f]) /\ w.size[f] \in Nat
      BY <2>3, <2>4, <2>6
    <3>3. \A a \in Nat : a - n \in Nat => a - n = Left(a, n)
      BY DEF Left
    <3>4. QED
      BY <2>3, <3>1, <3>2, <3>3
  <2>9. Calling(disk, Files \ {f}, z) /\ \A g \in Files \ {f} : Shown(z, g) = Len(z.chain[g])
    BY SMTT(60), <1>4, <2>4, <2>5, <2>7, EntryChanged
  <2>10. MayFree(disk, Files \ {f}, z, f, n, again)
    BY <2>1, <2>4, <2>8, <2>9 DEF MayFree
  <2>11. QED
    BY <1>0, <2>0, <2>7, <2>10, FreeingStep
<1>7. QED
  BY <1>5, <1>6
-----------------------------------------------------------------------------
(***************************************************************************)
(* An update on its own, the program that goes away, and the mount.         *)
(***************************************************************************)
LEMMA SizesAreNumbers ==
  ASSUME NEW v \in Volume
  PROVE  SizesOf(v) \in [Files -> Nat \cup {Nobody}]
<1>1. All \in Nat
  BY PfsBlocksAssumption, FS_CardinalityType DEF All
<1>2. v.size \in [Files -> Nat] /\ v.there \in [Files -> BOOLEAN]
  BY DEF Volume
<1>3. QED
  BY <1>1, <1>2 DEF SizesOf

\* After an update nothing is dirty.
LEMMA UpdateCleans ==
  ASSUME NEW v \in Volume
  PROVE  ~UpdateDisk(v).dirty
<1>1. CASE ~v.dirty
  BY <1>1 DEF UpdateDisk
<1>2. CASE v.dirty
  <2>1. UpdateDisk(v) = [UpdateFreeList(v) EXCEPT !.past = Append(@, Snapshot(UpdateFreeList(v))), !.dirty = FALSE]
    BY <1>2 DEF UpdateDisk, Committed
  <2>2. "dirty" \in DOMAIN UpdateFreeList(v)
    BY DEF UpdateFreeList, Volume
  <2>  HIDE DEF UpdateFreeList, Snapshot
  <2>3. QED
    BY <2>1, <2>2
<1>3. QED
  BY <1>1, <1>2

LEMMA FlushStep ==
  ASSUME BlocksInv, FlushChanges
  PROVE  BlocksInv'
<1>  DEFINE w == UpdateDisk(vol)
<1>0. Up /\ Ends(w) /\ settled' = SizesOf(vol)
  BY DEF FlushChanges
<1>1. Calling(disk, Files, vol) /\ AtRest(vol) /\ vol \in Volume
  BY <1>0 DEF BlocksInv, Calling, VolumeOK
<1>2. Calling(disk, Files, w) /\ Keeps(vol, w)
  BY <1>1, UpdateEffect DEF AtRest, Noting
<1>3. ~w.dirty
  BY <1>1, UpdateCleans
<1>  HIDE DEF w
<1>4. AtRest(w) /\ SameEntries(w, vol)
  BY <1>1, <1>2 DEF AtRest, Keeps, Fits, Shown, SameEntries
<1>5. /\ VersionOK(disk') /\ Calling(disk', Files, vol') /\ AtRest(vol') /\ vol'.past = <<>>
      /\ SameEntries(vol', w)
  BY <1>0, <1>2, <1>4, EndsEffect
<1>6. SameEntries(w, disk')
  <2>1. disk' = Base(disk, w)
    BY <1>0 DEF Ends, Base, Last
  <2>2. QED
    BY <1>2, <1>3, <2>1 DEF Calling, Saved
<1>7. SizesOf(disk') = SizesOf(vol) /\ SizesOf(vol') = SizesOf(vol)
  BY <1>4, <1>5, <1>6 DEF SizesOf, SameEntries
<1>8. settled' \in [Files -> Nat \cup {Nobody}]
  BY <1>0, <1>1, SizesAreNumbers
<1>9. SettledOK'
  BY <1>0, <1>7 DEF SettledOK, SizesOf
<1>10. QED
  BY <1>5, <1>8, <1>9 DEF BlocksInv

LEMMA CrashStep ==
  ASSUME BlocksInv, Crash
  PROVE  BlocksInv'
<1>1. vol' = Down /\ disk' = disk /\ settled' = settled
  BY DEF Crash
<1>2. SettledOK'
  BY <1>1 DEF BlocksInv, SettledOK, SizesOf, Up
<1>3. QED
  BY <1>1, <1>2 DEF BlocksInv, Up

\* What a mount finds is sound, but for what is noted to be freed.
LEMMA MountedEffect ==
  ASSUME NEW d, VersionOK(d)
  PROVE  /\ Calling(d, Files, Mounted(d)) /\ SameEntries(Mounted(d), d)
         /\ Mounted(d).todo = d.todo /\ Mounted(d).blank = Nobody /\ Mounted(d).past = <<>>
         /\ Fits(Mounted(d))
<1>  DEFINE z == Mounted(d)
<1>1. /\ z.there = d.there /\ z.size = d.size /\ z.chain = d.chain /\ z.free = d.free
      /\ z.tbf = <<>> /\ z.clean = d.blocksfree /\ z.avail = d.blocksfree /\ z.todo = d.todo
      /\ z.blank = Nobody /\ z.dirty = TRUE /\ z.past = <<>>
  BY DEF Mounted
<1>2. z \in Volume
  <2>1. <<>> \in Seq(Stored) /\ <<>> \in Seq(Blocks)
    OBVIOUS
  <2>2. d \in Stored
    BY DEF VersionOK
  <2>3. QED
    BY <2>1, <2>2 DEF Mounted, Volume, Stored
<1>  HIDE DEF z
<1>3. VolumeOK(z)
  <2>1. d.blocksfree \in Nat
    BY DEF VersionOK, Stored
  <2>2. CountOK(z)
    BY <1>1, <2>1, Len(<<>>) = 0 DEF VersionOK, CountOK
  <2>3. QED
    BY <1>1, <1>2, <2>2 DEF VersionOK, VolumeOK
<1>4. Alike(z, Files) /\ Base(d, z) = d
  BY <1>1, Len(<<>>) = 0 DEF Alike, Base
<1>5. Intact(z, d) /\ Saved(z, d)
  BY <1>1 DEF Intact, Saved
<1>6. Fits(z) /\ SameEntries(z, d)
  BY <1>1 DEF VersionOK, Fits, Shown, SameEntries
<1>7. QED
  BY <1>1, <1>3, <1>4, <1>5, <1>6 DEF Calling, z

\* DoPostponed finishes what is noted.
LEMMA PostponedEffect ==
  ASSUME NEW d, NEW pressed, VersionOK(d)
  PROVE  LET w == DoPostponed(Mounted(d), pressed) IN
         Calling(d, Files, w) /\ AtRest(w) /\ SameEntries(w, d)
<1>  DEFINE z == Mounted(d)
<1>1. /\ Calling(d, Files, z) /\ SameEntries(z, d) /\ z.todo = d.todo /\ z.blank = Nobody
      /\ Fits(z)
  BY MountedEffect
<1>  HIDE DEF z
<1>2. CASE z.todo = Nothing
  BY <1>1, <1>2 DEF DoPostponed, AtRest, z
<1>3. CASE z.todo # Nothing
  <2>  DEFINE f == z.todo.file
              n == z.todo.count
              w == FreeBlocksAC(z, f, n, pressed)
  <2>1. f \in Files /\ n \in Nat
    <3>1. z.todo \in Task
      BY <1>1 DEF Calling, VolumeOK, Volume
    <3>2. Noting(d)
      BY DEF VersionOK
    <3>3. QED
      BY <1>1, <1>3, <3>1, <3>2 DEF Noting, Task
  <2>2. MayFree(d, Files, z, f, n, pressed)
    BY <1>1, <2>1 DEF MayFree, Fits
  <2>3. DoPostponed(z, pressed) = w
    BY <1>3 DEF DoPostponed
  <2>4. Calling(d, Files, w) /\ SameEntries(w, z) /\ AtRest(w)
    <3>  HIDE DEF f, n
    <3>  QED BY <2>1, <2>2, FreeBlocksEffect
  <2>  HIDE DEF w
  <2>5. SameEntries(w, d)
    BY <1>1, <2>4 DEF SameEntries
  <2>6. QED
    BY <2>3, <2>4, <2>5 DEF z
<1>4. QED
  BY <1>2, <1>3

LEMMA MountStep ==
  ASSUME BlocksInv, NEW pressed, Mount(pressed)
  PROVE  BlocksInv'
<1>  DEFINE w == DoPostponed(Mounted(disk), pressed)
<1>0. settled' = settled /\ (Ends(w) \/ DiesIn(w))
  BY DEF Mount
<1>1. Calling(disk, Files, w) /\ AtRest(w) /\ SameEntries(w, disk)
  BY PostponedEffect DEF BlocksInv
<1>  HIDE DEF w
<1>2. settled' \in [Files -> Nat \cup {Nobody}]
      /\ \A g \in Files : settled[g] # Nobody => SizesOf(disk)[g] = settled[g] /\ SizesOf(w)[g] = settled[g]
  BY <1>0, <1>1 DEF BlocksInv, SettledOK, SizesOf, SameEntries
<1>3. CASE Ends(w)
  <2>1. /\ VersionOK(disk') /\ Calling(disk', Files, vol') /\ AtRest(vol') /\ vol'.past = <<>>
        /\ SameEntries(vol', w)
        /\ \A g \in Files : \/ disk' = disk
                            \/ disk'.there[g] = w.there[g] /\ disk'.size[g] = w.size[g]
    BY <1>1, <1>3, EndsEffect
  <2>2. \A g \in Files : settled[g] # Nobody =>
          SizesOf(disk')[g] = settled[g] /\ SizesOf(vol')[g] = settled[g]
    BY <1>2, <2>1 DEF SizesOf, SameEntries
  <2>3. SettledOK'
    BY <1>0, <2>2 DEF SettledOK, SizesOf
  <2>4. QED
    BY <1>2, <2>1, <2>3 DEF BlocksInv
<1>4. CASE DiesIn(w)
  <2>1. /\ VersionOK(disk') /\ vol' = Down
        /\ \A g \in Files : disk'.there[g] = w.there[g] /\ disk'.size[g] = w.size[g]
    BY <1>1, <1>4, DiesEffect
  <2>2. \A g \in Files : settled[g] # Nobody => SizesOf(disk')[g] = settled[g]
    BY <1>2, <2>1 DEF SizesOf
  <2>3. SettledOK'
    BY <1>0, <2>1, <2>2 DEF SettledOK, SizesOf, Up
  <2>4. QED
    BY <1>2, <2>1, <2>3 DEF BlocksInv, Up
<1>5. QED
  BY <1>0, <1>3, <1>4
-----------------------------------------------------------------------------
LEMMA BlocksInvInit == Init => BlocksInv
<1>  SUFFICES ASSUME Init PROVE BlocksInv
  OBVIOUS
<1>1. IsFiniteSet(Blocks) /\ Cardinality(Blocks) \in Nat /\ Nobody \notin Files /\ All \in Nat
  BY PfsBlocksAssumption, FS_CardinalityType DEF All
<1>2. /\ Empty.there = [f \in Files |-> FALSE] /\ Empty.size = [f \in Files |-> 0]
      /\ Empty.chain = [f \in Files |-> <<>>] /\ Empty.free = Blocks
      /\ Empty.blocksfree = Cardinality(Blocks) /\ Empty.todo = Nothing
  BY DEF Empty
<1>3. Empty \in Stored
  <2>1. Nothing \in Task /\ <<>> \in Seq(Blocks)
    BY DEF Nothing, Task
  <2>2. QED
    BY <1>1, <2>1 DEF Empty, Stored
<1>4. Parted(Empty.free, <<>>, Empty.chain)
  BY <1>2, Len(<<>>) = 0 DEF Parted
<1>5. Fits(Empty) /\ Noting(Empty)
  BY <1>1, <1>2, Len(<<>>) = 0 DEF Fits, Noting, Nothing, Shown
<1>6. VersionOK(Empty)
  BY <1>2, <1>3, <1>4, <1>5 DEF VersionOK
<1>7. Calling(Empty, Files, Mounted(Empty)) /\ AtRest(Mounted(Empty)) /\ Mounted(Empty).past = <<>>
  BY <1>2, <1>6, MountedEffect DEF AtRest
<1>8. /\ SizesOf(Empty) = [f \in Files |-> All] /\ SizesOf(Mounted(Empty)) = [f \in Files |-> All]
  BY <1>2 DEF SizesOf, Mounted
<1>9. /\ disk = Empty /\ vol = Mounted(Empty) /\ settled = [f \in Files |-> All]
  BY DEF Init
<1>  HIDE DEF Mounted, Empty
<1>10. SettledOK
  BY <1>8, <1>9 DEF SettledOK
<1>11. QED
  BY <1>1, <1>6, <1>7, <1>9, <1>10 DEF BlocksInv

(* Every call, a crash in it or after it, and the mount that follows, leave  *)
(* a sound volume and a sound version.                                      *)
LEMMA BlocksInvStep ==
  ASSUME Careful, BlocksInv, [Next]_vars
  PROVE  BlocksInv'
<1>1. ASSUME NEW f \in Files, CreateFile(f) PROVE BlocksInv'
  BY <1>1, CreateStep
<1>2. ASSUME NEW f \in Files, NEW pressed, OverwriteFile(f, pressed) PROVE BlocksInv'
  BY <1>2, OverwriteStep
<1>3. ASSUME NEW f \in Files, NEW pressed, DeleteFile(f, pressed) PROVE BlocksInv'
  BY <1>3, DeleteStep
<1>4. ASSUME NEW f \in Files, NEW pressed, NEW n \in 1 .. MaxGrow, ShrinkFile(f, n, pressed) PROVE BlocksInv'
  BY <1>4, ShrinkStep
<1>5. ASSUME NEW f \in Files, NEW pressed, NEW n \in 1 .. MaxGrow, NEW fails \in BOOLEAN,
             NEW again, GrowFile(f, n, pressed, fails, again)
      PROVE  BlocksInv'
  BY SMTT(60), <1>5, GrowStep
<1>51. ASSUME NEW pressed, Mount(pressed) PROVE BlocksInv'
  BY <1>51, MountStep
<1>6. CASE UNCHANGED vars
  BY <1>6 DEF vars, BlocksInv, SettledOK, SizesOf, Up, Calling, VersionOK, VolumeOK, Parted, CountOK, Alike, AtRest,
              Fits, Noting, Shown, Base, Intact, Saved, SameEntries
<1>7. QED
  BY <1>1, <1>2, <1>3, <1>4, <1>5, <1>51, <1>6, FlushStep, CrashStep DEF Next

LEMMA BlocksInvAlways ==
  ASSUME Careful
  PROVE  Spec => []BlocksInv
<1>1. BlocksInv /\ [Next]_vars => BlocksInv'
  BY BlocksInvStep
<1>2. QED
  BY <1>1, BlocksInvInit, PTL DEF Spec
-----------------------------------------------------------------------------
(* Every block is free, or waits to be, or belongs to one file, and a file   *)
(* has as many as its entry says: after calls that failed half way and were *)
(* undone, after a crash in any call, and after a crash in the mount that   *)
(* finishes it.                                                             *)
THEOREM NoBlockLost ==
  ASSUME Careful
  PROVE  Spec => []BlocksAccounted
<1>1. BlocksInv => BlocksAccounted
  <2>  SUFFICES ASSUME BlocksInv, Up PROVE BlocksAccounted
    BY DEF BlocksAccounted
  <2>  DEFINE held == UNION {Range(vol.chain[f]) : f \in Files}
  <2>1. Parted(vol.free, vol.tbf, vol.chain) /\ vol \in Volume /\ AtRest(vol)
    BY DEF BlocksInv, Calling, VolumeOK
  <2>2. /\ vol.tbf \in Seq(Blocks) /\ vol.chain \in [Files -> Seq(Blocks)] /\ vol.free \in SUBSET Blocks
    BY <2>1 DEF Volume
  <2>3. Range(vol.tbf) = {vol.tbf[i] : i \in 1 .. Len(vol.tbf)}
    BY <2>2 DEF Range
  <2>4. ASSUME NEW f \in Files
        PROVE  /\ \A b : b \in Range(vol.chain[f]) <=> \E i \in 1 .. Len(vol.chain[f]) : b = vol.chain[f][i]
               /\ \A i \in 1 .. Len(vol.chain[f]) : vol.chain[f][i] \in Blocks
    <3>1. vol.chain[f] \in Seq(Blocks)
      BY <2>2
    <3>2. Range(vol.chain[f]) = {vol.chain[f][i] : i \in 1 .. Len(vol.chain[f])}
      BY <3>1 DEF Range
    <3>3. QED
      BY <3>1, <3>2
  <2>5. \A b : b \in held <=> \E f \in Files : \E i \in 1 .. Len(vol.chain[f]) : b = vol.chain[f][i]
    <3>1. \A b : b \in held <=> \E f \in Files : b \in Range(vol.chain[f])
      OBVIOUS
    <3>  HIDE DEF held
    <3>2. ASSUME NEW b \in held PROVE \E f \in Files : \E i \in 1 .. Len(vol.chain[f]) : b = vol.chain[f][i]
      <4>1. PICK f \in Files : b \in Range(vol.chain[f])
        BY <3>1
      <4>2. PICK i \in 1 .. Len(vol.chain[f]) : b = vol.chain[f][i]
        BY <2>4, <4>1, Zenon
      <4>3. QED
        BY <4>2
    <3>3. ASSUME NEW f \in Files, NEW i \in 1 .. Len(vol.chain[f]) PROVE vol.chain[f][i] \in held
      <4>1. vol.chain[f][i] \in Range(vol.chain[f])
        BY <2>4, Zenon
      <4>2. QED
        BY <3>1, <4>1
    <3>4. QED
      BY <3>2, <3>3
  <2>6. \A b : b \in Range(vol.tbf) <=> \E i \in 1 .. Len(vol.tbf) : b = vol.tbf[i]
    BY <2>3
  <2>7. vol.free \cup Range(vol.tbf) \cup held = Blocks
    <3>  HIDE DEF held
    <3>1. Range(vol.tbf) \subseteq Blocks /\ held \subseteq Blocks
      <4>1. \A i \in 1 .. Len(vol.tbf) : vol.tbf[i] \in Blocks
        BY <2>2
      <4>2. QED
        BY <2>4, <2>5, <2>6, <4>1
    <3>2. \A b \in Blocks : b \in vol.free \/ b \in Range(vol.tbf) \/ b \in held
      BY <2>1, <2>5, <2>6 DEF Parted
    <3>3. QED
      BY <2>2, <3>1, <3>2
  <2>8. vol.free \cap (Range(vol.tbf) \cup held) = {} /\ Range(vol.tbf) \cap held = {}
    <3>  HIDE DEF held
    <3>  QED BY SMTT(60), <2>1, <2>5, <2>6 DEF Parted
  <2>9. IsInjective(vol.tbf) /\ \A f \in Files : IsInjective(vol.chain[f])
    <3>1. \A i, j \in DOMAIN vol.tbf : vol.tbf[i] = vol.tbf[j] => i = j
      BY <2>1, <2>2 DEF Parted
    <3>2. \A f \in Files : DOMAIN vol.chain[f] = 1 .. Len(vol.chain[f])
      BY <2>2
    <3>3. \A f \in Files : \A i, j \in DOMAIN vol.chain[f] : vol.chain[f][i] = vol.chain[f][j] => i = j
      BY SMTT(60), <2>1, <3>2 DEF Parted
    <3>4. QED
      BY <3>1, <3>3 DEF IsInjective
  <2>10. \A f, g \in Files : f # g => Range(vol.chain[f]) \cap Range(vol.chain[g]) = {}
    <3>1. ASSUME NEW f \in Files, NEW g \in Files, f # g, NEW b \in Range(vol.chain[f]), b \in Range(vol.chain[g])
          PROVE  FALSE
      <4>1. PICK i \in 1 .. Len(vol.chain[f]) : b = vol.chain[f][i]
        BY <2>4, <3>1, Zenon
      <4>2. PICK j \in 1 .. Len(vol.chain[g]) : b = vol.chain[g][j]
        BY <2>4, <3>1, Zenon
      <4>3. QED
        BY ZenonT(60), <2>1, <3>1, <4>1, <4>2 DEF Parted
    <3>2. QED
      BY <3>1
  <2>11. \A f \in Files : Len(vol.chain[f]) = (IF vol.there[f] THEN vol.size[f] ELSE 0)
    BY <2>1, PfsBlocksAssumption DEF AtRest, Fits, Nothing, Shown
  <2>12. QED
    BY <2>7, <2>8, <2>9, <2>10, <2>11 DEF BlocksAccounted
<1>2. QED
  BY <1>1, BlocksInvAlways, PTL

(* clean_blocksfree and alloc_available count the blocks they stand for, and *)
(* so does the count in the root block that a mount takes over.             *)
THEOREM CountsAreExact ==
  ASSUME Careful
  PROVE  Spec => []CountsExact
<1>1. BlocksInv => CountsExact
  BY DEF BlocksInv, CountsExact, Calling, VolumeOK, CountOK
<1>2. QED
  BY <1>1, BlocksInvAlways, PTL

(* Whatever is written to the files as they are now, the blocks of the       *)
(* committed version stay as they are: they are where they were, or wait.   *)
THEOREM CommittedStays ==
  ASSUME Careful
  PROVE  Spec => []CommittedIntact
<1>1. BlocksInv => CommittedIntact
  <2>  SUFFICES ASSUME BlocksInv, Up, NEW f \in Files, NEW i \in DOMAIN disk.chain[f]
                PROVE  \/ disk.chain[f][i] \in Range(vol.tbf)
                       \/ i \in DOMAIN vol.chain[f] /\ vol.chain[f][i] = disk.chain[f][i]
    BY DEF CommittedIntact
  <2>1. vol.tbf \in Seq(Blocks) /\ vol.chain[f] \in Seq(Blocks) /\ disk.chain[f] \in Seq(Blocks)
    BY DEF BlocksInv, Calling, VolumeOK, VersionOK, Volume, Stored
  <2>2. Intact(vol, disk)
    BY DEF BlocksInv, Calling, Base
  <2>3. i \in 1 .. Len(disk.chain[f])
    BY <2>1
  <2>4. QED
    BY SMTT(60), <2>1, <2>2, <2>3 DEF Intact, Range
<1>2. QED
  BY <1>1, BlocksInvAlways, PTL

(* A file that was closed, or that a mount brought back, is what a crash     *)
(* leaves of it, until a call changes it: no half-done operation on another *)
(* file touches its entry, and none is committed without its blocks.        *)
THEOREM ClosedFilesSurvive ==
  ASSUME Careful
  PROVE  Spec => []ClosedSurvives
<1>1. BlocksInv => ClosedSurvives
  BY DEF BlocksInv, SettledOK, ClosedSurvives
<1>2. QED
  BY <1>1, BlocksInvAlways, PTL
=============================================================================
