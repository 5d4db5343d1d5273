------------------------- MODULE PfsCommit_proofs -------------------------
(***************************************************************************)
(* What TLC checks of PfsCommit for a reserved area of 15 places, for one   *)
(* of any size that has room: two places for each block and one for each    *)
(* block that the cache has written.  The volume has no super blocks, and   *)
(* nothing is changed after a write that failed.                            *)
(***************************************************************************)
EXTENDS PfsCommit, FiniteSetTheorems, TLAPS

Sheltered ==
  /\ ~SuperMode /\ Allow = {}
  /\ LastReserved >= MaxEvictions + 2 * Cardinality(Kinds)

Steps == 0 .. MaxUpdates + 1
Blocks == Kinds \cup {"ROOT"}
Volume ==
  [up : {TRUE}, val : [Kinds -> Steps], nr : [Kinds -> Places],
   old : [Kinds -> Places \cup {Nowhere}], dirty : [Kinds -> BOOLEAN], free : SUBSET Places,
   roving : Nat, rtbf : Seq(Places), changed : BOOLEAN, todo : Seq(Blocks), updateok : BOOLEAN]

(***************************************************************************)
(* The version on the disk: the root leads to a block of each kind, and     *)
(* what it calls free is what it does not lead to.                          *)
(***************************************************************************)
Stored(P, val, k) == [kind |-> k, val |-> val[k], link |-> [c \in Children[k] |-> P[c]]]
Stands(P, val) ==
  /\ P \in [Kinds -> Places] /\ val \in [Kinds -> Steps]
  /\ \A k \in Kinds : disk[P[k]] = Stored(P, val, k)
  /\ root.link = [c \in Children["ROOT"] |-> P[c]]
  /\ root.free = {p \in Places : \A k \in Kinds : p # P[k]}
  /\ root.roving \in Nat
  /\ DOMAIN disk = Places
VersionOK == Stands(PlaceOf, OnDisk)

(***************************************************************************)
(* The program's volume: each place has one use at most, and has one.  A    *)
(* place that will be written is not one of the version on the disk, and    *)
(* such a one is not free before an update.  A clean block is on the disk   *)
(* as the program has it, at: with the exception of one that is to change.  *)
(***************************************************************************)
Separate(v) ==
  /\ \A k \in Kinds : v.nr[k] \notin v.free
  /\ \A j, k \in Kinds : j # k => v.nr[j] # v.nr[k]
OldOK(v) ==
  \A k \in Kinds : v.old[k] # Nowhere =>
    /\ v.dirty[k] /\ v.old[k] \notin v.free
    /\ \A j \in Kinds : v.old[k] # v.nr[j] /\ (j # k => v.old[j] # v.old[k])
RtbfOK(v) ==
  /\ Len(v.rtbf) <= MaxEvictions
  /\ \A i \in 1 .. Len(v.rtbf) :
       /\ v.rtbf[i] \notin v.free
       /\ \A k \in Kinds : v.rtbf[i] # v.nr[k] /\ v.rtbf[i] # v.old[k]
       /\ \A j \in 1 .. Len(v.rtbf) : j # i => v.rtbf[i] # v.rtbf[j]
NoneLost(v) ==
  \A p \in Places :
    \/ p \in v.free
    \/ \E i \in 1 .. Len(v.rtbf) : p = v.rtbf[i]
    \/ \E k \in Kinds : p = v.nr[k] \/ p = v.old[k]
Apart(v) == \A j, k \in Kinds : v.dirty[j] => v.nr[j] # PlaceOf[k]
Kept(v) == \A k \in Kinds : PlaceOf[k] \notin v.free
CleanBut(v, at) == \A k \in Kinds : k # at /\ ~v.dirty[k] => disk[v.nr[k]] = Image(v, k)
UsesOK(v) == v \in Volume /\ Separate(v) /\ OldOK(v) /\ RtbfOK(v) /\ NoneLost(v) /\ Apart(v)

\* What is left of an update, and what that is for.
InTodo(v, k) == \E i \in 1 .. Len(v.todo) : v.todo[i] = k
TodoOK(v) ==
  v.todo # <<>> =>
    /\ v.todo[Len(v.todo)] = "ROOT"
    /\ v.updateok => /\ \A k \in Kinds : v.dirty[k] => InTodo(v, k)
                     /\ v.rtbf # <<>> => InTodo(v, "EXT")
    /\ ~v.updateok => v.todo = <<"ROOT">>
VolOK(v) ==
  /\ UsesOK(v) /\ CleanBut(v, "ROOT") /\ TodoOK(v)
  /\ v.todo = <<>> /\ v.updateok => Kept(v)

\* The program stops where the cache or the root could not be written.
VolumeOK ==
  IF failed \subseteq {"block"} THEN VolOK(vol) /\ (vol.updateok <=> failed = {})
                               ELSE UsesOK(vol) /\ vol.todo = <<>>
CommitInv ==
  /\ updates \in 0 .. MaxUpdates /\ VersionOK
  /\ Running => VolumeOK
  /\ ~Running => failed = {}
-----------------------------------------------------------------------------
(***************************************************************************)
(* Who is above whom.                                                       *)
(***************************************************************************)
LEMMA KindsAre ==
  ASSUME Sheltered
  PROVE  /\ Kinds = {"DBLK", "ABLK", "IBLK", "EXT", "BMBLK", "BMIBLK"}
         /\ Parent["DBLK"] = "ABLK" /\ Parent["ABLK"] = "IBLK" /\ Parent["IBLK"] = "ROOT"
         /\ Parent["EXT"] = "ROOT" /\ Parent["BMBLK"] = "BMIBLK" /\ Parent["BMIBLK"] = "ROOT"
  BY DEF Kinds, Parent, Sheltered

LEMMA ParentIn ==
  ASSUME Sheltered, NEW k \in Kinds
  PROVE  Parent[k] \in Blocks /\ Parent[k] # k /\ k # "ROOT"
  BY KindsAre DEF Blocks

LEMMA ChildrenAre ==
  ASSUME NEW k \in Blocks
  PROVE  Children[k] = {c \in Kinds : Parent[c] = k}
  BY DEF Children, Blocks

LEMMA OrderIs ==
  ASSUME Sheltered
  PROVE  Order = <<"DBLK", "ABLK", "IBLK", "EXT", "BMBLK", "BMIBLK", "ROOT">>
  BY DEF Order, Sheltered

(* A function that leads from the root to each block as the links do is      *)
(* PlaceOf.                                                                 *)
LEMMA PlaceOfIs ==
  ASSUME Sheltered, NEW P,
         P = [k \in Kinds |-> P[k]],
         \A k \in Kinds : P[k] # Nowhere,
         root.link = [c \in Children["ROOT"] |-> P[c]],
         \A k \in Kinds : disk[P[k]].link = [c \in Children[k] |-> P[c]]
  PROVE  PlaceOf = P
<1>  DEFINE Rec(f) == [k \in Kinds |->
              PlaceFrom(IF Parent[k] = "ROOT" THEN root ELSE BlockAt(f[Parent[k]]), k)]
<1>1. PlaceOf = CHOOSE f : f = Rec(f)
  BY DEF PlaceOf
<1>2. ASSUME NEW k \in Kinds
      PROVE  PlaceFrom(IF Parent[k] = "ROOT" THEN root ELSE BlockAt(P[Parent[k]]), k) = P[k]
  <2>1. CASE Parent[k] = "ROOT"
    BY <2>1, ChildrenAre DEF PlaceFrom, Blocks
  <2>2. CASE Parent[k] # "ROOT"
    <3>  DEFINE u == Parent[k]
    <3>1. u \in Kinds
      BY <2>2, ParentIn DEF Blocks
    <3>2. disk[P[u]].link = [c \in Children[u] |-> P[c]] /\ P[u] # Nowhere
      BY SMTT(60), <3>1
    <3>3. k \in Children[u]
      BY <3>1, ChildrenAre DEF Blocks
    <3>4. QED
      BY <2>2, <3>2, <3>3 DEF PlaceFrom, BlockAt
  <2>3. QED
    BY <2>1, <2>2
<1>3. P = Rec(P)
  BY <1>2
<1>4. ASSUME NEW f, f = Rec(f)
      PROVE  f = P
  <2>1. \A k \in Kinds : f[k] = PlaceFrom(IF Parent[k] = "ROOT" THEN root ELSE BlockAt(f[Parent[k]]), k)
    BY <1>4
  <2>2. \A k \in Kinds : Parent[k] = "ROOT" => f[k] = P[k]
    BY <1>2, <2>1
  <2>3. \A k \in Kinds : Parent[k] \in Kinds /\ f[Parent[k]] = P[Parent[k]] => f[k] = P[k]
    BY <1>2, <2>1
  <2>4. /\ f["IBLK"] = P["IBLK"] /\ f["EXT"] = P["EXT"] /\ f["BMIBLK"] = P["BMIBLK"]
    BY <2>2, KindsAre
  <2>5. f["ABLK"] = P["ABLK"] /\ f["BMBLK"] = P["BMBLK"]
    BY <2>3, <2>4, KindsAre
  <2>6. f["DBLK"] = P["DBLK"]
    BY <2>3, <2>5, KindsAre
  <2>7. \A k \in Kinds : f[k] = P[k]
    BY <2>4, <2>5, <2>6, KindsAre
  <2>8. f = [k \in Kinds |-> f[k]]
    BY <1>4
  <2>9. QED
    BY <2>7, <2>8
<1>5. QED
  <2> HIDE DEF Rec
  <2> QED BY <1>1, <1>3, <1>4
-----------------------------------------------------------------------------
(***************************************************************************)
(* Counting places.                                                         *)
(***************************************************************************)
LEMMA ImageSize ==
  ASSUME NEW S, IsFiniteSet(S), NEW f, \A x, y \in S : f[x] = f[y] => x = y
  PROVE  /\ IsFiniteSet({f[x] : x \in S})
         /\ Cardinality({f[x] : x \in S}) = Cardinality(S)
<1>  DEFINE T == {f[x] : x \in S}
            g == [x \in S |-> f[x]]
<1>1. g \in Injection(S, T)
  BY DEF Injection, IsInjective
<1>2. g \in Surjection(S, T)
  BY DEF Surjection
<1>3. QED
  BY <1>1, <1>2, FS_Surjection

LEMMA UnionSize ==
  ASSUME NEW S, IsFiniteSet(S), NEW T, IsFiniteSet(T), S \cap T = {}
  PROVE  IsFiniteSet(S \cup T) /\ Cardinality(S \cup T) = Cardinality(S) + Cardinality(T)
<1>1. Cardinality(S \cap T) = 0
  BY FS_EmptySet
<1>2. Cardinality(S) \in Nat /\ Cardinality(T) \in Nat
  BY FS_CardinalityType
<1>3. /\ IsFiniteSet(S \cup T)
      /\ Cardinality(S \cup T) = Cardinality(S) + Cardinality(T) - Cardinality(S \cap T)
  BY FS_Union
<1>4. QED
  BY <1>1, <1>2, <1>3

LEMMA KindsFinite == IsFiniteSet(Kinds) /\ Cardinality(Kinds) \in Nat
<1>1. IsFiniteSet({"DBLK", "ABLK", "IBLK", "EXT", "BMBLK", "BMIBLK"})
  <2>1. \A T, x : IsFiniteSet(T) => IsFiniteSet(T \cup {x})
    BY FS_AddElement
  <2>2. IsFiniteSet({"DBLK"} \cup {"ABLK"} \cup {"IBLK"} \cup {"EXT"} \cup {"BMBLK"} \cup {"BMIBLK"})
    BY <2>1, FS_Singleton, Zenon
  <2>3. {"DBLK"} \cup {"ABLK"} \cup {"IBLK"} \cup {"EXT"} \cup {"BMBLK"} \cup {"BMIBLK"}
          = {"DBLK", "ABLK", "IBLK", "EXT", "BMBLK", "BMIBLK"}
    OBVIOUS
  <2>4. QED
    BY <2>2, <2>3
<1>2. IsFiniteSet({"SBLK"}) /\ IsFiniteSet({})
  BY FS_EmptySet, FS_Singleton
<1>3. IsFiniteSet(Kinds)
  BY <1>1, <1>2, FS_Union DEF Kinds
<1>4. QED
  BY <1>3, FS_CardinalityType

LEMMA PlacesFinite == IsFiniteSet(Places) /\ Cardinality(Places) = LastReserved
  BY PfsCommitAssumption, FS_Interval DEF Places

LEMMA RtbfIs ==
  ASSUME NEW v \in Volume
  PROVE  /\ Range(v.rtbf) = {v.rtbf[i] : i \in 1 .. Len(v.rtbf)}
         /\ Range(v.nr) = {v.nr[k] : k \in Kinds}
         /\ Len(v.rtbf) \in Nat
  BY DEF Volume, Range

(* With every place in one use, the uses add up to the reserved area.        *)
LEMMA UsesAddUp ==
  ASSUME NEW v, UsesOK(v)
  PROVE  LET old == {k \in Kinds : v.old[k] # Nowhere} IN
         /\ v.free \cup Range(v.rtbf) \cup Range(v.nr) \cup {v.old[k] : k \in old} = Places
         /\ Cardinality(v.free) + Len(v.rtbf) + Cardinality(Kinds) + Cardinality(old) = LastReserved
<1>  DEFINE old == {k \in Kinds : v.old[k] # Nowhere}
            F == v.free
            R == {v.rtbf[i] : i \in 1 .. Len(v.rtbf)}
            N == {v.nr[k] : k \in Kinds}
            O == {v.old[k] : k \in old}
<1>1. v \in Volume /\ F \subseteq Places /\ Len(v.rtbf) \in Nat
  <2>1. v \in Volume
    BY DEF UsesOK
  <2>2. QED
    BY <2>1, RtbfIs DEF Volume
<1>2. R \subseteq Places /\ N \subseteq Places /\ O \subseteq Places
  BY <1>1 DEF Volume
<1>3. F \cup R \cup N \cup O = Places
  <2>1. \A p \in Places : p # Nowhere
    BY PfsCommitAssumption DEF Places, Nowhere
  <2>2. QED
    BY <1>1, <1>2, <2>1 DEF UsesOK, NoneLost
<1>4. F \cap R = {} /\ (F \cup R) \cap N = {} /\ (F \cup R \cup N) \cap O = {}
  BY DEF UsesOK, Separate, OldOK, RtbfOK
<1>5. IsFiniteSet(F)
  BY <1>1, PlacesFinite, FS_Subset
<1>6. IsFiniteSet(R) /\ Cardinality(R) = Len(v.rtbf)
  <2>1. \A i, j \in 1 .. Len(v.rtbf) : v.rtbf[i] = v.rtbf[j] => i = j
    BY DEF UsesOK, RtbfOK
  <2>2. IsFiniteSet(1 .. Len(v.rtbf)) /\ Cardinality(1 .. Len(v.rtbf)) = Len(v.rtbf)
    <3>1. ASSUME NEW n \in Nat
          PROVE  IsFiniteSet(1 .. n) /\ Cardinality(1 .. n) = IF 1 > n THEN 0 ELSE n - 1 + 1
      <4>1. 1 \in Int /\ n \in Int
        OBVIOUS
      <4>2. QED
        BY ONLY <4>1, FS_Interval
    <3>2. QED
      BY <1>1, <3>1
  <2>3. QED
    BY SMTT(60), <2>1, <2>2, ImageSize
<1>7. IsFiniteSet(N) /\ Cardinality(N) = Cardinality(Kinds)
  <2>1. \A j, k \in Kinds : v.nr[j] = v.nr[k] => j = k
    BY DEF UsesOK, Separate
  <2>2. QED
    BY <2>1, KindsFinite, ImageSize
<1>8. IsFiniteSet(O) /\ Cardinality(O) = Cardinality(old)
  <2>1. \A j, k \in old : v.old[j] = v.old[k] => j = k
    BY DEF UsesOK, OldOK
  <2>2. IsFiniteSet(old)
    BY KindsFinite, FS_Subset
  <2>3. QED
    BY <2>1, <2>2, ImageSize
<1>9. IsFiniteSet(F \cup R) /\ Cardinality(F \cup R) = Cardinality(F) + Cardinality(R)
  BY <1>4, <1>5, <1>6, UnionSize
<1>10. /\ IsFiniteSet(F \cup R \cup N)
       /\ Cardinality(F \cup R \cup N) = Cardinality(F \cup R) + Cardinality(N)
  BY <1>4, <1>7, <1>9, UnionSize
<1>11. Cardinality(F \cup R \cup N \cup O) = Cardinality(F \cup R \cup N) + Cardinality(O)
  BY <1>4, <1>8, <1>10, UnionSize
<1>12. QED
  BY <1>1, <1>3, <1>6, <1>7, <1>8, <1>9, <1>10, <1>11, RtbfIs, PlacesFinite

(* There is always a place for a block that is clean.                        *)
LEMMA RoomLeft ==
  ASSUME Sheltered, NEW v, UsesOK(v), NEW k \in Kinds, ~v.dirty[k]
  PROVE  v.free # {}
<1>  DEFINE old == {j \in Kinds : v.old[j] # Nowhere}
<1>1. IsFiniteSet(old) /\ Cardinality(old) < Cardinality(Kinds)
  <2>1. old \in SUBSET (Kinds \ {k})
    BY DEF UsesOK, OldOK
  <2>2. /\ IsFiniteSet(Kinds \ {k})
        /\ Cardinality(Kinds \ {k}) = Cardinality(Kinds) - 1
    BY SMTT(60), KindsFinite, FS_RemoveElement
  <2>3. IsFiniteSet(old) /\ Cardinality(old) <= Cardinality(Kinds \ {k})
    BY <2>1, <2>2, FS_Subset
  <2>4. Cardinality(old) \in Nat
    BY <2>3, FS_CardinalityType
  <2>5. QED
    BY <2>2, <2>3, <2>4, KindsFinite
<1>2. Cardinality(v.free) + Len(v.rtbf) + Cardinality(Kinds) + Cardinality(old) = LastReserved
  BY UsesAddUp
<1>3. Len(v.rtbf) \in Nat /\ Len(v.rtbf) <= MaxEvictions
  BY DEF UsesOK, RtbfOK, Volume
<1>4. Cardinality(old) \in Nat
  BY <1>1, FS_CardinalityType
<1>5. Cardinality(v.free) # 0
  BY SMTT(60), <1>1, <1>2, <1>3, <1>4, KindsFinite, PfsCommitAssumption DEF Sheltered
<1>6. QED
  BY <1>5, FS_EmptySet

(* AllocReservedBlock finds a free place, if there is one.                   *)
LEMMA LeastIn ==
  ASSUME NEW S, S \subseteq Nat, S # {}
  PROVE  Least(S) \in S
<1>  DEFINE Less == {p \in Nat \X Nat : p[1] < p[2]}
<1>1. IsWellFoundedOn(Less, Nat)
  BY ONLY NatLessThanWellFounded, Zenon DEF OpToRel
<1>2. \E t \in S : \A u \in S : ~(<<u, t>> \in Less)
  <2> HIDE DEF Less
  <2> QED BY <1>1, WFMin, Zenon
<1>3. \A t, u \in Nat : <<u, t>> \notin Less => t <= u
  OBVIOUS
<1>4. PICK t \in S : \A u \in S : t <= u
  <2> HIDE DEF Less
  <2> QED BY <1>2, <1>3
<1>5. QED
  BY <1>4 DEF Least

LEMMA NextReservedFree ==
  ASSUME NEW v, v.free \subseteq Places, v.free # {}
  PROVE  NextReserved(v) \in v.free
<1>1. \A S \in SUBSET v.free : S \subseteq Nat
  BY DEF Places
<1>2. {p \in v.free : p >= v.roving} \in SUBSET v.free
  OBVIOUS
<1>3. QED
  BY <1>1, <1>2, LeastIn DEF NextReserved
-----------------------------------------------------------------------------
(***************************************************************************)
(* What MakeBlockDirty keeps.  Between its steps s, the block s.at is the   *)
(* only clean one that differs from its copy on the disk.                   *)
(***************************************************************************)
Ready(v) == UsesOK(v) /\ Kept(v)
SameUpdate(w, v) == w.rtbf = v.rtbf /\ w.todo = v.todo /\ w.updateok = v.updateok

LEMMA DirtiedReady ==
  ASSUME Sheltered, VersionOK, NEW v, Ready(v), NEW k \in Kinds, ~v.dirty[k], CleanBut(v, k)
  PROVE  /\ Ready(Dirtied(v, k)) /\ CleanBut(Dirtied(v, k), Parent[k])
         /\ SameUpdate(Dirtied(v, k), v) /\ Dirtied(v, k).val = v.val
         /\ Dirtied(v, k).dirty = [v.dirty EXCEPT ![k] = TRUE]
         /\ Goes(v, k)
<1>  DEFINE p == NextReserved(v)
            w == Dirtied(v, k)
<1>1. v \in Volume /\ v.free # {}
  BY RoomLeft DEF Ready, UsesOK
<1>2. p \in v.free
  BY <1>1, NextReservedFree DEF Volume
<1>3. w = [v EXCEPT !.free = @ \ {p}, !.roving = p, !.old[k] = v.nr[k], !.nr[k] = p, !.dirty[k] = TRUE]
  BY <1>1, KindsAre DEF Dirtied, WithExtension, Moved
<1>4. p \in Places /\ Goes(v, k)
  BY <1>1, <1>2, KindsAre DEF Volume, Goes
<1>  HIDE DEF p, w
<1>5. /\ w \in Volume /\ SameUpdate(w, v) /\ w.val = v.val
      /\ w.free = v.free \ {p}
      /\ w.old = [v.old EXCEPT ![k] = v.nr[k]]
      /\ w.nr = [v.nr EXCEPT ![k] = p]
      /\ w.dirty = [v.dirty EXCEPT ![k] = TRUE]
  <2>1. p \in Nat /\ v.nr[k] \in Places /\ v.free \ {p} \subseteq Places
    BY <1>1, <1>4 DEF Volume, Places
  <2>2. v = [up |-> v.up, val |-> v.val, nr |-> v.nr, old |-> v.old, dirty |-> v.dirty, free |-> v.free,
             roving |-> v.roving, rtbf |-> v.rtbf, changed |-> v.changed, todo |-> v.todo,
             updateok |-> v.updateok]
    BY <1>1 DEF Volume
  <2>3. w = [up |-> v.up, val |-> v.val, nr |-> [v.nr EXCEPT ![k] = p], old |-> [v.old EXCEPT ![k] = v.nr[k]],
             dirty |-> [v.dirty EXCEPT ![k] = TRUE], free |-> v.free \ {p},
             roving |-> p, rtbf |-> v.rtbf, changed |-> v.changed, todo |-> v.todo,
             updateok |-> v.updateok]
    BY <1>3, <2>2
  <2>4. w \in Volume
    BY <1>1, <1>4, <2>1, <2>3 DEF Volume
  <2>5. QED
    BY <2>3, <2>4 DEF SameUpdate
<1>6. /\ v.old \in [Kinds -> Places \cup {Nowhere}] /\ v.nr \in [Kinds -> Places]
      /\ v.dirty \in [Kinds -> BOOLEAN]
  BY <1>1 DEF Volume
<1>7. v.old[k] = Nowhere
  BY DEF Ready, UsesOK, OldOK
<1>8. Separate(w) /\ OldOK(w)
  BY <1>2, <1>5, <1>6, <1>7 DEF Ready, UsesOK, Separate, OldOK
<1>9. RtbfOK(w)
  BY <1>2, <1>5, <1>6 DEF Ready, UsesOK, RtbfOK, SameUpdate
<1>10. NoneLost(w)
  BY SMTT(60), <1>2, <1>5, <1>6, <1>7, PfsCommitAssumption DEF Ready, UsesOK, NoneLost, SameUpdate, Places, Nowhere
<1>11. Apart(w) /\ Kept(w)
  BY <1>2, <1>5, <1>6 DEF Ready, UsesOK, Apart, Kept
<1>12. CleanBut(w, Parent[k])
  <2>  SUFFICES ASSUME NEW j \in Kinds, j # Parent[k], ~w.dirty[j]
                PROVE  disk[w.nr[j]] = Image(w, j)
    BY DEF CleanBut
  <2>1. j # k /\ ~v.dirty[j] /\ w.nr[j] = v.nr[j]
    BY <1>5, <1>6
  <2>2. \A c \in Children[j] : c \in Kinds /\ c # k
    BY ChildrenAre DEF Blocks
  <2>3. [c \in Children[j] |-> w.nr[c]] = [c \in Children[j] |-> v.nr[c]]
    BY <1>5, <1>6, <2>2
  <2>4. QED
    BY <1>5, <2>1, <2>3 DEF CleanBut, Image
<1>13. QED
  BY <1>4, <1>5, <1>8, <1>9, <1>10, <1>11, <1>12 DEF w, Ready, UsesOK

LEMMA RaisedReady ==
  ASSUME Sheltered, VersionOK,
         NEW s, s.at \in Blocks, Ready(s.v), CleanBut(s.v, s.at)
  PROVE  LET t == Raised(s) IN
         /\ t.at \in {"ROOT"} \cup (IF s.at \in Kinds THEN {Parent[s.at]} ELSE {})
         /\ Ready(t.v) /\ CleanBut(t.v, t.at)
         /\ SameUpdate(t.v, s.v) /\ t.v.val = s.v.val
         /\ \A k \in Kinds : s.v.dirty[k] \/ k = s.at => t.v.dirty[k]
<1>1. CASE s.at = "ROOT"
  BY <1>1, ParentIn DEF Raised, SameUpdate
<1>2. CASE s.at # "ROOT" /\ s.v.dirty[s.at]
  BY <1>2 DEF Raised, SameUpdate, CleanBut
<1>3. CASE s.at # "ROOT" /\ ~s.v.dirty[s.at]
  <2>1. s.at \in Kinds /\ Parent[s.at] \in Blocks /\ s.v.dirty \in [Kinds -> BOOLEAN]
    BY <1>3, ParentIn DEF Blocks, Ready, UsesOK, Volume
  <2>2. Raised(s) = [v |-> Dirtied(s.v, s.at), at |-> Parent[s.at]]
    BY <1>3, <2>1, DirtiedReady DEF Raised
  <2>3. QED
    <3>  DEFINE w == Dirtied(s.v, s.at)
    <3>1. /\ Ready(w) /\ CleanBut(w, Parent[s.at])
          /\ SameUpdate(w, s.v) /\ w.val = s.v.val
          /\ w.dirty = [s.v.dirty EXCEPT ![s.at] = TRUE]
      BY <1>3, <2>1, DirtiedReady
    <3>  HIDE DEF w
    <3>2. Raised(s) = [v |-> w, at |-> Parent[s.at]]
      BY <2>2 DEF w
    <3>3. \A k \in Kinds : s.v.dirty[k] \/ k = s.at => w.dirty[k]
      BY <2>1, <3>1
    <3>4. QED
      BY <2>1, <3>1, <3>2, <3>3
<1>4. QED
  BY <1>1, <1>2, <1>3

(* A changed block and those above it are dirty, at new places.              *)
LEMMA ChangedReady ==
  ASSUME Sheltered, VersionOK, updates \in 0 .. MaxUpdates,
         NEW v, Ready(v), CleanBut(v, "ROOT"), NEW k \in Kinds
  PROVE  /\ Ready(Changed(v, k)) /\ CleanBut(Changed(v, k), "ROOT")
         /\ SameUpdate(Changed(v, k), v)
         /\ \A j \in Kinds : v.dirty[j] \/ j = k => Changed(v, k).dirty[j]
<1>  DEFINE s0 == [v |-> v, at |-> k]
            s1 == Raised(s0)
            s2 == Raised(s1)
            s3 == Raised(s2)
            s4 == Raised(s3)
            Fine(s) == /\ s.at \in Blocks /\ Ready(s.v) /\ CleanBut(s.v, s.at)
                       /\ SameUpdate(s.v, v)
                       /\ \A j \in Kinds : v.dirty[j] => s.v.dirty[j]
<1>1. Fine(s0) /\ s0.at = k /\ s0.at # "ROOT"
  BY ParentIn DEF Blocks, SameUpdate, CleanBut
<1>2. Fine(s1) /\ s1.v.dirty[k] /\ s1.at \in {"ROOT", Parent[k]}
  <2> HIDE DEF s0, s1
  <2> QED BY <1>1, RaisedReady, ParentIn DEF s1, Blocks, SameUpdate
<1>3. s1.at \in {"ROOT", "ABLK", "IBLK", "BMIBLK"}
  BY <1>2, KindsAre
<1>4. Fine(s2) /\ s2.v.dirty[k] /\ s2.at \in {"ROOT", "IBLK"}
  <2> HIDE DEF s1, s2
  <2> QED BY <1>2, <1>3, RaisedReady, KindsAre DEF s2, Blocks, SameUpdate
<1>5. Fine(s3) /\ s3.v.dirty[k] /\ s3.at = "ROOT"
  <2> HIDE DEF s2, s3
  <2> QED BY <1>4, RaisedReady, KindsAre DEF s3, Blocks, SameUpdate
<1>6. Fine(s4) /\ s4.v.dirty[k] /\ s4.at = "ROOT"
  <2> HIDE DEF s3, s4
  <2> QED BY <1>5, RaisedReady, KindsAre DEF s4, Blocks, SameUpdate
<1>7. Changed(v, k) = [[s4.v EXCEPT !.changed = TRUE] EXCEPT !.val[k] = updates + 1]
  BY DEF Changed, MakeBlockDirty
<1>8. QED
  <2>  DEFINE u == s4.v
              w == Changed(v, k)
  <2>1. /\ Ready(u) /\ CleanBut(u, "ROOT") /\ SameUpdate(u, v) /\ u.dirty[k]
        /\ \A j \in Kinds : v.dirty[j] => u.dirty[j]
    BY <1>6
  <2>2. w = [[u EXCEPT !.changed = TRUE] EXCEPT !.val[k] = updates + 1]
    BY <1>7
  <2>  HIDE DEF s4, s3, s2, s1, s0, u, w, Fine
  <2>3. u \in Volume
    BY <2>1 DEF Ready, UsesOK
  <2>4. /\ w \in Volume /\ w.val = [u.val EXCEPT ![k] = updates + 1]
        /\ w.nr = u.nr /\ w.old = u.old /\ w.dirty = u.dirty /\ w.free = u.free
        /\ w.rtbf = u.rtbf /\ w.todo = u.todo /\ w.updateok = u.updateok
    <3>1. updates + 1 \in Steps
      BY PfsCommitAssumption DEF Steps
    <3>2. u = [up |-> u.up, val |-> u.val, nr |-> u.nr, old |-> u.old, dirty |-> u.dirty, free |-> u.free,
               roving |-> u.roving, rtbf |-> u.rtbf, changed |-> u.changed, todo |-> u.todo,
               updateok |-> u.updateok]
      BY <2>3 DEF Volume
    <3>3. w = [up |-> u.up, val |-> [u.val EXCEPT ![k] = updates + 1], nr |-> u.nr, old |-> u.old,
               dirty |-> u.dirty, free |-> u.free, roving |-> u.roving, rtbf |-> u.rtbf,
               changed |-> TRUE, todo |-> u.todo, updateok |-> u.updateok]
      BY <2>2, <3>2
    <3>4. w \in Volume
      BY <2>3, <3>1, <3>3 DEF Volume
    <3>5. QED
      BY <3>3, <3>4
  <2>5. Ready(w)
    BY <2>1, <2>4 DEF Ready, UsesOK, Separate, OldOK, RtbfOK, NoneLost, Apart, Kept
  <2>6. CleanBut(w, "ROOT")
    <3>1. \A j \in Kinds : j # k => Image(w, j) = Image(u, j)
      BY <2>3, <2>4 DEF Image, Volume
    <3>2. QED
      BY <2>1, <2>4, <3>1 DEF CleanBut
  <2>7. QED
    BY <2>1, <2>4, <2>5, <2>6 DEF w, SameUpdate
-----------------------------------------------------------------------------
(***************************************************************************)
(* The version on the disk.                                                 *)
(***************************************************************************)
(* Blocks at P with contents val are the version on the disk.                *)
LEMMA VersionFrom == Sheltered => \A P, val : Stands(P, val) => PlaceOf = P /\ OnDisk = val
<1>  SUFFICES ASSUME Sheltered, NEW P, NEW val, Stands(P, val)
              PROVE  PlaceOf = P /\ OnDisk = val
  OBVIOUS
<1>1. \A k \in Kinds : P[k] # Nowhere
  BY PfsCommitAssumption DEF Places, Nowhere, Stands
<1>2. \A k \in Kinds : /\ disk[P[k]].link = [c \in Children[k] |-> P[c]]
                       /\ disk[P[k]].kind = k /\ disk[P[k]].val = val[k]
  <2>  SUFFICES ASSUME NEW k \in Kinds
                PROVE  /\ disk[P[k]].link = [c \in Children[k] |-> P[c]]
                       /\ disk[P[k]].kind = k /\ disk[P[k]].val = val[k]
    OBVIOUS
  <2>1. disk[P[k]] = [kind |-> k, val |-> val[k], link |-> [c \in Children[k] |-> P[c]]]
    BY DEF Stored, Stands
  <2>2. QED
    BY <2>1
<1>3. PlaceOf = P
  BY <1>1, <1>2, PlaceOfIs DEF Stands
<1>4. OnDisk = val
  <2>1. OnDisk = [k \in Kinds |-> ValueOf(IF P[k] = Nowhere THEN Blank ELSE disk[P[k]], k)]
    BY <1>3 DEF OnDisk, BlockAt
  <2>2. \A k \in Kinds : ValueOf(IF P[k] = Nowhere THEN Blank ELSE disk[P[k]], k) = val[k]
    BY <1>1, <1>2 DEF ValueOf
  <2>3. QED
    BY <2>1, <2>2 DEF Stands
<1>5. QED
  BY <1>3, <1>4

LEMMA VersionFromNext ==
  (Sheltered => \A P, val : Stands(P, val) => PlaceOf = P /\ OnDisk = val)'
  BY VersionFrom, PTL

LEMMA VersionNext ==
  ASSUME Sheltered, NEW P, NEW val, Stands(P, val)'
  PROVE  PlaceOf' = P /\ OnDisk' = val /\ VersionOK'
<1>1. PlaceOf' = P /\ OnDisk' = val
  BY VersionFromNext DEF Sheltered
<1>2. QED
  BY <1>1 DEF VersionOK

(* What is written elsewhere leaves the version alone.                       *)
LEMMA VersionStays ==
  ASSUME Sheltered, VersionOK, root' = root, DOMAIN disk' = DOMAIN disk,
         \A k \in Kinds : disk'[PlaceOf[k]] = disk[PlaceOf[k]]
  PROVE  PlaceOf' = PlaceOf /\ OnDisk' = OnDisk /\ VersionOK'
<1>  DEFINE P == PlaceOf
            V == OnDisk
<1>1. Stands(P, V)
  BY DEF VersionOK
<1>2. PICK Q, W : Q = P /\ W = V
  OBVIOUS
<1>3. Stands(Q, W)
  BY <1>1, <1>2
<1>  HIDE DEF P, V
<1>4. Stands(Q, W)'
  BY <1>2, <1>3 DEF Stands, P
<1>5. PlaceOf' = Q /\ OnDisk' = W /\ VersionOK'
  BY <1>4, VersionNext
<1>6. QED
  BY <1>2, <1>5 DEF P, V
-----------------------------------------------------------------------------
(***************************************************************************)
(* The steps.                                                               *)
(***************************************************************************)
LEMMA VolumeForm ==
  ASSUME NEW v \in Volume
  PROVE  v = [up |-> v.up, val |-> v.val, nr |-> v.nr, old |-> v.old, dirty |-> v.dirty,
              free |-> v.free, roving |-> v.roving, rtbf |-> v.rtbf, changed |-> v.changed,
              todo |-> v.todo, updateok |-> v.updateok]
  BY DEF Volume

LEMMA BegunForm ==
  ASSUME NEW v \in Volume, NEW x, NEW b
  PROVE  [v EXCEPT !.todo = x, !.updateok = b]
           = [up |-> v.up, val |-> v.val, nr |-> v.nr, old |-> v.old, dirty |-> v.dirty,
              free |-> v.free, roving |-> v.roving, rtbf |-> v.rtbf, changed |-> v.changed,
              todo |-> x, updateok |-> b]
<1>1. PICK w : w = [v EXCEPT !.todo = x, !.updateok = b]
  OBVIOUS
<1>2. w = [up |-> v.up, val |-> v.val, nr |-> v.nr, old |-> v.old, dirty |-> v.dirty,
           free |-> v.free, roving |-> v.roving, rtbf |-> v.rtbf, changed |-> v.changed,
           todo |-> x, updateok |-> b]
  BY <1>1 DEF Volume
<1>3. QED
  BY <1>1, <1>2

LEMMA EndedForm ==
  ASSUME NEW v \in Volume
  PROVE  [v EXCEPT !.todo = <<>>, !.changed = FALSE]
           = [up |-> v.up, val |-> v.val, nr |-> v.nr, old |-> v.old, dirty |-> v.dirty,
              free |-> v.free, roving |-> v.roving, rtbf |-> v.rtbf, changed |-> FALSE,
              todo |-> <<>>, updateok |-> v.updateok]
<1>1. PICK w : w = [v EXCEPT !.todo = <<>>, !.changed = FALSE]
  OBVIOUS
<1>2. w = [up |-> v.up, val |-> v.val, nr |-> v.nr, old |-> v.old, dirty |-> v.dirty,
           free |-> v.free, roving |-> v.roving, rtbf |-> v.rtbf, changed |-> FALSE,
           todo |-> <<>>, updateok |-> v.updateok]
  BY <1>1 DEF Volume
<1>3. QED
  BY <1>1, <1>2

LEMMA KindsAreSix == ASSUME Sheltered PROVE Cardinality(Kinds) = 6
<1>  DEFINE A == {"DBLK", "ABLK"}
            B == A \cup {"IBLK"}
            C == B \cup {"EXT"}
            D == C \cup {"BMBLK"}
            E == D \cup {"BMIBLK"}
<1>1. IsFiniteSet(A) /\ Cardinality(A) = 2
  <2>1. IsFiniteSet({"DBLK"}) /\ Cardinality({"DBLK"}) = 1
    BY FS_Singleton
  <2>2. /\ IsFiniteSet({"DBLK"} \cup {"ABLK"})
        /\ Cardinality({"DBLK"} \cup {"ABLK"})
             = IF "ABLK" \in {"DBLK"} THEN Cardinality({"DBLK"}) ELSE Cardinality({"DBLK"}) + 1
    BY <2>1, FS_AddElement
  <2>3. A = {"DBLK"} \cup {"ABLK"}
    OBVIOUS
  <2>4. QED
    BY <2>1, <2>2, <2>3
<1>2. IsFiniteSet(B) /\ Cardinality(B) = 3
  BY <1>1, FS_AddElement
<1>3. IsFiniteSet(C) /\ Cardinality(C) = 4
  BY <1>2, FS_AddElement
<1>4. IsFiniteSet(D) /\ Cardinality(D) = 5
  BY <1>3, FS_AddElement
<1>5. IsFiniteSet(E) /\ Cardinality(E) = 6
  BY <1>4, FS_AddElement
<1>6. Kinds = E
  BY KindsAre
<1>7. QED
  BY <1>5, <1>6

LEMMA MountedOK == ASSUME Sheltered, VersionOK PROVE VolOK(Mounted)
<1>1. Mounted \in Volume
  <2>1. /\ PlaceOf \in [Kinds -> Places] /\ OnDisk \in [Kinds -> Steps]
        /\ root.free \in SUBSET Places /\ root.roving \in Nat
    BY DEF VersionOK, Stands
  <2>2. << >> \in Seq(Places) /\ << >> \in Seq(Blocks)
    OBVIOUS
  <2>3. QED
    BY <2>1, <2>2 DEF Mounted, Volume
<1>2. Separate(Mounted)
  <2>1. \A k \in Kinds : disk[PlaceOf[k]].kind = k
    <3>  SUFFICES ASSUME NEW k \in Kinds PROVE disk[PlaceOf[k]].kind = k
      OBVIOUS
    <3>1. disk[PlaceOf[k]] = [kind |-> k, val |-> OnDisk[k], link |-> [c \in Children[k] |-> PlaceOf[c]]]
      BY DEF VersionOK, Stands, Stored
    <3>2. QED
      BY <3>1
  <2>2. QED
    BY <2>1 DEF Mounted, Separate, VersionOK, Stands
<1>3. OldOK(Mounted) /\ RtbfOK(Mounted) /\ Apart(Mounted) /\ TodoOK(Mounted) /\ Kept(Mounted)
  BY PfsCommitAssumption DEF Mounted, OldOK, RtbfOK, Apart, TodoOK, Kept, VersionOK, Stands
<1>4. NoneLost(Mounted)
  BY DEF Mounted, NoneLost, VersionOK, Stands
<1>5. CleanBut(Mounted, "ROOT")
  BY DEF Mounted, CleanBut, Image, VersionOK, Stands, Stored
<1>6. QED
  BY <1>1, <1>2, <1>3, <1>4, <1>5 DEF VolOK, UsesOK

LEMMA CommitInit == ASSUME Sheltered PROVE Init => CommitInv
<1>  SUFFICES ASSUME Init PROVE CommitInv
  OBVIOUS
<1>  DEFINE P == [k \in Kinds |-> FirstPlace(k)]
            V == [k \in Kinds |-> 0]
<1>1. LastReserved \in Nat /\ LastReserved >= 12 /\ MaxUpdates \in Nat
  BY KindsAreSix, PfsCommitAssumption DEF Sheltered
<1>2. /\ FirstPlace("DBLK") = 1 /\ FirstPlace("ABLK") = 2 /\ FirstPlace("IBLK") = 3
      /\ FirstPlace("EXT") = 4 /\ FirstPlace("BMBLK") = 5 /\ FirstPlace("BMIBLK") = 6
  BY OrderIs DEF FirstPlace
<1>3. \A k \in Kinds : P[k] \in 1 .. 6 /\ Order[P[k]] = k
  BY <1>2, KindsAre, OrderIs
<1>4. Len(Order) = 7
  BY OrderIs
<1>5. \A p \in 1 .. 6 : \E k \in Kinds : p = P[k]
  BY <1>2, KindsAre
<1>6. P \in [Kinds -> Places] /\ V \in [Kinds -> Steps]
  BY <1>1, <1>3 DEF Places, Steps
<1>7. \A k \in Kinds : disk[P[k]] = Stored(P, V, k)
  <2>  SUFFICES ASSUME NEW k \in Kinds PROVE disk[P[k]] = Stored(P, V, k)
    OBVIOUS
  <2>1. disk[P[k]] = [kind |-> k, val |-> 0, link |-> [c \in Children[k] |-> FirstPlace(c)]]
    BY <1>3, <1>4, <1>6 DEF Init
  <2>2. [c \in Children[k] |-> FirstPlace(c)] = [c \in Children[k] |-> P[c]]
    BY ChildrenAre DEF Blocks
  <2>3. QED
    BY <2>1, <2>2 DEF Stored
<1>8. root.link = [c \in Children["ROOT"] |-> P[c]]
  BY ChildrenAre DEF Blocks, Init
<1>9. root.free = {p \in Places : \A k \in Kinds : p # P[k]}
  <2>1. \A p \in Places : p >= 7 <=> p \notin 1 .. 6
    BY DEF Places
  <2>2. \A p \in Places : p >= 7 <=> \A k \in Kinds : p # P[k]
    BY <1>3, <1>5, <2>1
  <2>3. QED
    BY <1>4, <2>2 DEF Init
<1>10. Stands(P, V)
  <2> HIDE DEF P, V
  <2> QED BY <1>6, <1>7, <1>8, <1>9 DEF Init, Stands
<1>11. VersionOK
  <2> HIDE DEF P, V
  <2> QED BY <1>10, VersionFrom DEF VersionOK
<1>12. VolOK(vol) /\ vol.updateok /\ failed = {}
  BY <1>11, MountedOK DEF Init, Mounted
<1>13. QED
  BY <1>1, <1>11, <1>12 DEF Init, CommitInv, VolumeOK

(* In the next state the version is the same and the volume is v.            *)
LEMMA VolumeNext ==
  ASSUME PlaceOf' = PlaceOf, disk' = disk, NEW v, vol' = v, VolOK(v)
  PROVE  VolOK(vol)'
  BY SMTT(60) DEF VolOK, UsesOK, Apart, Kept, CleanBut, Separate, OldOK, RtbfOK, NoneLost, TodoOK, InTodo, Image

LEMMA IdleOK ==
  ASSUME Sheltered, CommitInv, Idle
  PROVE  /\ vol.todo = <<>> /\ vol.updateok /\ failed = {} /\ VolOK(vol) /\ VersionOK
         /\ updates \in 0 .. MaxUpdates /\ Running
  BY DEF Sheltered, CommitInv, Idle, VolumeOK

LEMMA BusyOK ==
  ASSUME CommitInv, Running, vol.todo # <<>>
  PROVE  /\ VolOK(vol) /\ VersionOK /\ failed \subseteq {"block"} /\ (vol.updateok <=> failed = {})
         /\ updates \in 0 .. MaxUpdates
  BY DEF CommitInv, VolumeOK

LEMMA ChangeStep ==
  ASSUME Sheltered, CommitInv, NEW k \in Kinds, Change(k)
  PROVE  CommitInv' /\ OnDisk' = OnDisk
<1>1. /\ vol.todo = <<>> /\ vol.updateok /\ failed = {} /\ VolOK(vol) /\ VersionOK
      /\ updates \in 0 .. MaxUpdates
  BY IdleOK DEF Change
<1>2. PlaceOf' = PlaceOf /\ OnDisk' = OnDisk /\ VersionOK'
  BY <1>1, VersionStays DEF Change
<1>  DEFINE w == Changed(vol, k)
<1>3. Ready(w) /\ CleanBut(w, "ROOT") /\ SameUpdate(w, vol)
  BY <1>1, ChangedReady DEF VolOK, Ready
<1>  HIDE DEF w
<1>4. VolOK(w)
  BY <1>1, <1>3 DEF VolOK, Ready, SameUpdate, TodoOK
<1>5. VolOK(vol)'
  BY <1>2, <1>4, VolumeNext DEF Change, w
<1>6. vol'.updateok /\ failed' = {}
  BY <1>1, <1>3 DEF Change, SameUpdate, w
<1>7. QED
  BY <1>1, <1>2, <1>5, <1>6 DEF CommitInv, VolumeOK, Change

LEMMA BeginUpdateStep ==
  ASSUME Sheltered, CommitInv, NEW frees \in BOOLEAN, BeginUpdate(frees)
  PROVE  CommitInv' /\ OnDisk' = OnDisk
<1>1. /\ vol.todo = <<>> /\ vol.updateok /\ failed = {} /\ VolOK(vol) /\ VersionOK
      /\ updates \in 0 .. MaxUpdates
  BY IdleOK DEF BeginUpdate
<1>2. PlaceOf' = PlaceOf /\ OnDisk' = OnDisk /\ VersionOK'
  BY <1>1, VersionStays DEF BeginUpdate
<1>  DEFINE w == Changed(vol, "EXT")
            u == IF frees THEN Changed(w, "BMBLK") ELSE w
            t == [u EXCEPT !.todo = Order, !.updateok = TRUE]
<1>3. Ready(w) /\ CleanBut(w, "ROOT")
  BY <1>1, ChangedReady, KindsAre DEF VolOK, Ready
<1>4. Ready(u) /\ CleanBut(u, "ROOT")
  <2> HIDE DEF w
  <2> QED BY <1>1, <1>3, ChangedReady, KindsAre
<1>5. vol' = t
  BY DEF BeginUpdate
<1>  HIDE DEF u
<1>6. u \in Volume
  BY <1>4 DEF Ready, UsesOK
<1>7. t = [up |-> u.up, val |-> u.val, nr |-> u.nr, old |-> u.old, dirty |-> u.dirty,
           free |-> u.free, roving |-> u.roving, rtbf |-> u.rtbf, changed |-> u.changed,
           todo |-> Order, updateok |-> TRUE]
  BY ZenonT(60), <1>6, BegunForm
<1>  HIDE DEF t
<1>8. Order \in Seq(Blocks) /\ Order # <<>> /\ Order[Len(Order)] = "ROOT"
  <2>1. /\ "DBLK" \in Blocks /\ "ABLK" \in Blocks /\ "IBLK" \in Blocks /\ "EXT" \in Blocks
        /\ "BMBLK" \in Blocks /\ "BMIBLK" \in Blocks /\ "ROOT" \in Blocks
    BY KindsAre DEF Blocks
  <2>2. <<"DBLK", "ABLK", "IBLK", "EXT", "BMBLK", "BMIBLK", "ROOT">> \in Seq(Blocks)
    <3> HIDE DEF Blocks
    <3> QED BY <2>1
  <2>3. Len(Order) = 7 /\ Order[7] = "ROOT"
    BY OrderIs
  <2>4. Order # <<>>
    BY <2>3
  <2>5. QED
    BY <2>2, <2>3, <2>4, OrderIs
<1>9. \A k \in Kinds : \E i \in 1 .. Len(Order) : Order[i] = k
  <2>1. Len(Order) = 7
    BY OrderIs
  <2>2. /\ Order[1] = "DBLK" /\ Order[2] = "ABLK" /\ Order[3] = "IBLK"
        /\ Order[4] = "EXT" /\ Order[5] = "BMBLK" /\ Order[6] = "BMIBLK"
    BY OrderIs
  <2>3. QED
    BY <2>1, <2>2, KindsAre
<1>10. UsesOK(t)
  <2>1. t \in Volume
    BY <1>6, <1>7, <1>8 DEF Volume
  <2>2. QED
    BY <1>4, <1>7, <2>1 DEF Ready, UsesOK, Separate, OldOK, RtbfOK, NoneLost, Apart
<1>11. CleanBut(t, "ROOT")
  BY <1>4, <1>7 DEF CleanBut, Image
<1>12. TodoOK(t)
  BY <1>7, <1>8, <1>9, KindsAre DEF TodoOK, InTodo
<1>13. VolOK(t)
  BY <1>7, <1>8, <1>10, <1>11, <1>12 DEF VolOK
<1>14. VolOK(vol)'
  BY <1>2, <1>5, <1>13, VolumeNext DEF BeginUpdate
<1>15. vol'.updateok /\ failed' = {}
  BY <1>1, <1>5, <1>7 DEF BeginUpdate
<1>16. QED
  BY <1>1, <1>2, <1>14, <1>15, PfsCommitAssumption DEF CommitInv, VolumeOK, BeginUpdate

(* The end of an update, whether the root is written or not.                 *)
LEMMA EndsStep ==
  ASSUME CommitInv, Ends
  PROVE  /\ VolOK(vol) /\ VersionOK /\ vol \in Volume /\ vol' \in Volume
         /\ failed \subseteq {"block"} /\ (vol.updateok <=> failed = {}) /\ updates \in 0 .. MaxUpdates
         /\ vol' = [up |-> vol.up, val |-> vol.val, nr |-> vol.nr, old |-> vol.old,
                     dirty |-> vol.dirty, free |-> vol.free, roving |-> vol.roving,
                     rtbf |-> vol.rtbf, changed |-> FALSE, todo |-> <<>>, updateok |-> vol.updateok]
         /\ Running /\ Running' /\ vol.todo = <<"ROOT">>
         /\ (Separate(vol) /\ OldOK(vol) /\ RtbfOK(vol) /\ NoneLost(vol) /\ TodoOK(vol))'
<1>1. /\ VolOK(vol) /\ VersionOK /\ vol \in Volume /\ vol.todo = <<"ROOT">> /\ Running
      /\ failed \subseteq {"block"} /\ (vol.updateok <=> failed = {}) /\ updates \in 0 .. MaxUpdates
  <2>1. <<"ROOT">> # <<>>
    OBVIOUS
  <2>2. QED
    BY ZenonT(60), <2>1, BusyOK DEF Ends, VolOK, UsesOK
<1>2. vol' = [up |-> vol.up, val |-> vol.val, nr |-> vol.nr, old |-> vol.old, dirty |-> vol.dirty,
              free |-> vol.free, roving |-> vol.roving, rtbf |-> vol.rtbf, changed |-> FALSE,
              todo |-> <<>>, updateok |-> vol.updateok]
  BY ZenonT(60), <1>1, EndedForm DEF Ends
<1>3. vol' \in Volume
  <2>1. << >> \in Seq(Blocks)
    OBVIOUS
  <2>2. QED
    BY <1>1, <1>2, <2>1 DEF Volume
<1>4. (Separate(vol) /\ OldOK(vol) /\ RtbfOK(vol) /\ NoneLost(vol) /\ TodoOK(vol))'
  BY <1>1, <1>2 DEF VolOK, UsesOK, Separate, OldOK, RtbfOK, NoneLost, TodoOK
<1>5. Running'
  <2>1. vol'.up = TRUE
    BY <1>1, <1>2 DEF Volume
  <2>2. QED
    BY <2>1 DEF Running, Down
<1>6. QED
  BY <1>1, <1>2, <1>3, <1>4, <1>5

LEMMA RootFailsStep ==
  ASSUME Sheltered, CommitInv, RootFails
  PROVE  CommitInv' /\ OnDisk' = OnDisk
<1>1. /\ VolOK(vol) /\ VersionOK /\ updates \in 0 .. MaxUpdates
      /\ vol' = [up |-> vol.up, val |-> vol.val, nr |-> vol.nr, old |-> vol.old, dirty |-> vol.dirty,
                  free |-> vol.free, roving |-> vol.roving, rtbf |-> vol.rtbf, changed |-> FALSE,
                  todo |-> <<>>, updateok |-> vol.updateok]
      /\ vol' \in Volume /\ Running'
      /\ (Separate(vol) /\ OldOK(vol) /\ RtbfOK(vol) /\ NoneLost(vol))'
  BY EndsStep DEF RootFails
<1>2. PlaceOf' = PlaceOf /\ OnDisk' = OnDisk /\ VersionOK'
  BY <1>1, VersionStays DEF RootFails
<1>3. Apart(vol)'
  BY <1>1, <1>2 DEF VolOK, UsesOK, Apart
<1>4. "root" \in failed' /\ updates' = updates /\ vol'.todo = <<>>
  BY <1>1 DEF RootFails
<1>5. UsesOK(vol)'
  BY <1>1, <1>3 DEF UsesOK
<1>6. QED
  BY <1>1, <1>2, <1>4, <1>5 DEF CommitInv, VolumeOK

LEMMA WriteRootStep ==
  ASSUME Sheltered, CommitInv, WriteRoot
  PROVE  CommitInv' /\ (IF vol.updateok THEN OnDisk' = vol.val ELSE OnDisk' = OnDisk)
<1>  DEFINE t == [up |-> vol.up, val |-> vol.val, nr |-> vol.nr, old |-> vol.old, dirty |-> vol.dirty,
                  free |-> vol.free, roving |-> vol.roving, rtbf |-> vol.rtbf, changed |-> FALSE,
                  todo |-> <<>>, updateok |-> vol.updateok]
<1>1. /\ VolOK(vol) /\ VersionOK /\ vol \in Volume /\ vol.todo = <<"ROOT">>
      /\ Running /\ Running' /\ updates \in 0 .. MaxUpdates
  BY EndsStep DEF WriteRoot
<1>2. PICK u : u = t
  OBVIOUS
<1>3. vol' = u /\ disk' = disk /\ updates' = updates
  BY <1>2, EndsStep DEF WriteRoot
<1>4. u \in Volume
  BY <1>3, EndsStep DEF WriteRoot
<1>5. Separate(u) /\ OldOK(u) /\ RtbfOK(u) /\ NoneLost(u) /\ TodoOK(u)
  BY <1>1, <1>2 DEF VolOK, UsesOK, Separate, OldOK, RtbfOK, NoneLost, TodoOK
<1>6. CleanBut(u, "ROOT")
  BY <1>1, <1>2 DEF VolOK, CleanBut, Image
<1>61. failed' \subseteq {"block"} /\ (vol'.updateok <=> failed' = {})
  BY EndsStep DEF WriteRoot
<1>7. CASE ~vol.updateok
  <2>1. PlaceOf' = PlaceOf /\ OnDisk' = OnDisk /\ VersionOK'
    BY <1>1, <1>7, VersionStays DEF WriteRoot
  <2>2. VolOK(u)
    BY <1>1, <1>2, <1>4, <1>5, <1>6, <1>7 DEF VolOK, UsesOK, Apart
  <2>3. VolOK(vol)'
    BY <1>3, <2>1, <2>2, VolumeNext
  <2>4. QED
    BY <1>1, <1>3, <1>7, <1>61, <2>1, <2>3 DEF CommitInv, VolumeOK
<1>8. CASE vol.updateok
  <2>1. \A k \in Kinds : ~vol.dirty[k]
    BY <1>1, <1>8, ParentIn DEF VolOK, TodoOK, InTodo
  <2>2. vol.rtbf = <<>>
    BY <1>1, <1>8 DEF VolOK, TodoOK, InTodo
  <2>3. \A k \in Kinds : disk[vol.nr[k]] = Stored(vol.nr, vol.val, k)
    BY <1>1, <2>1, ParentIn DEF VolOK, CleanBut, Image, Stored
  <2>4. /\ root'.free = vol.free /\ root'.roving = vol.roving
        /\ root'.link = [c \in Children["ROOT"] |-> vol.nr[c]]
    BY <1>8 DEF WriteRoot, RootImage
  <2>5. vol.free = {p \in Places : \A k \in Kinds : p # vol.nr[k]}
    <3>1. \A k \in Kinds : vol.old[k] = Nowhere
      BY <1>1, <2>1 DEF VolOK, UsesOK, OldOK
    <3>2. \A p \in Places : p # Nowhere
      BY PfsCommitAssumption DEF Places, Nowhere
    <3>3. \A p \in Places : p \in vol.free \/ \E k \in Kinds : p = vol.nr[k]
      BY <1>1, <2>2, <3>1, <3>2 DEF VolOK, UsesOK, NoneLost
    <3>4. QED
      BY <1>1, <3>3 DEF VolOK, UsesOK, Separate, Volume
  <2>6. PICK Q, W : Q = vol.nr /\ W = vol.val
    OBVIOUS
  <2>7. Stands(Q, W)'
    <3>1. /\ vol.nr \in [Kinds -> Places] /\ vol.val \in [Kinds -> Steps] /\ vol.roving \in Nat
      BY <1>1 DEF Volume
    <3>2. DOMAIN disk = Places
      BY <1>1 DEF VersionOK, Stands
    <3>3. QED
      BY <1>3, <2>3, <2>4, <2>5, <2>6, <3>1, <3>2 DEF Stands
  <2>8. PlaceOf' = Q /\ OnDisk' = W /\ VersionOK'
    BY <2>7, VersionNext
  <2>9. VolOK(vol)'
    <3>1. Apart(vol)'
      BY <1>2, <1>3, <2>1 DEF Apart
    <3>2. Kept(vol)'
      BY <1>1, <1>2, <1>3, <2>6, <2>8 DEF Kept, VolOK, UsesOK, Separate
    <3>3. CleanBut(vol, "ROOT")'
      BY <1>3, <1>6 DEF CleanBut, Image
    <3>4. Separate(vol)' /\ OldOK(vol)' /\ RtbfOK(vol)' /\ NoneLost(vol)'
      BY <1>3, <1>5 DEF Separate, OldOK, RtbfOK, NoneLost
    <3>5. TodoOK(vol)'
      BY <1>3, <1>5 DEF TodoOK, InTodo
    <3>6. QED
      BY <1>3, <1>4, <3>1, <3>2, <3>3, <3>4, <3>5 DEF VolOK, UsesOK
  <2>10. QED
    BY <1>1, <1>3, <1>8, <1>61, <2>6, <2>8, <2>9 DEF CommitInv, VolumeOK
<1>9. QED
  BY <1>7, <1>8

(* A block that is written where the version is not leaves the other blocks  *)
(* of the program alone as well.                                            *)
LEMMA WritingDirty ==
  ASSUME Sheltered, VersionOK, VolOK(vol), NEW k \in Kinds, vol.dirty[k], root' = root,
         disk' = [disk EXCEPT ![vol.nr[k]] = Image(vol, k)]
  PROVE  /\ PlaceOf' = PlaceOf /\ OnDisk' = OnDisk /\ VersionOK'
         /\ disk'[vol.nr[k]] = Image(vol, k)
         /\ \A j \in Kinds : j # k => disk'[vol.nr[j]] = disk[vol.nr[j]]
<1>1. DOMAIN disk = Places /\ vol.nr \in [Kinds -> Places]
  BY DEF VersionOK, Stands, VolOK, UsesOK, Volume
<1>2. \A j \in Kinds : disk'[PlaceOf[j]] = disk[PlaceOf[j]]
  BY <1>1 DEF VolOK, UsesOK, Apart
<1>3. DOMAIN disk' = DOMAIN disk
  BY <1>1
<1>4. PlaceOf' = PlaceOf /\ OnDisk' = OnDisk /\ VersionOK'
  BY <1>2, <1>3, VersionStays
<1>5. /\ disk'[vol.nr[k]] = Image(vol, k)
      /\ \A j \in Kinds : j # k => disk'[vol.nr[j]] = disk[vol.nr[j]]
  BY SMTT(60), <1>1 DEF VolOK, UsesOK, Separate
<1>6. QED
  BY <1>4, <1>5

(* What the cache drops keeps its place, and its old one is to be freed.     *)
LEMMA DroppedUses ==
  ASSUME Sheltered, CommitInv, NEW k \in Kinds, Evicts(k), PlaceOf' = PlaceOf
  PROVE  /\ (UsesOK(vol) /\ TodoOK(vol) /\ Kept(vol))' /\ vol'.todo = <<>> /\ vol'.updateok
         /\ Running' /\ vol'.dirty = [vol.dirty EXCEPT ![k] = FALSE]
         /\ \A j \in Kinds : Image(vol, j)' = Image(vol, j)
         /\ vol'.nr = vol.nr
<1>1. /\ vol.todo = <<>> /\ vol.updateok /\ VolOK(vol) /\ VersionOK
      /\ vol.dirty[k] /\ Len(vol.rtbf) < MaxEvictions /\ vol \in Volume
  BY IdleOK DEF Evicts, VolOK, UsesOK
<1>  DEFINE late == IF vol.old[k] = Nowhere THEN vol.rtbf ELSE Append(vol.rtbf, vol.old[k])
<1>3. /\ vol.old \in [Kinds -> Places \cup {Nowhere}] /\ vol.dirty \in [Kinds -> BOOLEAN]
      /\ vol.rtbf \in Seq(Places) /\ vol.nr \in [Kinds -> Places]
  BY <1>1 DEF Volume
<1>4. late \in Seq(Places)
  BY <1>3
<1>5. vol' = [up |-> vol.up, val |-> vol.val, nr |-> vol.nr, old |-> [vol.old EXCEPT ![k] = Nowhere],
              dirty |-> [vol.dirty EXCEPT ![k] = FALSE], free |-> vol.free, roving |-> vol.roving,
              rtbf |-> late, changed |-> vol.changed, todo |-> vol.todo, updateok |-> vol.updateok]
  BY <1>1 DEF Evicts, Dropped, Volume
<1>6. vol' \in Volume
  BY <1>1, <1>3, <1>4, <1>5 DEF Volume
<1>7. /\ Len(late) <= MaxEvictions
      /\ \A i \in 1 .. Len(late) :
           \/ i \in 1 .. Len(vol.rtbf) /\ late[i] = vol.rtbf[i]
           \/ vol.old[k] # Nowhere /\ i = Len(vol.rtbf) + 1 /\ late[i] = vol.old[k]
      /\ \A i \in 1 .. Len(vol.rtbf) : i \in 1 .. Len(late) /\ late[i] = vol.rtbf[i]
      /\ vol.old[k] # Nowhere => Len(vol.rtbf) + 1 \in 1 .. Len(late) /\ late[Len(vol.rtbf) + 1] = vol.old[k]
  BY <1>1, <1>3, PfsCommitAssumption
<1>  HIDE DEF late
<1>8. Separate(vol)' /\ OldOK(vol)'
  BY <1>1, <1>3, <1>5 DEF VolOK, UsesOK, Separate, OldOK
<1>9. RtbfOK(vol)'
  <2>1. \A i \in 1 .. Len(late) :
          /\ late[i] \notin vol.free
          /\ \A j \in Kinds : late[i] # vol.nr[j]
    BY <1>1, <1>7 DEF VolOK, UsesOK, RtbfOK, OldOK
  <2>2. \A i \in 1 .. Len(late), j \in Kinds : late[i] # [vol.old EXCEPT ![k] = Nowhere][j]
    <3>1. \A i \in 1 .. Len(late) : late[i] # Nowhere
      BY <1>4, PfsCommitAssumption DEF Places, Nowhere
    <3>2. \A i \in 1 .. Len(late), j \in Kinds \ {k} : late[i] # vol.old[j]
      BY <1>1, <1>3, <1>7 DEF VolOK, UsesOK, RtbfOK, OldOK
    <3>3. QED
      BY <1>3, <3>1, <3>2
  <2>3. \A i, j \in 1 .. Len(late) : j # i => late[i] # late[j]
    BY <1>1, <1>7 DEF VolOK, UsesOK, RtbfOK
  <2>4. QED
    BY <1>5, <1>7, <2>1, <2>2, <2>3 DEF RtbfOK
<1>10. NoneLost(vol)'
  <2>  SUFFICES ASSUME NEW p \in Places
                PROVE  \/ p \in vol.free
                       \/ \E i \in 1 .. Len(late) : p = late[i]
                       \/ \E j \in Kinds : p = vol.nr[j] \/ p = [vol.old EXCEPT ![k] = Nowhere][j]
    BY <1>5 DEF NoneLost
  <2>1. p # Nowhere
    BY PfsCommitAssumption DEF Places, Nowhere
  <2>2. CASE p = vol.old[k]
    BY <1>7, <2>1, <2>2
  <2>3. CASE \E i \in 1 .. Len(vol.rtbf) : p = vol.rtbf[i]
    BY <1>7, <2>3
  <2>4. CASE p \in vol.free \/ \E j \in Kinds : p = vol.nr[j] \/ (j # k /\ p = vol.old[j])
    BY <1>3, <2>4
  <2>5. QED
    BY <1>1, <2>2, <2>3, <2>4 DEF VolOK, UsesOK, NoneLost
<1>11. Apart(vol)' /\ Kept(vol)' /\ TodoOK(vol)'
  BY <1>1, <1>3, <1>5 DEF VolOK, UsesOK, Apart, Kept, TodoOK
<1>12. Running'
  <2>1. vol'.up = TRUE
    BY <1>6 DEF Volume
  <2>2. QED
    BY <2>1 DEF Running, Down
<1>13. \A j \in Kinds : Image(vol, j)' = Image(vol, j)
  BY <1>5 DEF Image
<1>14. vol'.todo = <<>> /\ vol'.updateok /\ vol'.dirty = [vol.dirty EXCEPT ![k] = FALSE] /\ vol'.nr = vol.nr
  BY <1>1, <1>5
<1>15. QED
  BY <1>6, <1>8, <1>9, <1>10, <1>11, <1>12, <1>13, <1>14 DEF UsesOK

LEMMA EvictStep ==
  ASSUME Sheltered, CommitInv, NEW k \in Kinds, Evict(k)
  PROVE  CommitInv' /\ OnDisk' = OnDisk
<1>1. /\ VolOK(vol) /\ VersionOK /\ vol.dirty[k] /\ failed = {} /\ updates \in 0 .. MaxUpdates
  BY IdleOK DEF Evict, Evicts
<1>2. /\ PlaceOf' = PlaceOf /\ OnDisk' = OnDisk /\ VersionOK' /\ disk'[vol.nr[k]] = Image(vol, k)
      /\ \A j \in Kinds : j # k => disk'[vol.nr[j]] = disk[vol.nr[j]]
  BY <1>1, WritingDirty DEF Evict
<1>3. /\ (UsesOK(vol) /\ TodoOK(vol) /\ Kept(vol))' /\ vol'.updateok /\ Running'
      /\ vol'.dirty = [vol.dirty EXCEPT ![k] = FALSE] /\ vol'.nr = vol.nr
      /\ \A j \in Kinds : Image(vol, j)' = Image(vol, j)
  BY <1>2, DroppedUses DEF Evict
<1>4. CleanBut(vol, "ROOT")'
  <2>1. vol.dirty \in [Kinds -> BOOLEAN]
    BY <1>1 DEF VolOK, UsesOK, Volume
  <2>2. QED
    BY ZenonT(60), <1>1, <1>2, <1>3, <2>1 DEF VolOK, CleanBut
<1>5. VolOK(vol)'
  BY <1>3, <1>4 DEF VolOK
<1>6. failed' = {} /\ updates' = updates
  BY <1>1 DEF Evict
<1>7. QED
  BY <1>1, <1>2, <1>3, <1>5, <1>6 DEF CommitInv, VolumeOK

LEMMA EvictFailsStep ==
  ASSUME Sheltered, CommitInv, NEW k \in Kinds, EvictFails(k)
  PROVE  CommitInv' /\ OnDisk' = OnDisk
<1>1. VersionOK /\ updates \in 0 .. MaxUpdates /\ Evicts(k)
  BY IdleOK DEF EvictFails, Evicts
<1>2. PlaceOf' = PlaceOf /\ OnDisk' = OnDisk /\ VersionOK'
  BY <1>1, VersionStays DEF EvictFails
<1>3. UsesOK(vol)' /\ vol'.todo = <<>> /\ Running'
  BY <1>1, <1>2, DroppedUses
<1>4. "cache" \in failed' /\ updates' = updates
  BY DEF EvictFails
<1>5. QED
  BY <1>1, <1>2, <1>3, <1>4 DEF CommitInv, VolumeOK

(* The places that writing a block makes free: none of them is in use.       *)
LEMMA Freed ==
  ASSUME NEW v \in Volume, NEW k \in Kinds
  PROVE  LET w == FreeReservedBlock(v, v.old[k]) IN
         /\ w.free = v.free \cup ({v.old[k]} \ {Nowhere})
         /\ w = [up |-> v.up, val |-> v.val, nr |-> v.nr, old |-> v.old, dirty |-> v.dirty,
                 free |-> w.free, roving |-> v.roving, rtbf |-> v.rtbf, changed |-> v.changed,
                 todo |-> v.todo, updateok |-> v.updateok]
         /\ w \in Volume
<1>1. CASE v.old[k] = Nowhere
  BY <1>1, VolumeForm DEF FreeReservedBlock
<1>2. CASE v.old[k] # Nowhere
  <2>1. PICK w : w = [v EXCEPT !.free = @ \cup {v.old[k]}]
    OBVIOUS
  <2>2. w = [up |-> v.up, val |-> v.val, nr |-> v.nr, old |-> v.old, dirty |-> v.dirty,
             free |-> v.free \cup {v.old[k]}, roving |-> v.roving, rtbf |-> v.rtbf,
             changed |-> v.changed, todo |-> v.todo, updateok |-> v.updateok]
    BY <2>1 DEF Volume
  <2>3. v.free \cup {v.old[k]} \subseteq Places
    BY <1>2 DEF Volume
  <2>4. w \in Volume
    BY <2>2, <2>3 DEF Volume
  <2>5. w = FreeReservedBlock(v, v.old[k])
    BY SMTT(60), <1>2, <2>1 DEF FreeReservedBlock
  <2>6. QED
    BY <1>2, <2>2, <2>4, <2>5
<1>3. QED
  BY <1>1, <1>2

LEMMA WriteBlockStep ==
  ASSUME Sheltered, CommitInv, NEW k \in Kinds, WriteBlock(k)
  PROVE  CommitInv' /\ OnDisk' = OnDisk
<1>  DEFINE v == IF vol.dirty[k] THEN Written(vol, k) ELSE vol
            late == IF k = "EXT" THEN {vol.rtbf[i] : i \in 1 .. Len(vol.rtbf)} ELSE {}
            now == IF vol.dirty[k] THEN {vol.old[k]} \ {Nowhere} ELSE {}
            rest == IF k = "EXT" THEN <<>> ELSE vol.rtbf
<1>1. /\ Running /\ vol.todo # <<>> /\ k = Head(vol.todo) /\ VolOK(vol) /\ VersionOK
      /\ vol \in Volume /\ vol.updateok
  <2>1. Running /\ vol.todo # <<>> /\ k = Head(vol.todo) /\ VolOK(vol) /\ VersionOK
    BY BusyOK DEF WriteBlock
  <2>2. vol \in Volume /\ TodoOK(vol)
    BY <2>1 DEF VolOK, UsesOK
  <2>3. k # "ROOT"
    BY ParentIn
  <2>4. vol.updateok
    <3>1. ~vol.updateok => vol.todo = <<"ROOT">>
      BY <2>1, <2>2 DEF TodoOK
    <3>2. vol.todo = <<"ROOT">> => Head(vol.todo) = "ROOT"
      OBVIOUS
    <3>3. QED
      BY <2>1, <2>3, <3>1, <3>2
  <2>5. QED
    BY SMTT(60), <2>1, <2>2, <2>4
<1>2. /\ PlaceOf' = PlaceOf /\ OnDisk' = OnDisk /\ VersionOK'
      /\ \A j \in Kinds : ~vol.dirty[j] \/ j = k => disk'[vol.nr[j]] = Image(vol, j)
  <2>1. CASE vol.dirty[k]
    <3>1. disk' = [disk EXCEPT ![vol.nr[k]] = Image(vol, k)] /\ root' = root
      BY SMTT(60), <2>1 DEF WriteBlock
    <3>2. /\ PlaceOf' = PlaceOf /\ OnDisk' = OnDisk /\ VersionOK'
          /\ disk'[vol.nr[k]] = Image(vol, k)
          /\ \A j \in Kinds : j # k => disk'[vol.nr[j]] = disk[vol.nr[j]]
      BY <1>1, <2>1, <3>1, WritingDirty
    <3>3. QED
      BY <1>1, <3>2, ParentIn DEF VolOK, CleanBut
  <2>2. CASE ~vol.dirty[k]
    BY <1>1, <2>2, VersionStays, ParentIn DEF WriteBlock, VolOK, CleanBut
  <2>3. QED
    BY <2>1, <2>2
<1>3. /\ vol.old \in [Kinds -> Places \cup {Nowhere}] /\ vol.dirty \in [Kinds -> BOOLEAN]
      /\ vol.rtbf \in Seq(Places) /\ vol.nr \in [Kinds -> Places] /\ vol.todo \in Seq(Blocks)
      /\ vol.free \subseteq Places
  BY <1>1 DEF Volume
<1>4. ~vol.dirty[k] => vol.old[k] = Nowhere
  BY <1>1 DEF VolOK, UsesOK, OldOK
<1>5. v = [up |-> vol.up, val |-> vol.val, nr |-> vol.nr, old |-> [vol.old EXCEPT ![k] = Nowhere],
           dirty |-> [vol.dirty EXCEPT ![k] = FALSE], free |-> vol.free \cup now, roving |-> vol.roving,
           rtbf |-> vol.rtbf, changed |-> vol.changed, todo |-> vol.todo, updateok |-> vol.updateok]
  <2>1. CASE vol.dirty[k]
    <3>  DEFINE w == FreeReservedBlock(vol, vol.old[k])
    <3>1. /\ w.free = vol.free \cup now
          /\ w = [up |-> vol.up, val |-> vol.val, nr |-> vol.nr, old |-> vol.old, dirty |-> vol.dirty,
                  free |-> w.free, roving |-> vol.roving, rtbf |-> vol.rtbf, changed |-> vol.changed,
                  todo |-> vol.todo, updateok |-> vol.updateok]
      BY ZenonT(60), <1>1, <2>1, Freed
    <3>  HIDE DEF now
    <3>2. v = [w EXCEPT !.old[k] = Nowhere, !.dirty[k] = FALSE]
      BY <2>1 DEF Written
    <3>  HIDE DEF w, v
    <3>3. w = [up |-> vol.up, val |-> vol.val, nr |-> vol.nr, old |-> vol.old, dirty |-> vol.dirty,
               free |-> vol.free \cup now, roving |-> vol.roving, rtbf |-> vol.rtbf,
               changed |-> vol.changed, todo |-> vol.todo, updateok |-> vol.updateok]
      BY <3>1
    <3>4. QED
      BY ZenonT(60), <3>2, <3>3
  <2>2. CASE ~vol.dirty[k]
    <3>1. vol.old = [vol.old EXCEPT ![k] = Nowhere] /\ vol.dirty = [vol.dirty EXCEPT ![k] = FALSE]
      BY <1>3, <1>4, <2>2
    <3>2. now = {} /\ v = vol
      BY <2>2
    <3>  HIDE DEF now, v
    <3>3. vol.free \cup now = vol.free
      BY <3>2
    <3>4. QED
      BY <1>1, <3>1, <3>2, <3>3, VolumeForm
  <2>3. QED
    BY <2>1, <2>2
<1>6. vol' = [up |-> vol.up, val |-> vol.val, nr |-> vol.nr, old |-> [vol.old EXCEPT ![k] = Nowhere],
              dirty |-> [vol.dirty EXCEPT ![k] = FALSE], free |-> vol.free \cup now \cup late,
              roving |-> vol.roving, rtbf |-> rest, changed |-> vol.changed,
              todo |-> Tail(vol.todo), updateok |-> vol.updateok]
  <2>1. vol' = [RtbfCommitted(v, k) EXCEPT !.todo = Tail(@)]
    BY DEF WriteBlock
  <2>  HIDE DEF v, now
  <2>2. CASE k = "EXT"
    <3>1. Range(v.rtbf) = late
      BY <1>1, <1>5, <2>2, RtbfIs
    <3>  HIDE DEF late
    <3>2. vol' = [[v EXCEPT !.free = @ \cup late, !.rtbf = <<>>] EXCEPT !.todo = Tail(@)]
      BY <2>1, <2>2, <3>1 DEF RtbfCommitted
    <3>3. QED
      BY ZenonT(60), <1>5, <2>2, <3>2
  <2>3. CASE k # "EXT"
    <3>1. late = {} /\ rest = vol.rtbf
      BY <2>3
    <3>  HIDE DEF late, rest
    <3>2. vol' = [v EXCEPT !.todo = Tail(@)]
      BY <2>1, <2>3 DEF RtbfCommitted
    <3>3. vol.free \cup now \cup late = vol.free \cup now
      BY <3>1
    <3>4. QED
      BY ZenonT(60), <1>5, <3>1, <3>2, <3>3
  <2>4. QED
    BY <2>2, <2>3
<1>7. now \subseteq Places /\ late \subseteq Places /\ rest \in Seq(Places)
  BY <1>3
<1>8. now \subseteq {vol.old[k]} /\ Nowhere \notin now
  OBVIOUS
<1>9. \A p \in late : \E i \in 1 .. Len(vol.rtbf) : p = vol.rtbf[i]
  OBVIOUS
<1>10. rest = <<>> \/ (rest = vol.rtbf /\ late = {})
  OBVIOUS
<1>11. \A p \in Places : p = vol.old[k] => p \in now
  BY <1>4, PfsCommitAssumption DEF Places, Nowhere
<1>12. \A i \in 1 .. Len(vol.rtbf) : vol.rtbf[i] \in late \/ rest = vol.rtbf
  OBVIOUS
<1>13. rest # <<>> => vol.rtbf # <<>> /\ k # "EXT"
  OBVIOUS
<1>  HIDE DEF now, late, rest, v
<1>14. Tail(vol.todo) \in Seq(Blocks)
  BY <1>1, <1>3
<1>15. vol' \in Volume
  BY <1>1, <1>3, <1>6, <1>7, <1>14 DEF Volume
<1>16. Separate(vol)'
  BY SMTT(60), <1>1, <1>6, <1>8, <1>9 DEF VolOK, UsesOK, Separate, OldOK, RtbfOK
<1>17. OldOK(vol)'
  BY SMTT(60), <1>1, <1>3, <1>6, <1>8, <1>9 DEF VolOK, UsesOK, OldOK, RtbfOK
<1>18. RtbfOK(vol)'
  <2>1. CASE rest = <<>>
    BY <1>6, <2>1, PfsCommitAssumption DEF RtbfOK
  <2>2. CASE rest = vol.rtbf /\ late = {}
    <3>1. \A i \in 1 .. Len(vol.rtbf) : vol.rtbf[i] # Nowhere
      BY SMTT(60), <1>3, PfsCommitAssumption DEF Places, Nowhere
    <3>2. QED
      BY <1>1, <1>3, <1>6, <1>8, <2>2, <3>1 DEF VolOK, UsesOK, RtbfOK
  <2>3. QED
    BY <1>10, <2>1, <2>2
<1>19. NoneLost(vol)'
  <2>  SUFFICES ASSUME NEW p \in Places
                PROVE  \/ p \in vol.free \cup now \cup late
                       \/ \E i \in 1 .. Len(rest) : p = rest[i]
                       \/ \E j \in Kinds : p = vol.nr[j] \/ p = [vol.old EXCEPT ![k] = Nowhere][j]
    BY <1>6 DEF NoneLost
  <2>1. CASE p = vol.old[k]
    BY <1>11, <2>1
  <2>2. CASE \E i \in 1 .. Len(vol.rtbf) : p = vol.rtbf[i]
    BY <1>12, <2>2
  <2>3. CASE p \in vol.free \/ \E j \in Kinds : p = vol.nr[j] \/ (j # k /\ p = vol.old[j])
    BY <1>3, <2>3
  <2>4. QED
    BY <1>1, <2>1, <2>2, <2>3 DEF VolOK, UsesOK, NoneLost
<1>20. Apart(vol)'
  BY <1>1, <1>2, <1>3, <1>6 DEF VolOK, UsesOK, Apart
<1>21. CleanBut(vol, "ROOT")'
  <2>1. \A j \in Kinds : Image(vol, j)' = Image(vol, j)
    BY <1>6 DEF Image
  <2>2. QED
    BY <1>2, <1>3, <1>6, <2>1 DEF CleanBut
<1>22. Len(vol.todo) >= 2 /\ Tail(vol.todo) # <<>> /\ Tail(vol.todo)[Len(Tail(vol.todo))] = "ROOT"
  <2>1. vol.todo[Len(vol.todo)] = "ROOT" /\ k # "ROOT"
    BY <1>1, ParentIn DEF VolOK, TodoOK
  <2>2. vol.todo[1] = k /\ Len(vol.todo) \in Nat /\ Len(vol.todo) >= 1
    BY <1>1, <1>3
  <2>3. Len(vol.todo) >= 2
    BY <2>1, <2>2
  <2>4. Len(Tail(vol.todo)) = Len(vol.todo) - 1
    BY <1>1, <1>3
  <2>5. Tail(vol.todo)[Len(vol.todo) - 1] = vol.todo[Len(vol.todo)]
    BY <1>1, <1>3, <2>3
  <2>6. Tail(vol.todo) # <<>>
    <3>1. Len(<<>>) = 0
      OBVIOUS
    <3>2. Len(Tail(vol.todo)) # 0
      <4>  DEFINE m == Len(vol.todo)
                  n == Len(Tail(vol.todo))
      <4>1. m \in Nat /\ m >= 2 /\ n = m - 1
        BY <2>2, <2>3, <2>4
      <4>  HIDE DEF m, n
      <4>2. n # 0
        BY <4>1
      <4>3. QED
        BY <4>2 DEF n
    <3>3. QED
      BY <3>1, <3>2
  <2>7. QED
    BY <2>1, <2>3, <2>4, <2>5, <2>6
<1>23. \A c : c # k /\ InTodo(vol, c) => \E i \in 1 .. Len(Tail(vol.todo)) : Tail(vol.todo)[i] = c
  <2>  SUFFICES ASSUME NEW c, c # k, NEW i \in 1 .. Len(vol.todo), vol.todo[i] = c
                PROVE  \E j \in 1 .. Len(Tail(vol.todo)) : Tail(vol.todo)[j] = c
    BY DEF InTodo
  <2>1. i # 1
    BY <1>1, <1>3
  <2>2. i - 1 \in 1 .. Len(Tail(vol.todo)) /\ Tail(vol.todo)[i - 1] = c
    BY <1>3, <1>22, <2>1
  <2>3. QED
    BY <2>2
<1>24. TodoOK(vol)'
  BY ZenonT(60), <1>1, <1>3, <1>6, <1>13, <1>22, <1>23 DEF VolOK, TodoOK, InTodo
<1>25. VolOK(vol)'
  BY <1>6, <1>15, <1>16, <1>17, <1>18, <1>19, <1>20, <1>21, <1>22, <1>24 DEF VolOK, UsesOK
<1>26. vol'.updateok = vol.updateok /\ failed' = failed /\ updates' = updates
  BY <1>6 DEF WriteBlock
<1>27. Running'
  <2>1. vol'.up = TRUE
    BY <1>15 DEF Volume
  <2>2. QED
    BY <2>1 DEF Running, Down
<1>28. failed \subseteq {"block"} /\ (vol.updateok <=> failed = {}) /\ updates \in 0 .. MaxUpdates
  BY <1>1, BusyOK
<1>29. QED
  BY <1>2, <1>25, <1>26, <1>27, <1>28 DEF CommitInv, VolumeOK

LEMMA WriteFailsStep ==
  ASSUME Sheltered, CommitInv, NEW k \in Kinds, WriteFails(k)
  PROVE  CommitInv' /\ OnDisk' = OnDisk
<1>  DEFINE freed == [FreeReservedBlock(vol, vol.old[k]) EXCEPT !.old[k] = Nowhere]
            now == {vol.old[k]} \ {Nowhere}
            late == {vol.rtbf[i] : i \in 1 .. Len(vol.rtbf)}
<1>1. /\ Running /\ VolOK(vol) /\ VersionOK /\ vol \in Volume
      /\ disk' = disk /\ root' = root /\ updates' = updates
  BY BusyOK DEF WriteFails, VolOK, UsesOK
<1>2. PlaceOf' = PlaceOf /\ OnDisk' = OnDisk /\ VersionOK'
  BY <1>1, VersionStays
<1>3. /\ vol.old \in [Kinds -> Places \cup {Nowhere}] /\ vol.rtbf \in Seq(Places)
      /\ vol.free \subseteq Places /\ << >> \in Seq(Places)
  BY <1>1 DEF Volume
<1>4. freed = [up |-> vol.up, val |-> vol.val, nr |-> vol.nr, old |-> [vol.old EXCEPT ![k] = Nowhere],
               dirty |-> vol.dirty, free |-> vol.free \cup now, roving |-> vol.roving,
               rtbf |-> vol.rtbf, changed |-> vol.changed, todo |-> vol.todo, updateok |-> vol.updateok]
  <2>  DEFINE w == FreeReservedBlock(vol, vol.old[k])
  <2>1. /\ w.free = vol.free \cup now
        /\ w = [up |-> vol.up, val |-> vol.val, nr |-> vol.nr, old |-> vol.old, dirty |-> vol.dirty,
                free |-> w.free, roving |-> vol.roving, rtbf |-> vol.rtbf, changed |-> vol.changed,
                todo |-> vol.todo, updateok |-> vol.updateok]
    BY <1>1, Freed
  <2>  HIDE DEF now
  <2>2. freed = [w EXCEPT !.old[k] = Nowhere]
    OBVIOUS
  <2>  HIDE DEF w, freed
  <2>3. w = [up |-> vol.up, val |-> vol.val, nr |-> vol.nr, old |-> vol.old, dirty |-> vol.dirty,
             free |-> vol.free \cup now, roving |-> vol.roving, rtbf |-> vol.rtbf,
             changed |-> vol.changed, todo |-> vol.todo, updateok |-> vol.updateok]
    BY <2>1
  <2>4. QED
    BY <2>2, <2>3
<1>5. vol' = [up |-> vol.up, val |-> vol.val, nr |-> vol.nr, old |-> [vol.old EXCEPT ![k] = Nowhere],
              dirty |-> vol.dirty, free |-> vol.free \cup now \cup late, roving |-> vol.roving,
              rtbf |-> <<>>, changed |-> vol.changed, todo |-> <<"ROOT">>, updateok |-> FALSE]
  <2>1. vol' = [RtbfCommitted(freed, "EXT") EXCEPT !.todo = <<"ROOT">>, !.updateok = FALSE]
    BY DEF WriteFails
  <2>  HIDE DEF freed, now
  <2>2. Range(freed.rtbf) = late
    BY <1>1, <1>4, RtbfIs
  <2>  HIDE DEF late
  <2>3. vol' = [[freed EXCEPT !.free = @ \cup late, !.rtbf = <<>>] EXCEPT !.todo = <<"ROOT">>, !.updateok = FALSE]
    BY <2>1, <2>2 DEF RtbfCommitted
  <2>4. QED
    BY ZenonT(60), <1>4, <2>3
<1>6. now \subseteq Places /\ late \subseteq Places
  BY <1>3
<1>7. /\ now \subseteq {vol.old[k]} /\ Nowhere \notin now
      /\ \A p \in late : \E i \in 1 .. Len(vol.rtbf) : p = vol.rtbf[i]
      /\ \A i \in 1 .. Len(vol.rtbf) : vol.rtbf[i] \in late
  OBVIOUS
<1>8. \A p \in Places : p = vol.old[k] => p \in now
  BY PfsCommitAssumption DEF Places, Nowhere
<1>9. <<"ROOT">> \in Seq(Blocks) /\ <<"ROOT">>[Len(<<"ROOT">>)] = "ROOT"
  <2>1. "ROOT" \in Blocks
    BY DEF Blocks
  <2>2. QED
    BY <2>1
<1>  HIDE DEF now, late, freed
<1>10. vol' \in Volume
  BY <1>1, <1>3, <1>5, <1>6, <1>9 DEF Volume
<1>11. Separate(vol)'
  BY <1>1, <1>5, <1>7 DEF VolOK, UsesOK, Separate, OldOK, RtbfOK
<1>12. OldOK(vol)'
  BY <1>1, <1>3, <1>5, <1>7 DEF VolOK, UsesOK, OldOK, RtbfOK
<1>13. RtbfOK(vol)'
  BY <1>5, PfsCommitAssumption DEF RtbfOK
<1>14. NoneLost(vol)'
  <2>  SUFFICES ASSUME NEW p \in Places
                PROVE  \/ p \in vol.free \cup now \cup late
                       \/ \E j \in Kinds : p = vol.nr[j] \/ p = [vol.old EXCEPT ![k] = Nowhere][j]
    BY <1>5 DEF NoneLost
  <2>1. CASE p = vol.old[k]
    BY <1>8, <2>1
  <2>2. CASE \E i \in 1 .. Len(vol.rtbf) : p = vol.rtbf[i]
    BY <1>7, <2>2
  <2>3. CASE p \in vol.free \/ \E j \in Kinds : p = vol.nr[j] \/ (j # k /\ p = vol.old[j])
    BY <1>3, <2>3
  <2>4. QED
    BY <1>1, <2>1, <2>2, <2>3 DEF VolOK, UsesOK, NoneLost
<1>15. Apart(vol)'
  BY <1>1, <1>2, <1>5 DEF VolOK, UsesOK, Apart
<1>16. CleanBut(vol, "ROOT")'
  BY <1>1, <1>5 DEF VolOK, CleanBut, Image
<1>17. TodoOK(vol)'
  BY <1>5, <1>9 DEF TodoOK
<1>18. VolOK(vol)'
  BY <1>5, <1>10, <1>11, <1>12, <1>13, <1>14, <1>15, <1>16, <1>17 DEF VolOK, UsesOK
<1>19. failed' \subseteq {"block"} /\ failed' # {} /\ ~vol'.updateok /\ updates \in 0 .. MaxUpdates
  BY <1>5, BusyOK DEF WriteFails
<1>20. Running'
  <2>1. vol'.up = TRUE
    BY <1>10 DEF Volume
  <2>2. QED
    BY <2>1 DEF Running, Down
<1>21. QED
  BY <1>1, <1>2, <1>18, <1>19, <1>20 DEF CommitInv, VolumeOK

LEMMA MountStep ==
  ASSUME Sheltered, CommitInv, Mount
  PROVE  CommitInv' /\ OnDisk' = OnDisk
<1>1. PlaceOf' = PlaceOf /\ OnDisk' = OnDisk /\ VersionOK'
  BY VersionStays DEF CommitInv, Mount
<1>2. VolOK(vol)'
  BY <1>1, MountedOK, VolumeNext DEF CommitInv, Mount
<1>3. failed' = {} /\ vol'.updateok /\ updates' = updates /\ updates \in 0 .. MaxUpdates /\ Running'
  BY DEF CommitInv, Mount, Mounted, Running, Down
<1>4. QED
  BY <1>1, <1>2, <1>3 DEF CommitInv, VolumeOK

LEMMA CrashStep ==
  ASSUME Sheltered, CommitInv, Crash \/ UNCHANGED vars
  PROVE  CommitInv' /\ OnDisk' = OnDisk
<1>1. disk' = disk /\ root' = root /\ updates' = updates
  BY DEF Crash, vars
<1>2. PlaceOf' = PlaceOf /\ OnDisk' = OnDisk /\ VersionOK'
  BY <1>1, VersionStays DEF CommitInv
<1>3. CASE Crash
  BY <1>1, <1>2, <1>3 DEF CommitInv, Crash, Running, Down
<1>4. CASE UNCHANGED vars
  <2>1. /\ VolOK(vol) => VolOK(vol)'
        /\ UsesOK(vol) => UsesOK(vol)'
    BY <1>2, <1>4, VolumeNext DEF vars, UsesOK, Separate, OldOK, RtbfOK, NoneLost, Apart
  <2>2. QED
    BY <1>1, <1>2, <1>4, <2>1 DEF CommitInv, VolumeOK, vars, Running
<1>5. QED
  BY <1>3, <1>4

LEMMA CommitInvStep == ASSUME Sheltered, CommitInv, [Next]_vars PROVE CommitInv'
<1>1. ASSUME NEW k \in Changing, Change(k) PROVE CommitInv'
  BY <1>1, ChangeStep, KindsAre, PfsCommitAssumption
<1>2. ASSUME NEW k \in Kinds, WriteBlock(k) \/ WriteFails(k) PROVE CommitInv'
  BY <1>2, WriteBlockStep, WriteFailsStep
<1>3. ASSUME NEW k \in Kinds, Evict(k) \/ EvictFails(k) PROVE CommitInv'
  BY <1>3, EvictStep, EvictFailsStep
<1>4. ASSUME NEW frees \in BOOLEAN, BeginUpdate(frees) PROVE CommitInv'
  BY <1>4, BeginUpdateStep
<1>5. QED
  BY <1>1, <1>2, <1>3, <1>4, WriteRootStep, RootFailsStep, CrashStep, MountStep DEF Next

LEMMA CommitInvAlways ==
  ASSUME Sheltered
  PROVE  Spec => []CommitInv
<1>1. CommitInv /\ [Next]_vars => CommitInv'
  BY CommitInvStep
<1>2. QED
  BY <1>1, CommitInit, PTL DEF Spec
-----------------------------------------------------------------------------
(* In a reserved area with room for two places of each block, and for those  *)
(* that the cache has written, none is lost and none has two uses: also      *)
(* after crashes, in updates of any number, in any order of changes.         *)
THEOREM PlacesAccounted ==
  ASSUME Sheltered
  PROVE  Spec => []ReservedAccounted
<1>1. CommitInv => ReservedAccounted
  BY UsesAddUp DEF CommitInv, VolumeOK, VolOK, ReservedAccounted
<1>2. QED
  BY <1>1, CommitInvAlways, PTL

NowOK == Now \in [Kinds -> Steps]

LEMMA NowInVersions == CommitInv => NowOK
  BY DEF CommitInv, VolumeOK, VersionOK, Stands, VolOK, UsesOK, Volume, Now, NowOK

(* What a mount would find changes when the root is written, and then to the  *)
(* program's version: whatever blocks an update or the cache has written, in  *)
(* whatever order, wherever it ends, and whichever of the writes of blocks,  *)
(* of the cache and of the root fails, as long as the program stops then.   *)
THEOREM UpdateIsAtomic ==
  ASSUME Sheltered
  PROVE  Spec => ImplementsAtomicVolume
<1>1. CommitInv /\ Init => Atomic!Init
  BY NowInVersions DEF Init, Atomic!Init, Now, NowOK, Steps, Mounted, Running, Down
<1>2. CommitInv /\ [Next]_vars => (OnDisk' = OnDisk \/ WriteRoot)
  <2>  SUFFICES ASSUME CommitInv, [Next]_vars PROVE OnDisk' = OnDisk \/ WriteRoot
    OBVIOUS
  <2>1. ASSUME NEW k \in Changing, Change(k) PROVE OnDisk' = OnDisk
    BY <2>1, ChangeStep, KindsAre, PfsCommitAssumption
  <2>2. ASSUME NEW k \in Kinds, WriteBlock(k) \/ WriteFails(k) PROVE OnDisk' = OnDisk
    BY <2>2, WriteBlockStep, WriteFailsStep
  <2>3. ASSUME NEW k \in Kinds, Evict(k) \/ EvictFails(k) PROVE OnDisk' = OnDisk
    BY <2>3, EvictStep, EvictFailsStep
  <2>4. ASSUME NEW frees \in BOOLEAN, BeginUpdate(frees) PROVE OnDisk' = OnDisk
    BY <2>4, BeginUpdateStep
  <2>5. QED
    BY <2>1, <2>2, <2>3, <2>4, RootFailsStep, CrashStep, MountStep DEF Next
<1>3. CommitInv /\ CommitInv' /\ WriteRoot => (OnDisk' = OnDisk \/ (OnDisk' = Now /\ Now' = Now))
  <2>  SUFFICES ASSUME CommitInv, CommitInv', WriteRoot, vol.updateok
                PROVE  OnDisk' = Now /\ Now' = Now
    BY WriteRootStep
  <2>1. Running
    BY EndsStep DEF WriteRoot
  <2>2. vol'.val = vol.val
    BY EndsStep DEF WriteRoot
  <2>4. Running'
    BY EndsStep DEF WriteRoot
  <2>5. OnDisk' = vol.val
    BY WriteRootStep
  <2>6. QED
    BY <2>1, <2>2, <2>4, <2>5 DEF Now
<1>4. CommitInv /\ CommitInv' /\ NowOK' /\ [Next]_vars => [Atomic!Next]_<<Now, OnDisk>>
  BY <1>2, <1>3 DEF NowOK, Steps, Atomic!Next, Atomic!Change, Atomic!Commit
<1>5. QED
  BY <1>1, <1>4, NowInVersions, CommitInvAlways, PTL DEF Spec, ImplementsAtomicVolume, Atomic!Spec
=============================================================================
