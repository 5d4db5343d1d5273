-------------------------- MODULE AmigaFiles_proofs --------------------------
(***************************************************************************)
(* Proofs about AmigaFiles, for volumes and programs of any size and hash   *)
(* chains of any length.                                                    *)
(*                                                                         *)
(* They hold where the code is right: no bucket changes under a file that   *)
(* is open for writing (Undisturbed), programs do not share files for       *)
(* deletion (~DeleteOpen) and no file is protected against reading at mount *)
(* time (Readable).  Otherwise TLC finds counterexamples: see the README.   *)
(***************************************************************************)
EXTENDS AmigaFiles, FiniteSetTheorems, NaturalsInduction, TLAPS

\* Either programs leave the bucket of a file that is being written alone, or
\* there is only one name to a bucket.
Sparse == \A m, n \in Names : Hash(m) = Hash(n) => m = n
Undisturbed == Quiet \/ Sparse
Readable == \A P \in InitProt : "r" \notin P
-----------------------------------------------------------------------------
(* Chains *)

\* The walk w is the bucket h of the disk d, made of entries in S with names
\* that are told apart.
InBucket(d, h, w, S) ==
  /\ w \in Walks /\ IsChain(d, h, w)
  /\ \A i \in DOMAIN w : w[i] \in S /\ Hash(d.hdr[w[i]].name) = h
  /\ \A i, j \in DOMAIN w : d.hdr[w[i]].name = d.hdr[w[j]].name => i = j
\* The buckets of d are made of the entries S, each where its name belongs.
Chained(d, S) ==
  /\ S \subseteq Blocks
  /\ \A h \in 0 .. Buckets - 1 : InBucket(d, h, Chain(d, h), S)
  /\ \A b \in S : \E i \in DOMAIN Chain(d, Hash(d.hdr[b].name)) :
                     Chain(d, Hash(d.hdr[b].name))[i] = b
DirectoryOK(d) ==
  /\ Chained(d, d.used)
  /\ \A b \in Blocks : "r" \notin d.hdr[b].prot

\* Header blocks that differ in their links at most.
SameEntry(x, y) == x.name = y.name /\ x.prot = y.prot

\* Hash yields an index of the hash table.
LEMMA HashType == \A n \in Names : Hash(n) \in 0 .. Buckets - 1
  BY NamesAssumption, BucketsAssumption DEF Hash

\* Walks are sequences of blocks, and a bucket without blocks is one.
LEMMA WalkType ==
  ASSUME NEW w \in Walks
  PROVE  \E k \in Nat : /\ k <= Cardinality(Blocks) /\ DOMAIN w = 1 .. k
                        /\ w = [i \in 1 .. k |-> w[i]]
                        /\ \A i \in 1 .. k : w[i] \in Blocks
  <1>1. PICK k \in 0 .. Cardinality(Blocks) : w \in [1 .. k -> Blocks]
    BY DEF Walks
  <1>2. k \in Nat /\ k <= Cardinality(Blocks)
    BY <1>1, BlocksAssumption, FS_CardinalityType
  <1>3. QED BY <1>1, <1>2

LEMMA WalkIs ==
  ASSUME NEW k \in Nat, k <= Cardinality(Blocks), NEW w \in [1 .. k -> Blocks]
  PROVE  w \in Walks
  <1>1. Cardinality(Blocks) \in Nat
    BY BlocksAssumption, FS_CardinalityType
  <1>2. k \in 0 .. Cardinality(Blocks)
    BY <1>1
  <1>3. QED BY <1>2 DEF Walks

\* A set of numbers has a least element.
LEMMA LeastNumber ==
  ASSUME NEW S \in SUBSET Nat, S # {}
  PROVE  \E t \in S : \A u \in S : t <= u
  <1> DEFINE Less == {p \in Nat \X Nat : p[1] < p[2]}
  <1>1. IsWellFoundedOn(Less, Nat)
    BY ONLY NatLessThanWellFounded, Zenon DEF OpToRel
  <1>2. \E t \in S : \A u \in S : ~(<<u, t>> \in Less)
    <2> HIDE DEF Less
    <2> QED BY <1>1, WFMin, Zenon
  <1>3. PICK t \in S : \A u \in S : ~(<<u, t>> \in Less)
    BY <1>2
  <1>4. ASSUME NEW u \in S PROVE t <= u
    <2>1. ~(u < t)
      BY <1>3
    <2>2. QED BY <2>1
  <1>5. QED BY <1>4

\* The links of a bucket lead along one walk only.
LEMMA ChainUnique ==
  ASSUME NEW d, NEW h, NEW v \in Walks, NEW w \in Walks, IsChain(d, h, v), IsChain(d, h, w)
  PROVE  v = w
  <1>1. PICK k \in Nat : DOMAIN v = 1 .. k /\ v = [i \in 1 .. k |-> v[i]] /\ \A i \in 1 .. k : v[i] \in Blocks
    BY WalkType
  <1>2. PICK l \in Nat : DOMAIN w = 1 .. l /\ w = [i \in 1 .. l |-> w[i]] /\ \A i \in 1 .. l : w[i] \in Blocks
    BY WalkType
  <1> DEFINE Off == {i \in Nat : i # 0 /\ After(v, i - 1) # After(w, i - 1)}
  <1>3. Off = {}
    <2>1. SUFFICES ASSUME Off # {} PROVE FALSE
      OBVIOUS
    <2>2. PICK t \in Off : \A u \in Off : t <= u
      <3>1. Off \in SUBSET Nat
        OBVIOUS
      <3> HIDE DEF Off
      <3>2. QED BY <2>1, <3>1, LeastNumber
    <2>3. t # 1
      BY <2>2 DEF IsChain
    <2>4. t - 1 \in Nat /\ t - 1 # 0 /\ t - 2 \in Nat /\ t - 2 = (t - 1) - 1
      BY <2>2, <2>3
    <2>5. After(v, t - 2) = After(w, t - 2)
      BY <2>2, <2>4
    <2>6. t - 1 \in 1 .. k <=> t - 1 \in 1 .. l
      <3>1. (t - 2) + 1 = t - 1
        BY <2>4
      <3>2. After(v, t - 2) # NoBlock <=> t - 1 \in 1 .. k
        BY SMTT(60), <1>1, <2>4, <3>1, BlocksAssumption DEF After
      <3>3. After(w, t - 2) # NoBlock <=> t - 1 \in 1 .. l
        BY SMTT(60), <1>2, <2>4, <3>1, BlocksAssumption DEF After
      <3>4. QED BY <2>5, <3>2, <3>3
    <2>7. CASE t - 1 \in 1 .. k
      <3>1. (t - 2) + 1 = t - 1
        BY <2>4
      <3>2. v[t - 1] = w[t - 1]
        BY <1>1, <1>2, <2>5, <2>6, <2>7, <3>1 DEF After
      <3>3. /\ d.hdr[v[t - 1]].next = After(v, t - 1)
            /\ d.hdr[w[t - 1]].next = After(w, t - 1)
        BY <1>1, <1>2, <2>6, <2>7 DEF IsChain
      <3>4. QED BY <2>2, <3>2, <3>3
    <2>8. CASE t - 1 \notin 1 .. k
      <3>1. t \notin 1 .. k /\ t \notin 1 .. l /\ (t - 1) + 1 = t
        BY <2>2, <2>4, <2>6, <2>8
      <3>2. QED BY <1>1, <1>2, <2>2, <3>1 DEF After
    <2>9. QED BY <2>7, <2>8
  <1>4. \A i \in Nat : After(v, i) = After(w, i)
    <2>1. ASSUME NEW i \in Nat PROVE After(v, i) = After(w, i)
      <3>1. i + 1 \in Nat /\ i + 1 # 0 /\ (i + 1) - 1 = i
        OBVIOUS
      <3>2. i + 1 \notin Off
        BY <1>3
      <3>3. QED BY <3>1, <3>2
    <2>2. QED BY <2>1
  <1> HIDE DEF Off
  <1>5. ASSUME NEW i \in Nat
        PROVE  (i + 1 \in 1 .. k <=> i + 1 \in 1 .. l) /\ (i + 1 \in 1 .. k => v[i + 1] = w[i + 1])
    BY <1>1, <1>2, <1>4, BlocksAssumption DEF After
  <1>6. k = l
    <2>1. k # 0 => k - 1 \in Nat /\ (k - 1) + 1 = k /\ k \in 1 .. k
      OBVIOUS
    <2>2. l # 0 => l - 1 \in Nat /\ (l - 1) + 1 = l /\ l \in 1 .. l
      OBVIOUS
    <2>3. k # 0 => k \in 1 .. l
      BY <1>5, <2>1
    <2>4. l # 0 => l \in 1 .. k
      BY <1>5, <2>2
    <2>5. QED BY <2>3, <2>4
  <1>7. ASSUME NEW i \in 1 .. k PROVE v[i] = w[i]
    <2>1. i - 1 \in Nat /\ (i - 1) + 1 = i
      OBVIOUS
    <2>2. QED BY <1>5, <2>1
  <1>8. QED BY <1>1, <1>2, <1>6, <1>7

\* So Chain is the walk one has found.
LEMMA ChainIs ==
  ASSUME NEW d, NEW h, NEW w \in Walks, IsChain(d, h, w)
  PROVE  Chain(d, h) = w
  <1>1. Chain(d, h) \in Walks /\ IsChain(d, h, Chain(d, h))
    BY DEF Chain
  <1>2. QED BY <1>1, ChainUnique

\* The walk of a bucket, and how it is linked.
LEMMA BucketIs ==
  ASSUME NEW d, NEW S \in SUBSET Blocks, Chained(d, S), NEW h \in 0 .. Buckets - 1
  PROVE  \E k \in Nat :
           /\ k <= Cardinality(Blocks) /\ Chain(d, h) \in [1 .. k -> Blocks]
           /\ IsChain(d, h, Chain(d, h))
           /\ \A i \in 1 .. k : Chain(d, h)[i] \in S /\ Hash(d.hdr[Chain(d, h)[i]].name) = h
           /\ \A i, j \in 1 .. k : d.hdr[Chain(d, h)[i]].name = d.hdr[Chain(d, h)[j]].name => i = j
  <1> DEFINE w == Chain(d, h)
  <1>1. InBucket(d, h, w, S)
    BY DEF Chained
  <1> HIDE DEF w
  <1>2. PICK k \in Nat : /\ k <= Cardinality(Blocks) /\ DOMAIN w = 1 .. k
                         /\ w = [i \in 1 .. k |-> w[i]]
                         /\ \A i \in 1 .. k : w[i] \in Blocks
    BY <1>1, WalkType DEF InBucket
  <1>3. w \in [1 .. k -> Blocks]
    BY <1>2
  <1>4. /\ k <= Cardinality(Blocks) /\ w \in [1 .. k -> Blocks] /\ IsChain(d, h, w)
        /\ \A i \in 1 .. k : w[i] \in S /\ Hash(d.hdr[w[i]].name) = h
        /\ \A i, j \in 1 .. k : d.hdr[w[i]].name = d.hdr[w[j]].name => i = j
    BY <1>1, <1>2, <1>3 DEF InBucket
  <1>5. QED BY <1>4 DEF w

\* A walk of k blocks is a bucket if the links and the names say so.
Strung(d, S, h, k, w) ==
  /\ k <= Cardinality(Blocks) /\ w \in [1 .. k -> Blocks]
  /\ d.table[h] = After(w, 0) /\ \A i \in 1 .. k : d.hdr[w[i]].next = After(w, i)
  /\ \A i \in 1 .. k : w[i] \in S /\ Hash(d.hdr[w[i]].name) = h
  /\ \A i, j \in 1 .. k : d.hdr[w[i]].name = d.hdr[w[j]].name => i = j

LEMMA BucketFrom ==
  ASSUME NEW d, NEW S \in SUBSET Blocks, NEW h, NEW k \in Nat, NEW w, Strung(d, S, h, k, w)
  PROVE  Chain(d, h) = w /\ InBucket(d, h, Chain(d, h), S)
  <1>0. /\ k <= Cardinality(Blocks) /\ w \in [1 .. k -> Blocks]
        /\ d.table[h] = After(w, 0) /\ \A i \in 1 .. k : d.hdr[w[i]].next = After(w, i)
        /\ \A i \in 1 .. k : w[i] \in S /\ Hash(d.hdr[w[i]].name) = h
        /\ \A i, j \in 1 .. k : d.hdr[w[i]].name = d.hdr[w[j]].name => i = j
    BY DEF Strung
  <1>1. w \in Walks /\ DOMAIN w = 1 .. k
    BY <1>0, WalkIs
  <1>2. IsChain(d, h, w)
    BY <1>0, <1>1 DEF IsChain
  <1>3. Chain(d, h) = w
    BY <1>1, <1>2, ChainIs
  <1>4. InBucket(d, h, w, S)
    BY <1>0, <1>1, <1>2 DEF InBucket
  <1>5. QED BY <1>3, <1>4

\* adfNameToEntryBlk finds the one entry with the name looked for, if any.
LEMMA FoundIs ==
  ASSUME NEW d \in Disk, NEW S \in SUBSET Blocks, Chained(d, S), NEW n \in Names
  PROVE  /\ Found(d, n) # NoBlock => Found(d, n) \in S /\ d.hdr[Found(d, n)].name = n
         /\ \A b \in S : d.hdr[b].name = n => Found(d, n) = b
  <1> DEFINE h == Hash(n)
             w == Chain(d, h)
  <1>1. h \in 0 .. Buckets - 1
    BY HashType
  <1>2. PICK k \in Nat :
          /\ w \in [1 .. k -> Blocks]
          /\ \A i \in 1 .. k : w[i] \in S
          /\ \A i, j \in 1 .. k : d.hdr[w[i]].name = d.hdr[w[j]].name => i = j
    BY <1>1, BucketIs
  <1>3. ASSUME NEW i \in 1 .. k, d.hdr[w[i]].name = n PROVE Found(d, n) = w[i]
    <2> HIDE DEF w
    <2>1. \A j \in 1 .. k : d.hdr[w[j]].name = n => i = j
      BY <1>2, <1>3
    <2>2. \A j \in 1 .. i - 1 : j \in 1 .. k /\ j # i
      OBVIOUS
    <2>3. Hits(d, w, n) = {i}
      BY <1>2, <1>3, <2>1, <2>2 DEF Hits
    <2>4. QED BY <2>3 DEF Found, w
  <1>4. ASSUME \A i \in 1 .. k : d.hdr[w[i]].name # n PROVE Found(d, n) = NoBlock
    <2>1. Hits(d, w, n) = {}
      BY <1>2, <1>4 DEF Hits
    <2>2. QED BY <2>1 DEF Found
  <1>5. Found(d, n) # NoBlock => Found(d, n) \in S /\ d.hdr[Found(d, n)].name = n
    BY <1>2, <1>3, <1>4
  <1>6. ASSUME NEW b \in S, d.hdr[b].name = n PROVE Found(d, n) = b
    <2>1. PICK i \in DOMAIN w : w[i] = b
      BY <1>6 DEF Chained
    <2>2. QED BY <1>2, <1>3, <1>6, <2>1
  <1>7. QED BY <1>5, <1>6

\* What Found returns is a used block with the name looked for.
LEMMA FoundUsed ==
  ASSUME NEW d \in Disk, DirectoryOK(d), NEW n \in Names, Found(d, n) # NoBlock
  PROVE  /\ Found(d, n) \in d.used /\ Found(d, n) \in Blocks
         /\ d.hdr[Found(d, n)].name = n
  <1>1. Chained(d, d.used) /\ d.used \in SUBSET Blocks
    BY DEF DirectoryOK, Disk
  <1>2. QED BY <1>1, FoundIs

\* Every used block is found under its name.
LEMMA UsedFound ==
  ASSUME NEW d \in Disk, DirectoryOK(d), NEW b \in d.used
  PROVE  d.hdr[b].name \in Names /\ Found(d, d.hdr[b].name) = b
  <1>1. Chained(d, d.used) /\ d.used \in SUBSET Blocks /\ d.hdr[b].name \in Names
    BY DEF DirectoryOK, Disk, Entry
  <1>2. QED BY <1>1, FoundIs

\* What Found returns depends on the entries and their names only.
LEMMA FoundFrom ==
  ASSUME NEW d \in Disk, DirectoryOK(d), NEW n \in Names, NEW b \in Links,
         b # NoBlock => b \in d.used /\ d.hdr[b].name = n,
         b = NoBlock => \A x \in d.used : d.hdr[x].name # n
  PROVE  Found(d, n) = b
  BY FoundUsed, UsedFound

\* A bucket whose entries keep their names and links is what it was.
LEMMA BucketStays ==
  ASSUME NEW d, NEW e, NEW S \in SUBSET Blocks, Chained(d, S), NEW T \in SUBSET Blocks,
         NEW h \in 0 .. Buckets - 1, e.table[h] = d.table[h],
         \A x \in S : Hash(d.hdr[x].name) = h =>
           x \in T /\ e.hdr[x].name = d.hdr[x].name /\ e.hdr[x].next = d.hdr[x].next
  PROVE  Chain(e, h) = Chain(d, h) /\ InBucket(e, h, Chain(e, h), T)
  <1> DEFINE w == Chain(d, h)
  <1>1. PICK k \in Nat :
          /\ k <= Cardinality(Blocks) /\ w \in [1 .. k -> Blocks]
          /\ IsChain(d, h, w)
          /\ \A i \in 1 .. k : w[i] \in S /\ Hash(d.hdr[w[i]].name) = h
          /\ \A i, j \in 1 .. k : d.hdr[w[i]].name = d.hdr[w[j]].name => i = j
    BY BucketIs
  <1> HIDE DEF w
  <1>2. \A i \in 1 .. k : w[i] \in T /\ e.hdr[w[i]].name = d.hdr[w[i]].name
                          /\ e.hdr[w[i]].next = d.hdr[w[i]].next
    BY <1>1
  <1>3. /\ e.table[h] = After(w, 0) /\ \A i \in 1 .. k : e.hdr[w[i]].next = After(w, i)
    BY <1>1, <1>2 DEF IsChain
  <1>4. /\ \A i \in 1 .. k : w[i] \in T /\ Hash(e.hdr[w[i]].name) = h
        /\ \A i, j \in 1 .. k : e.hdr[w[i]].name = e.hdr[w[j]].name => i = j
    BY <1>1, <1>2
  <1>5. Strung(e, T, h, k, w)
    BY <1>1, <1>3, <1>4 DEF Strung
  <1>6. Chain(e, h) = w /\ InBucket(e, h, Chain(e, h), T)
    BY <1>5, BucketFrom
  <1>7. QED BY <1>6 DEF w

\* So are all buckets if no entry changes its name or link.
LEMMA ChainedStays ==
  ASSUME NEW d \in Disk, NEW e, NEW S \in SUBSET Blocks, Chained(d, S), e.table = d.table,
         \A x \in S : e.hdr[x].name = d.hdr[x].name /\ e.hdr[x].next = d.hdr[x].next
  PROVE  Chained(e, S)
  <1>1. ASSUME NEW h \in 0 .. Buckets - 1
        PROVE  Chain(e, h) = Chain(d, h) /\ InBucket(e, h, Chain(e, h), S)
    <2>1. e.table[h] = d.table[h]
      OBVIOUS
    <2>2. QED BY <2>1, BucketStays
  <1>2. \A b \in S : Hash(e.hdr[b].name) = Hash(d.hdr[b].name) /\ Hash(d.hdr[b].name) \in 0 .. Buckets - 1
    BY HashType DEF Disk, Entry
  <1>3. ASSUME NEW b \in S
        PROVE  \E i \in DOMAIN Chain(e, Hash(e.hdr[b].name)) : Chain(e, Hash(e.hdr[b].name))[i] = b
    <2>1. Chain(e, Hash(e.hdr[b].name)) = Chain(d, Hash(d.hdr[b].name))
      BY <1>1, <1>2
    <2>2. QED BY <2>1 DEF Chained
  <1>4. QED BY <1>1, <1>3 DEF Chained

\* What a step does to the entries of S other than moving links in a bucket:
\* names and protections stay, and so does the link of any entry elsewhere.
LinksApart(d, e, S, h) ==
  /\ \A x \in S : SameEntry(e.hdr[x], d.hdr[x])
  /\ \A x \in S : Hash(d.hdr[x].name) # h => e.hdr[x] = d.hdr[x]

\* Taking an entry out of its bucket closes the gap.
LEMMA UnlinkedChain ==
  ASSUME NEW d \in Disk, NEW S \in SUBSET Blocks, Chained(d, S), NEW n \in Names,
         Found(d, n) # NoBlock, NEW e, e = Unlinked(d, n)
  PROVE  /\ e \in Disk /\ e.used = d.used
         /\ Chained(e, S \ {Found(d, n)})
         /\ LinksApart(d, e, Blocks, Hash(n))
  <1> DEFINE h == Hash(n)
             w == Chain(d, h)
             b == Found(d, n)
             nx == d.hdr[b].next
  <1>1. h \in 0 .. Buckets - 1 /\ b \in S /\ d.hdr[b].name = n
    BY HashType, FoundIs
  <1>2. PICK k \in Nat :
          /\ k <= Cardinality(Blocks) /\ w \in [1 .. k -> Blocks]
          /\ IsChain(d, h, w)
          /\ \A i \in 1 .. k : w[i] \in S /\ Hash(d.hdr[w[i]].name) = h
          /\ \A i, j \in 1 .. k : d.hdr[w[i]].name = d.hdr[w[j]].name => i = j
    BY SMTT(60), <1>1, BucketIs
  <1>3. PICK i \in 1 .. k : w[i] = b
    BY <1>1, <1>2 DEF Chained
  <1>4. Hits(d, w, n) = {i}
    <2>1. \A j \in 1 .. k : d.hdr[w[j]].name = n => i = j
      BY <1>1, <1>2, <1>3
    <2>2. \A j \in 1 .. i - 1 : j \in 1 .. k /\ j # i
      OBVIOUS
    <2> HIDE DEF w, b
    <2>3. QED BY <1>1, <1>2, <1>3, <2>1, <2>2 DEF Hits
  <1>5. e = IF i = 1 THEN [d EXCEPT !.table[h] = nx] ELSE [d EXCEPT !.hdr[w[i - 1]].next = nx]
    BY <1>4 DEF Unlinked, Relinked
  <1>6. nx = After(w, i) /\ nx \in Links
    <2>1. b \in Blocks
      BY <1>1
    <2>2. QED BY <1>2, <1>3, <2>1 DEF IsChain, Disk, Entry
  <1> DEFINE v == [j \in 1 .. k - 1 |-> IF j < i THEN w[j] ELSE w[j + 1]]
  <1> HIDE DEF w, b, h, nx
  <1>7. /\ e \in Disk /\ e.used = d.used
        /\ e.table[h] = IF i = 1 THEN nx ELSE d.table[h]
        /\ \A g \in 0 .. Buckets - 1 : g # h => e.table[g] = d.table[g]
        /\ \A x \in Blocks : SameEntry(e.hdr[x], d.hdr[x])
        /\ \A x \in Blocks : (i = 1 \/ x # w[i - 1]) => e.hdr[x] = d.hdr[x]
        /\ i # 1 => e.hdr[w[i - 1]].next = nx
    <2>0. d = [table |-> d.table, hdr |-> d.hdr, used |-> d.used]
          /\ d.table \in [0 .. Buckets - 1 -> Links] /\ d.hdr \in [Blocks -> Entry] /\ d.used \in SUBSET Blocks
      BY DEF Disk
    <2>1. CASE i = 1
      <3>1. e = [d EXCEPT !.table = [d.table EXCEPT ![h] = nx]]
        BY <1>5, <2>1
      <3>2. e = [table |-> [d.table EXCEPT ![h] = nx], hdr |-> d.hdr, used |-> d.used]
        BY <2>0, <3>1
      <3>3. [d.table EXCEPT ![h] = nx] \in [0 .. Buckets - 1 -> Links]
        BY <1>6, <2>0
      <3>4. e \in Disk
        BY <2>0, <3>2, <3>3 DEF Disk
      <3>5. e.used = d.used /\ e.hdr = d.hdr /\ e.table = [d.table EXCEPT ![h] = nx]
        BY <3>2
      <3>6. e.table[h] = nx /\ \A g \in 0 .. Buckets - 1 : g # h => e.table[g] = d.table[g]
        BY <1>1, <2>0, <3>5
      <3>7. QED BY <2>1, <3>4, <3>5, <3>6 DEF SameEntry
    <2>2. CASE i # 1
      <3> DEFINE p == w[i - 1]
                 q == [d.hdr[p] EXCEPT !.next = nx]
      <3>1. p \in Blocks
        BY <1>2, <2>2
      <3>2. q \in Entry /\ q.name = d.hdr[p].name /\ q.prot = d.hdr[p].prot /\ q.next = nx
        BY <1>6, <2>0, <3>1 DEF Entry
      <3>3. e = [d EXCEPT !.hdr = [d.hdr EXCEPT ![p] = q]]
        BY <1>5, <2>0, <2>2, <3>1
      <3> HIDE DEF p, q
      <3>4. e = [table |-> d.table, hdr |-> [d.hdr EXCEPT ![p] = q], used |-> d.used]
        BY <2>0, <3>3
      <3>5. [d.hdr EXCEPT ![p] = q] \in [Blocks -> Entry]
        BY <2>0, <3>2
      <3>6. e \in Disk
        BY <2>0, <3>4, <3>5 DEF Disk
      <3>7. e.hdr[p] = q /\ \A x \in Blocks : x # p => e.hdr[x] = d.hdr[x]
        BY <2>0, <3>1, <3>4
      <3>8. \A x \in Blocks : SameEntry(e.hdr[x], d.hdr[x])
        BY <3>2, <3>7 DEF SameEntry
      <3>9. QED BY <2>0, <2>2, <3>2, <3>4, <3>6, <3>7, <3>8 DEF p
    <2>3. QED BY <2>1, <2>2
  <1>8. \A x \in S : Hash(d.hdr[x].name) # h => e.hdr[x] = d.hdr[x]
    BY <1>2, <1>7
  <1>9. \A x \in Blocks : Hash(d.hdr[x].name) # h => e.hdr[x] = d.hdr[x]
    BY <1>2, <1>7
  <1>10. k - 1 \in Nat /\ k - 1 <= Cardinality(Blocks)
    BY <1>2, BlocksAssumption, FS_CardinalityType
  <1>11. v \in [1 .. k - 1 -> Blocks]
    BY <1>2
  <1>12. \A j \in 1 .. k : j # i => \E l \in 1 .. k - 1 : v[l] = w[j]
    <2>1. ASSUME NEW j \in 1 .. k, j # i PROVE \E l \in 1 .. k - 1 : v[l] = w[j]
      <3>1. CASE j < i
        BY <3>1
      <3>2. CASE ~(j < i)
        <4>1. j - 1 \in 1 .. k - 1 /\ ~(j - 1 < i) /\ (j - 1) + 1 = j
          BY <2>1, <3>2
        <4>2. QED BY <4>1
      <3>3. QED BY <3>1, <3>2
    <2>2. QED BY <2>1
  <1>13. \A j \in 1 .. k - 1 : \E l \in 1 .. k : l # i /\ v[j] = w[l] /\ l = IF j < i THEN j ELSE j + 1
    OBVIOUS
  <1>14. e.table[h] = After(v, 0)
    <2>1. d.table[h] = After(w, 0)
      BY <1>2 DEF IsChain
    <2>2. CASE i = 1
      <3>1. CASE k = 1
        BY <1>2, <1>6, <1>7, <2>2, <3>1 DEF After
      <3>2. CASE k # 1
        <4>1. 1 \in 1 .. k - 1 /\ 2 \in 1 .. k /\ v[1] = w[2] /\ 1 + 1 = 2 /\ 0 + 1 = 1
          BY <2>2, <3>2
        <4>2. QED BY <1>2, <1>6, <1>7, <1>11, <2>2, <4>1 DEF After
      <3>3. QED BY <3>1, <3>2
    <2>3. CASE i # 1
      <3>1. 1 \in 1 .. k - 1 /\ 1 \in 1 .. k /\ v[1] = w[1] /\ 0 + 1 = 1
        BY <2>3
      <3>2. QED BY <1>2, <1>7, <1>11, <2>1, <2>3, <3>1 DEF After
    <2>4. QED BY <2>2, <2>3
  <1>15. ASSUME NEW j \in 1 .. k - 1 PROVE e.hdr[v[j]].next = After(v, j)
    <2>1. \A l \in 1 .. k : d.hdr[w[l]].next = After(w, l)
      BY <1>2 DEF IsChain
    <2>2. CASE j < i - 1
      <3>1. j \in 1 .. k /\ j + 1 \in 1 .. k - 1 /\ j + 1 \in 1 .. k /\ v[j] = w[j] /\ v[j + 1] = w[j + 1]
        BY <2>2
      <3>2. w[j] # w[i - 1] /\ w[j] \in Blocks
        BY <1>2, <2>2, <3>1
      <3>3. e.hdr[w[j]] = d.hdr[w[j]]
        BY <1>7, <3>2
      <3>4. After(w, j) = w[j + 1] /\ After(v, j) = v[j + 1]
        BY <1>2, <1>11, <3>1 DEF After
      <3> HIDE DEF v
      <3>5. QED BY <2>1, <3>1, <3>3, <3>4
    <2>3. CASE j = i - 1
      <3>1. j \in 1 .. k /\ v[j] = w[i - 1] /\ i # 1 /\ j + 1 = i
        BY <2>3
      <3>2. e.hdr[v[j]].next = After(w, i)
        BY <1>6, <1>7, <3>1
      <3>3. CASE i = k
        <4>1. After(w, i) = NoBlock /\ After(v, j) = NoBlock
          BY <1>2, <1>11, <3>1, <3>3 DEF After
        <4>2. QED BY <3>2, <4>1
      <3>4. CASE i # k
        <4>1. i \in 1 .. k - 1 /\ i + 1 \in 1 .. k /\ v[i] = w[i + 1]
          BY <3>4
        <4>2. After(w, i) = w[i + 1] /\ After(v, j) = v[i]
          BY <1>2, <1>11, <3>1, <4>1 DEF After
        <4>3. QED BY <3>2, <4>1, <4>2
      <3>5. QED BY <3>3, <3>4
    <2>4. CASE j > i - 1
      <3>1. j + 1 \in 1 .. k /\ v[j] = w[j + 1] /\ j + 1 # i - 1
        BY <2>4
      <3>2. i # 1 => w[j + 1] # w[i - 1]
        <4>1. i # 1 => i - 1 \in 1 .. k
          OBVIOUS
        <4>2. QED BY <1>2, <3>1, <4>1
      <3>3. w[j + 1] \in Blocks
        BY <1>2, <3>1
      <3>4. e.hdr[v[j]].next = After(w, j + 1)
        BY <1>7, <2>1, <3>1, <3>2, <3>3
      <3>5. CASE j = k - 1
        <4>1. After(w, j + 1) = NoBlock /\ After(v, j) = NoBlock
          BY <1>2, <1>11, <3>5 DEF After
        <4>2. QED BY <3>4, <4>1
      <3>6. CASE j # k - 1
        <4>1. j + 1 \in 1 .. k - 1 /\ (j + 1) + 1 \in 1 .. k /\ v[j + 1] = w[(j + 1) + 1]
          BY <2>4, <3>6
        <4>2. After(w, j + 1) = w[(j + 1) + 1] /\ After(v, j) = v[j + 1]
          BY <1>2, <1>11, <4>1 DEF After
        <4>3. QED BY <3>4, <4>1, <4>2
      <3>7. QED BY <3>5, <3>6
    <2>5. QED BY <2>2, <2>3, <2>4
  <1> HIDE DEF v
  <1>16. \A x \in Blocks : e.hdr[x].name = d.hdr[x].name
    BY <1>7 DEF SameEntry
  <1>17. \A j \in 1 .. k - 1 : v[j] \in S \ {b} /\ Hash(e.hdr[v[j]].name) = h
    <2>1. ASSUME NEW j \in 1 .. k - 1 PROVE v[j] \in S \ {b} /\ Hash(e.hdr[v[j]].name) = h
      <3>1. PICK l \in 1 .. k : l # i /\ v[j] = w[l]
        BY <1>13
      <3>2. w[l] # b /\ w[l] \in S /\ Hash(d.hdr[w[l]].name) = h
        BY <1>2, <1>3, <3>1
      <3>3. QED BY <1>16, <3>1, <3>2
    <2>2. QED BY <2>1
  <1>18. \A j, l \in 1 .. k - 1 : e.hdr[v[j]].name = e.hdr[v[l]].name => j = l
    <2>1. ASSUME NEW j \in 1 .. k - 1, NEW l \in 1 .. k - 1, e.hdr[v[j]].name = e.hdr[v[l]].name
          PROVE  j = l
      <3>1. PICK s \in 1 .. k : v[j] = w[s] /\ s = IF j < i THEN j ELSE j + 1
        BY <1>13
      <3>2. PICK t \in 1 .. k : v[l] = w[t] /\ t = IF l < i THEN l ELSE l + 1
        BY <1>13
      <3>3. s = t
        BY SMTT(60), <1>2, <1>16, <2>1, <3>1, <3>2
      <3>4. QED BY <3>1, <3>2, <3>3
    <2>2. QED BY <2>1
  <1>19. Chain(e, h) = v /\ InBucket(e, h, Chain(e, h), S \ {b})
    <2>1. S \ {b} \in SUBSET Blocks
      OBVIOUS
    <2>2. Strung(e, S \ {b}, h, k - 1, v)
      BY <1>10, <1>11, <1>14, <1>15, <1>17, <1>18 DEF Strung
    <2>3. QED BY <1>10, <2>1, <2>2, BucketFrom
  <1>20. ASSUME NEW g \in 0 .. Buckets - 1, g # h
         PROVE  Chain(e, g) = Chain(d, g) /\ InBucket(e, g, Chain(e, g), S \ {b})
    <2>1. \A x \in S : Hash(d.hdr[x].name) = g =>
            x \in S \ {b} /\ e.hdr[x].name = d.hdr[x].name /\ e.hdr[x].next = d.hdr[x].next
      BY <1>1, <1>8, <1>20 DEF h
    <2>2. S \ {b} \in SUBSET Blocks
      OBVIOUS
    <2>3. QED BY <1>7, <1>20, <2>1, <2>2, BucketStays
  <1>21. ASSUME NEW x \in S \ {b}
         PROVE  \E j \in DOMAIN Chain(e, Hash(e.hdr[x].name)) : Chain(e, Hash(e.hdr[x].name))[j] = x
    <2>1. Hash(e.hdr[x].name) = Hash(d.hdr[x].name) /\ Hash(d.hdr[x].name) \in 0 .. Buckets - 1
      BY <1>16, HashType DEF Disk, Entry
    <2>2. PICK j \in DOMAIN Chain(d, Hash(d.hdr[x].name)) : Chain(d, Hash(d.hdr[x].name))[j] = x
      BY DEF Chained
    <2>3. CASE Hash(d.hdr[x].name) = h
      <3>1. j \in 1 .. k /\ w[j] = x
        BY <1>2, <2>2, <2>3 DEF w
      <3>2. PICK l \in 1 .. k - 1 : v[l] = x
        BY <1>3, <1>12, <3>1
      <3>3. QED BY <1>11, <1>19, <2>1, <2>3, <3>2
    <2>4. CASE Hash(d.hdr[x].name) # h
      BY <1>20, <2>1, <2>2, <2>4
    <2>5. QED BY <2>3, <2>4
  <1>22. Chained(e, S \ {b})
    <2>1. \A g \in 0 .. Buckets - 1 : InBucket(e, g, Chain(e, g), S \ {b})
      BY <1>19, <1>20
    <2>2. QED BY <1>21, <2>1 DEF Chained
  <1>23. LinksApart(d, e, Blocks, h)
    BY <1>7, <1>9 DEF LinksApart
  <1>24. QED BY <1>7, <1>22, <1>23 DEF h, b

\* The last of a chain.
Ending(d, h, x) == \E i \in DOMAIN Chain(d, h) : Chain(d, h)[i] = x /\ After(Chain(d, h), i) = NoBlock

\* What Linked does to the hash table and to each header block.
LEMMA LinkedIs ==
  ASSUME NEW d \in Disk, NEW m \in Names, NEW b \in Blocks, NEW e, e = Linked(d, m, b)
  PROVE  /\ e \in Disk /\ e.used = d.used
         /\ e.table = [d.table EXCEPT ![Hash(m)] = IF DOMAIN Chain(d, Hash(m)) = {} THEN b ELSE @]
         /\ \A x \in Blocks : e.hdr[x] = IF Ending(d, Hash(m), x) THEN [d.hdr[x] EXCEPT !.next = b] ELSE d.hdr[x]
  <1> DEFINE h == Hash(m)
             w == Chain(d, h)
             table == [d.table EXCEPT ![h] = IF DOMAIN w = {} THEN b ELSE @]
             hdr == [x \in Blocks |-> IF \E i \in DOMAIN w : w[i] = x /\ After(w, i) = NoBlock
                                      THEN [d.hdr[x] EXCEPT !.next = b] ELSE d.hdr[x]]
  <1>0. d = [table |-> d.table, hdr |-> d.hdr, used |-> d.used]
        /\ d.table \in [0 .. Buckets - 1 -> Links] /\ d.hdr \in [Blocks -> Entry] /\ d.used \in SUBSET Blocks
    BY DEF Disk
  <1>1. e = [d EXCEPT !.table = table, !.hdr = hdr]
    BY DEF Linked
  <1>2. table \in [0 .. Buckets - 1 -> Links]
    BY <1>0 DEF Links
  <1>3. hdr \in [Blocks -> Entry]
    <2>1. \A x \in Blocks : d.hdr[x] \in Entry /\ [d.hdr[x] EXCEPT !.next = b] \in Entry
      BY <1>0 DEF Entry, Links
    <2>2. QED BY <2>1
  <1>4. \A x \in Blocks : hdr[x] = IF Ending(d, h, x) THEN [d.hdr[x] EXCEPT !.next = b] ELSE d.hdr[x]
    BY DEF Ending
  <1> HIDE DEF hdr
  <1>5. table = [d.table EXCEPT ![Hash(m)] = IF DOMAIN Chain(d, Hash(m)) = {} THEN b ELSE @]
    OBVIOUS
  <1> HIDE DEF table
  <1>6. e = [table |-> table, hdr |-> hdr, used |-> d.used]
    BY <1>0, <1>1
  <1>7. e \in Disk
    BY <1>0, <1>2, <1>3, <1>6 DEF Disk
  <1>8. e.table = table /\ e.hdr = hdr /\ e.used = d.used
    BY <1>6
  <1>9. QED BY <1>4, <1>5, <1>7, <1>8

\* Putting block b at the end of the bucket of its name m, which is a new one.
Appended(d, e, m, b) ==
  /\ e.table = [d.table EXCEPT ![Hash(m)] = IF DOMAIN Chain(d, Hash(m)) = {} THEN b ELSE @]
  /\ \A x \in Blocks \ {b} : e.hdr[x] = IF Ending(d, Hash(m), x)
                                         THEN [d.hdr[x] EXCEPT !.next = b] ELSE d.hdr[x]
  /\ e.hdr[b].name = m /\ e.hdr[b].next = NoBlock

LEMMA LinkedChain ==
  ASSUME NEW d \in Disk, NEW S \in SUBSET Blocks, Chained(d, S), NEW b \in Blocks, b \notin S,
         NEW m \in Names, \A x \in S : d.hdr[x].name # m,
         NEW e \in Disk, Appended(d, e, m, b)
  PROVE  Chained(e, S \cup {b}) /\ LinksApart(d, e, Blocks \ {b}, Hash(m))
  <1> DEFINE h == Hash(m)
             w == Chain(d, h)
  <1>0. /\ e.table = [d.table EXCEPT ![h] = IF DOMAIN w = {} THEN b ELSE @]
        /\ \A x \in Blocks \ {b} : e.hdr[x] = IF Ending(d, h, x)
                                               THEN [d.hdr[x] EXCEPT !.next = b] ELSE d.hdr[x]
        /\ e.hdr[b].name = m /\ e.hdr[b].next = NoBlock
    BY DEF Appended
  <1>1. h \in 0 .. Buckets - 1
    BY HashType
  <1>2. PICK k \in Nat :
          /\ k <= Cardinality(Blocks) /\ w \in [1 .. k -> Blocks]
          /\ IsChain(d, h, w)
          /\ \A i \in 1 .. k : w[i] \in S /\ Hash(d.hdr[w[i]].name) = h
          /\ \A i, j \in 1 .. k : d.hdr[w[i]].name = d.hdr[w[j]].name => i = j
    BY SMTT(60), <1>1, BucketIs
  <1>3. \A x \in Blocks : Ending(d, h, x) <=> k # 0 /\ x = w[k]
    <2>1. DOMAIN w = 1 .. k
      BY <1>2
    <2> HIDE DEF w
    <2>2. \A i \in 1 .. k : After(w, i) = NoBlock <=> i = k
      BY <1>2, <2>1, BlocksAssumption DEF After
    <2>3. k # 0 => k \in 1 .. k
      OBVIOUS
    <2>4. \A x \in Blocks : (\E i \in 1 .. k : w[i] = x /\ After(w, i) = NoBlock) <=> k # 0 /\ x = w[k]
      BY <2>2, <2>3
    <2>5. QED BY <2>1, <2>4 DEF Ending, w
  <1> DEFINE v == [j \in 1 .. k + 1 |-> IF j <= k THEN w[j] ELSE b]
  <1>4. DOMAIN w = {} <=> k = 0
    <2>1. k # 0 => k \in 1 .. k
      OBVIOUS
    <2>2. QED BY <1>2, <2>1
  <1>5. /\ e.table[h] = IF k = 0 THEN b ELSE d.table[h]
        /\ \A g \in 0 .. Buckets - 1 : g # h => e.table[g] = d.table[g]
    BY <1>0, <1>1, <1>4 DEF Disk
  <1> HIDE DEF w, h
  <1>6. \A x \in Blocks \ {b} : d.hdr[x] \in Entry
    BY DEF Disk
  <1>7. /\ \A x \in Blocks \ {b} : SameEntry(e.hdr[x], d.hdr[x])
        /\ \A x \in Blocks \ {b} : k = 0 \/ x # w[k] => e.hdr[x] = d.hdr[x]
        /\ k # 0 => e.hdr[w[k]].next = b
    <2>1. \A x \in Blocks \ {b} : e.hdr[x] = IF k # 0 /\ x = w[k] THEN [d.hdr[x] EXCEPT !.next = b] ELSE d.hdr[x]
      BY <1>0, <1>3 DEF h
    <2>2. ASSUME NEW x \in Blocks \ {b}, NEW y, y = [d.hdr[x] EXCEPT !.next = b]
          PROVE  y.name = d.hdr[x].name /\ y.prot = d.hdr[x].prot /\ y.next = b
      BY <1>6, <2>2 DEF Entry
    <2>3. k # 0 => k \in 1 .. k
      OBVIOUS
    <2>4. k # 0 => w[k] \in Blocks \ {b}
      BY <1>2, <2>3
    <2>5. ASSUME NEW x \in Blocks \ {b} PROVE SameEntry(e.hdr[x], d.hdr[x])
      BY <2>1, <2>2 DEF SameEntry
    <2>6. ASSUME NEW x \in Blocks \ {b}, k = 0 \/ x # w[k] PROVE e.hdr[x] = d.hdr[x]
      BY ONLY <2>1, <2>6
    <2>7. k # 0 => e.hdr[w[k]].next = b
      BY <2>1, <2>2, <2>4
    <2>8. QED BY <2>5, <2>6, <2>7
  <1>8. \A x \in Blocks \ {b} : Hash(d.hdr[x].name) # h => e.hdr[x] = d.hdr[x]
    <2>1. k # 0 => k \in 1 .. k
      OBVIOUS
    <2>2. QED BY <1>2, <1>7, <2>1
  <1>9. \A i, j \in 1 .. k : w[i] = w[j] => i = j
    BY <1>2
  <1>10. v \in [1 .. k + 1 -> Blocks] /\ \A i \in 1 .. k : v[i] = w[i]
    BY <1>2
  <1>11. v[k + 1] = b
    OBVIOUS
  <1> HIDE DEF v
  <1>12. k + 1 <= Cardinality(Blocks)
    <2>1. SUFFICES ASSUME ~(k + 1 <= Cardinality(Blocks)) PROVE FALSE
      OBVIOUS
    <2>2. /\ IsFiniteSet(1 .. k + 1) /\ Cardinality(1 .. k + 1) = k + 1
      BY FS_Interval
    <2>3. Cardinality(Blocks) \in Nat /\ IsFiniteSet(Blocks)
      BY BlocksAssumption, FS_CardinalityType
    <2>4. Cardinality(Blocks) < Cardinality(1 .. k + 1)
      BY <2>1, <2>2, <2>3
    <2>5. \E i, j \in 1 .. k + 1 : i # j /\ v[i] = v[j]
      <3>1. PICK T : T = 1 .. k + 1
        OBVIOUS
      <3>2. IsFiniteSet(T) /\ Cardinality(Blocks) < Cardinality(T) /\ v \in [T -> Blocks]
        BY <1>10, <2>2, <2>4, <3>1
      <3>3. \E i, j \in T : i # j /\ v[i] = v[j]
        BY <2>3, <3>2, FS_PigeonHole
      <3>4. QED BY <3>1, <3>3
    <2>6. PICK i \in 1 .. k + 1, j \in 1 .. k + 1 : i # j /\ v[i] = v[j]
      BY <2>5
    <2>7. \A l \in 1 .. k : w[l] # b
      BY <1>2
    <2>8. (i \in 1 .. k \/ i = k + 1) /\ (j \in 1 .. k \/ j = k + 1)
      OBVIOUS
    <2>9. QED BY <1>9, <1>10, <1>11, <2>6, <2>7, <2>8
  <1>13. e.table[h] = After(v, 0)
    <2>1. 1 \in 1 .. k + 1 /\ 0 + 1 = 1
      OBVIOUS
    <2>2. After(v, 0) = v[1]
      BY <1>10, <2>1 DEF After
    <2>3. CASE k = 0
      BY <1>5, <1>11, <2>2, <2>3
    <2>4. CASE k # 0
      <3>1. 1 \in 1 .. k
        BY <2>4
      <3>2. d.table[h] = w[1]
        BY <1>2, <2>1, <3>1 DEF IsChain, After
      <3>3. QED BY <1>5, <1>10, <2>2, <2>4, <3>1, <3>2
    <2>5. QED BY <2>3, <2>4
  <1>14. ASSUME NEW j \in 1 .. k + 1 PROVE e.hdr[v[j]].next = After(v, j)
    <2>1. CASE j < k
      <3>1. j \in 1 .. k /\ j + 1 \in 1 .. k /\ j + 1 \in 1 .. k + 1 /\ k \in 1 .. k
        BY <2>1
      <3>2. w[j] # w[k] /\ w[j] \in Blocks \ {b}
        BY <1>2, <1>9, <2>1, <3>1
      <3>3. d.hdr[w[j]].next = w[j + 1]
        BY <1>2, <3>1 DEF IsChain, After
      <3>4. e.hdr[w[j]].next = w[j + 1]
        BY <1>7, <3>2, <3>3
      <3>5. After(v, j) = v[j + 1]
        BY <1>10, <3>1 DEF After
      <3>6. QED BY <1>10, <3>1, <3>4, <3>5
    <2>2. CASE j = k
      <3>1. k # 0 /\ k \in 1 .. k /\ k + 1 \in 1 .. k + 1
        BY <2>2
      <3>2. After(v, k) = b
        BY <1>10, <1>11, <3>1 DEF After
      <3>3. QED BY <1>7, <1>10, <2>2, <3>1, <3>2
    <2>3. CASE j = k + 1
      <3>1. (k + 1) + 1 \notin 1 .. k + 1
        OBVIOUS
      <3>2. After(v, j) = NoBlock
        BY <1>10, <2>3, <3>1 DEF After
      <3>3. QED BY <1>0, <1>11, <2>3, <3>2
    <2>4. QED BY <2>1, <2>2, <2>3
  <1>15. ASSUME NEW j \in 1 .. k + 1
         PROVE  /\ v[j] \in S \cup {b} /\ Hash(e.hdr[v[j]].name) = h
                /\ j # k + 1 => v[j] = w[j] /\ e.hdr[v[j]].name = d.hdr[w[j]].name /\ e.hdr[v[j]].name # m
    <2>1. CASE j = k + 1
      BY <1>0, <1>11, <2>1 DEF h
    <2>2. CASE j # k + 1
      <3>1. j \in 1 .. k
        BY <2>2
      <3>2. w[j] \in S /\ w[j] # b /\ Hash(d.hdr[w[j]].name) = h /\ d.hdr[w[j]].name # m
        BY <1>2, <3>1
      <3>3. e.hdr[w[j]].name = d.hdr[w[j]].name
        BY <1>7, <3>2 DEF SameEntry
      <3>4. QED BY <1>10, <3>1, <3>2, <3>3
    <2>3. QED BY <2>1, <2>2
  <1>16. ASSUME NEW i \in 1 .. k + 1, NEW j \in 1 .. k + 1, e.hdr[v[i]].name = e.hdr[v[j]].name
         PROVE  i = j
    <2>1. (i \in 1 .. k \/ i = k + 1) /\ (j \in 1 .. k \/ j = k + 1)
      OBVIOUS
    <2>2. i \in 1 .. k /\ j \in 1 .. k => i = j
      <3>1. ASSUME i \in 1 .. k, j \in 1 .. k PROVE i # k + 1 /\ j # k + 1
        BY <3>1
      <3>2. QED BY <1>2, <1>15, <1>16, <3>1
    <2>3. e.hdr[v[k + 1]].name = m
      BY <1>0, <1>11
    <2>4. QED BY <1>15, <1>16, <2>1, <2>2, <2>3
  <1>17. S \cup {b} \in SUBSET Blocks
    OBVIOUS
  <1>18. Chain(e, h) = v /\ InBucket(e, h, Chain(e, h), S \cup {b})
    <2>1. Strung(e, S \cup {b}, h, k + 1, v)
      BY <1>10, <1>12, <1>13, <1>14, <1>15, <1>16 DEF Strung
    <2>2. k + 1 \in Nat
      OBVIOUS
    <2>3. QED BY <1>17, <2>1, <2>2, BucketFrom
  <1>19. ASSUME NEW g \in 0 .. Buckets - 1, g # h
         PROVE  Chain(e, g) = Chain(d, g) /\ InBucket(e, g, Chain(e, g), S \cup {b})
    <2>1. \A x \in S : Hash(d.hdr[x].name) = g =>
            x \in S \cup {b} /\ e.hdr[x].name = d.hdr[x].name /\ e.hdr[x].next = d.hdr[x].next
      BY <1>8, <1>19
    <2>2. QED BY <1>5, <1>17, <1>19, <2>1, BucketStays
  <1>20. ASSUME NEW x \in S \cup {b}
         PROVE  \E j \in DOMAIN Chain(e, Hash(e.hdr[x].name)) : Chain(e, Hash(e.hdr[x].name))[j] = x
    <2>1. CASE x = b
      <3>1. k + 1 \in 1 .. k + 1
        OBVIOUS
      <3>2. k + 1 \in DOMAIN v
        BY <1>10, <3>1
      <3>3. Hash(e.hdr[x].name) = h
        BY <1>0, <2>1 DEF h
      <3>4. QED BY <1>11, <1>18, <2>1, <3>2, <3>3
    <2>2. CASE x # b
      <3>1. e.hdr[x].name = d.hdr[x].name /\ Hash(d.hdr[x].name) \in 0 .. Buckets - 1
        BY <1>7, <2>2, HashType DEF SameEntry, Disk, Entry
      <3>2. PICK j \in DOMAIN Chain(d, Hash(d.hdr[x].name)) : Chain(d, Hash(d.hdr[x].name))[j] = x
        BY <2>2 DEF Chained
      <3>3. CASE Hash(d.hdr[x].name) = h
        <4>1. j \in 1 .. k /\ w[j] = x
          BY <1>2, <3>2, <3>3 DEF w
        <4>2. j \in 1 .. k + 1
          BY <4>1
        <4>3. QED BY <1>10, <1>18, <3>1, <3>3, <4>1, <4>2
      <3>4. CASE Hash(d.hdr[x].name) # h
        BY <1>19, <3>1, <3>2, <3>4
      <3>5. QED BY <3>3, <3>4
    <2>3. QED BY <2>1, <2>2
  <1>21. Chained(e, S \cup {b})
    <2>1. \A g \in 0 .. Buckets - 1 : InBucket(e, g, Chain(e, g), S \cup {b})
      BY <1>18, <1>19
    <2>2. QED BY <1>17, <1>20, <2>1 DEF Chained
  <1>22. LinksApart(d, e, Blocks \ {b}, h)
    BY <1>7, <1>8 DEF LinksApart
  <1>23. QED BY <1>21, <1>22 DEF h

-----------------------------------------------------------------------------
(* Directories *)

\* What the entries S become when buckets change: they keep their names, and
\* those in no bucket that changes keep their links.
Moves(d, e, S, H) ==
  /\ \A x \in S : e.hdr[x].name = d.hdr[x].name
  /\ \A x \in S : Hash(d.hdr[x].name) \notin H => e.hdr[x].next = d.hdr[x].next

\* Creating an entry in a free block: the new name is found there, every
\* other name where it was.
CreatedAs(d, n, b, c) ==
  /\ c \in Disk /\ DirectoryOK(c)
  /\ c.used = d.used \cup {b} /\ c.hdr[b] = NewEntry(n)
  /\ Moves(d, c, d.used, {Hash(n)})
  /\ \A m \in Names : Found(c, m) = IF m = n THEN b ELSE Found(d, m)
LEMMA CreatedEffect ==
  ASSUME NEW d \in Disk, DirectoryOK(d), NEW n \in Names, Found(d, n) = NoBlock,
         NEW b \in Blocks, b \notin d.used,
         NEW c, c = Created(d, n, b)
  PROVE  CreatedAs(d, n, b, c)
  <1> DEFINE l == Linked(d, n, b)
  <1>1. /\ l \in Disk /\ l.used = d.used
        /\ l.table = [d.table EXCEPT ![Hash(n)] = IF DOMAIN Chain(d, Hash(n)) = {} THEN b ELSE @]
        /\ \A x \in Blocks : l.hdr[x] = IF Ending(d, Hash(n), x) THEN [d.hdr[x] EXCEPT !.next = b] ELSE d.hdr[x]
    BY LinkedIs
  <1>2. c = [l EXCEPT !.hdr[b] = NewEntry(n), !.used = d.used \cup {b}]
    BY DEF Created
  <1> HIDE DEF l
  <1>3. /\ NewEntry(n) \in Entry /\ NewEntry(n).name = n /\ NewEntry(n).next = NoBlock
        /\ NewEntry(n).prot = {}
    BY DEF NewEntry, Entry, Links
  <1>4. c = [table |-> l.table, hdr |-> [l.hdr EXCEPT ![b] = NewEntry(n)], used |-> d.used \cup {b}]
    BY <1>1, <1>2 DEF Disk
  <1>5. /\ c.table = l.table /\ c.used = d.used \cup {b}
        /\ c.hdr[b] = NewEntry(n) /\ \A x \in Blocks \ {b} : c.hdr[x] = l.hdr[x]
    BY <1>1, <1>4 DEF Disk
  <1>6. c \in Disk
    <2>1. [l.hdr EXCEPT ![b] = NewEntry(n)] \in [Blocks -> Entry]
      BY <1>1, <1>3 DEF Disk
    <2>2. l.table \in [0 .. Buckets - 1 -> Links] /\ d.used \cup {b} \in SUBSET Blocks
      BY <1>1 DEF Disk
    <2>3. QED BY <1>4, <2>1, <2>2 DEF Disk
  <1>7. d.used \in SUBSET Blocks /\ Chained(d, d.used) /\ \A x \in d.used : d.hdr[x].name # n
    <2>1. \A x \in d.used : d.hdr[x].name # n
      BY UsedFound, BlocksAssumption DEF Disk
    <2>2. QED BY <2>1 DEF DirectoryOK, Disk
  <1>8. \A x \in Blocks \ {b} : c.hdr[x] = IF Ending(d, Hash(n), x) THEN [d.hdr[x] EXCEPT !.next = b] ELSE d.hdr[x]
    BY <1>1, <1>5
  <1>9. c.table = [d.table EXCEPT ![Hash(n)] = IF DOMAIN Chain(d, Hash(n)) = {} THEN b ELSE @]
    BY <1>1, <1>5
  <1>10. Chained(c, c.used) /\ LinksApart(d, c, Blocks \ {b}, Hash(n))
    <2>1. Appended(d, c, n, b)
      BY <1>3, <1>5, <1>8, <1>9 DEF Appended
    <2>2. Chained(c, d.used \cup {b}) /\ LinksApart(d, c, Blocks \ {b}, Hash(n))
      BY <1>6, <1>7, <2>1, LinkedChain
    <2>3. QED BY <1>5, <2>2
  <1>11. DirectoryOK(c)
    BY <1>3, <1>5, <1>10 DEF DirectoryOK, LinksApart, SameEntry
  <1>12. Moves(d, c, d.used, {Hash(n)})
    BY <1>7, <1>10 DEF Moves, LinksApart, SameEntry
  <1>13. ASSUME NEW m \in Names PROVE Found(c, m) = IF m = n THEN b ELSE Found(d, m)
    <2>1. CASE m = n
      <3>1. b \in c.used /\ c.hdr[b].name = m
        BY <1>3, <1>5, <2>1
      <3>2. QED BY <1>6, <1>11, <2>1, <3>1, UsedFound
    <2>2. CASE m # n
      <3>1. Found(d, m) \in Links
        BY FoundUsed DEF Links
      <3>2. Found(d, m) # NoBlock => Found(d, m) \in c.used /\ c.hdr[Found(d, m)].name = m
        <4>1. Found(d, m) # NoBlock => Found(d, m) \in d.used /\ d.hdr[Found(d, m)].name = m
          BY FoundUsed
        <4>2. QED BY <1>5, <1>12, <4>1 DEF Moves
      <3>3. Found(d, m) = NoBlock => \A x \in c.used : c.hdr[x].name # m
        <4>1. Found(d, m) = NoBlock => \A x \in d.used : d.hdr[x].name # m
          BY UsedFound, BlocksAssumption DEF Disk
        <4>2. QED BY <1>3, <1>5, <1>12, <2>2, <4>1 DEF Moves
      <3>4. Found(c, m) = Found(d, m)
        BY <1>6, <1>11, <3>1, <3>2, <3>3, FoundFrom
      <3>5. QED BY <2>2, <3>4
    <2>3. QED BY <2>1, <2>2
  <1>14. QED BY <1>5, <1>6, <1>11, <1>12, <1>13 DEF CreatedAs

\* Removing an entry: its name is found no more, every other where it was.
RemovedAs(d, n, c) ==
  /\ c \in Disk /\ DirectoryOK(c)
  /\ c.used = d.used \ {Found(d, n)}
  /\ Moves(d, c, Blocks, {Hash(n)})
  /\ \A m \in Names : Found(c, m) = IF m = n THEN NoBlock ELSE Found(d, m)
LEMMA RemovedEffect ==
  ASSUME NEW d \in Disk, DirectoryOK(d), NEW n \in Names, Found(d, n) # NoBlock,
         NEW c, c = Removed(d, n)
  PROVE  RemovedAs(d, n, c)
  <1> DEFINE b == Found(d, n)
             l == Unlinked(d, n)
  <1>1. d.used \in SUBSET Blocks /\ Chained(d, d.used) /\ b \in d.used /\ b \in Blocks /\ d.hdr[b].name = n
    BY FoundUsed DEF DirectoryOK, Disk
  <1>2. /\ l \in Disk /\ l.used = d.used /\ Chained(l, d.used \ {b})
        /\ LinksApart(d, l, Blocks, Hash(n))
    BY <1>1, UnlinkedChain
  <1>3. c = [l EXCEPT !.used = d.used \ {b}]
    BY DEF Removed
  <1> HIDE DEF l, b
  <1>4. c = [table |-> l.table, hdr |-> l.hdr, used |-> d.used \ {b}]
    BY <1>2, <1>3 DEF Disk
  <1>5. c.table = l.table /\ c.hdr = l.hdr /\ c.used = d.used \ {b}
    BY <1>4
  <1>6. c \in Disk
    BY <1>1, <1>2, <1>4 DEF Disk
  <1>7. Moves(d, c, Blocks, {Hash(n)})
    BY <1>2, <1>5 DEF Moves, LinksApart, SameEntry
  <1>8. DirectoryOK(c)
    <2>1. c.used \in SUBSET Blocks
      BY <1>1, <1>5
    <2>2. Chained(c, c.used)
      BY <1>2, <1>5, <2>1, ChainedStays
    <2>3. \A x \in Blocks : "r" \notin c.hdr[x].prot
      BY <1>2, <1>5 DEF DirectoryOK, LinksApart, SameEntry
    <2>4. QED BY <2>2, <2>3 DEF DirectoryOK
  <1>9. ASSUME NEW m \in Names PROVE Found(c, m) = IF m = n THEN NoBlock ELSE Found(d, m)
    <2>1. CASE m = n
      <3>1. \A x \in c.used : c.hdr[x].name # m
        <4>1. \A x \in d.used : d.hdr[x].name = n => x = b
          BY UsedFound DEF b
        <4>2. QED BY <1>1, <1>5, <1>7, <2>1, <4>1 DEF Moves
      <3>2. Found(c, m) = NoBlock
        BY <1>6, <1>8, <3>1, FoundUsed
      <3>3. QED BY <2>1, <3>2
    <2>2. CASE m # n
      <3>1. Found(d, m) \in Links
        BY FoundUsed DEF Links
      <3>2. Found(d, m) # NoBlock => Found(d, m) \in c.used /\ c.hdr[Found(d, m)].name = m
        <4>1. Found(d, m) # NoBlock => /\ Found(d, m) \in d.used /\ Found(d, m) \in Blocks
                                       /\ d.hdr[Found(d, m)].name = m
          BY FoundUsed
        <4>2. QED BY <1>1, <1>5, <1>7, <2>2, <4>1 DEF Moves
      <3>3. Found(d, m) = NoBlock => \A x \in c.used : c.hdr[x].name # m
        <4>1. Found(d, m) = NoBlock => \A x \in d.used : d.hdr[x].name # m
          BY UsedFound, BlocksAssumption DEF Disk
        <4>2. QED BY <1>1, <1>5, <1>7, <4>1 DEF Moves
      <3>4. Found(c, m) = Found(d, m)
        BY <1>6, <1>8, <3>1, <3>2, <3>3, FoundFrom
      <3>5. QED BY <2>2, <3>4
    <2>3. QED BY <2>1, <2>2
  <1>10. QED BY <1>5, <1>6, <1>7, <1>8, <1>9 DEF b, RemovedAs

\* Renaming an entry to a name that is free: it is found under the new name,
\* in the block it was in, and no more under the old one.
RenamedAs(d, n, m, c) ==
  /\ c \in Disk /\ DirectoryOK(c) /\ c.used = d.used
  /\ Moves(d, c, Blocks \ {Found(d, n)}, {Hash(n), Hash(m)})
  /\ \A k \in Names : Found(c, k) = IF k = n THEN NoBlock
                                    ELSE IF k = m THEN Found(d, n) ELSE Found(d, k)
LEMMA RenamedEffect ==
  ASSUME NEW d \in Disk, DirectoryOK(d), NEW n \in Names, NEW m \in Names,
         Found(d, n) # NoBlock, Found(d, m) = NoBlock,
         NEW c, c = Renamed(d, n, m)
  PROVE  RenamedAs(d, n, m, c)
  <1> DEFINE b == Found(d, n)
             out == Unlinked(d, n)
             e == [name |-> m, next |-> NoBlock, prot |-> d.hdr[b].prot]
             named == [out EXCEPT !.hdr[b] = e]
             S == d.used \ {b}
  <1>1. /\ d.used \in SUBSET Blocks /\ Chained(d, d.used) /\ b \in d.used /\ b \in Blocks /\ d.hdr[b].name = n
        /\ m # n
    BY FoundUsed DEF DirectoryOK, Disk
  <1>2. /\ out \in Disk /\ out.used = d.used /\ Chained(out, S)
        /\ LinksApart(d, out, Blocks, Hash(n))
    BY SMTT(60), <1>1, UnlinkedChain
  <1>3. c = Linked(named, m, b)
    BY DEF Renamed
  <1>4. e \in Entry /\ e.name = m /\ e.next = NoBlock /\ "r" \notin e.prot
    BY <1>1 DEF Entry, Links, Disk, DirectoryOK
  <1>5. named = [table |-> out.table, hdr |-> [out.hdr EXCEPT ![b] = e], used |-> d.used]
    BY <1>2 DEF Disk
  <1> HIDE DEF out, e, named, b, S
  <1>6. /\ named.table = out.table /\ named.used = d.used /\ named.hdr[b] = e
        /\ \A x \in Blocks \ {b} : named.hdr[x] = out.hdr[x]
    BY <1>1, <1>2, <1>5 DEF Disk
  <1>7. named \in Disk
    <2>1. [out.hdr EXCEPT ![b] = e] \in [Blocks -> Entry]
      BY <1>2, <1>4 DEF Disk
    <2>2. QED BY <1>1, <1>2, <1>5, <2>1 DEF Disk
  <1>8. S \in SUBSET Blocks /\ b \notin S /\ S \cup {b} = d.used
    BY <1>1 DEF S
  <1>9. Chained(named, S)
    BY <1>2, <1>6, <1>8, ChainedStays
  <1>10. \A x \in S : named.hdr[x].name # m
    <2>1. \A x \in d.used : d.hdr[x].name # m
      BY UsedFound, BlocksAssumption DEF Disk
    <2>2. \A x \in S : x \in Blocks \ {b} /\ x \in d.used
      BY <1>8
    <2>3. QED BY <1>2, <1>6, <2>1, <2>2 DEF LinksApart, SameEntry
  <1>11. /\ c \in Disk /\ c.used = d.used
         /\ c.table = [named.table EXCEPT ![Hash(m)] = IF DOMAIN Chain(named, Hash(m)) = {} THEN b ELSE @]
         /\ \A x \in Blocks : c.hdr[x] = IF Ending(named, Hash(m), x)
                                         THEN [named.hdr[x] EXCEPT !.next = b] ELSE named.hdr[x]
    <2>1. ASSUME NEW y, y = named
          PROVE  /\ c \in Disk /\ c.used = y.used
                 /\ c.table = [y.table EXCEPT ![Hash(m)] = IF DOMAIN Chain(y, Hash(m)) = {} THEN b ELSE @]
                 /\ \A x \in Blocks : c.hdr[x] = IF Ending(y, Hash(m), x)
                                                 THEN [y.hdr[x] EXCEPT !.next = b] ELSE y.hdr[x]
      <3>1. y \in Disk /\ c = Linked(y, m, b)
        BY <1>3, <1>7, <2>1
      <3>2. QED BY <1>1, <3>1, LinkedIs
    <2>2. QED BY <1>6, <2>1
  <1>12. ~Ending(named, Hash(m), b)
    <2>1. PICK k \in Nat : /\ Chain(named, Hash(m)) \in [1 .. k -> Blocks]
                           /\ \A i \in 1 .. k : Chain(named, Hash(m))[i] \in S
      BY <1>8, <1>9, HashType, BucketIs
    <2>2. QED BY <1>8, <2>1 DEF Ending
  <1>13. c.hdr[b].name = m /\ c.hdr[b].next = NoBlock /\ "r" \notin c.hdr[b].prot
    BY <1>1, <1>4, <1>6, <1>11, <1>12
  <1>14. Chained(c, d.used) /\ LinksApart(named, c, Blocks \ {b}, Hash(m))
    <2>1. Appended(named, c, m, b)
      BY <1>11, <1>13 DEF Appended
    <2>2. Chained(c, S \cup {b}) /\ LinksApart(named, c, Blocks \ {b}, Hash(m))
      BY <1>1, <1>7, <1>8, <1>9, <1>10, <1>11, <2>1, LinkedChain
    <2>3. QED BY <1>8, <2>2
  <1>15. \A x \in Blocks \ {b} : c.hdr[x].name = d.hdr[x].name /\ c.hdr[x].prot = d.hdr[x].prot
    BY <1>2, <1>6, <1>14 DEF LinksApart, SameEntry
  <1>16. DirectoryOK(c)
    BY <1>11, <1>13, <1>14, <1>15 DEF DirectoryOK
  <1>17. Moves(d, c, Blocks \ {b}, {Hash(n), Hash(m)})
    <2>1. ASSUME NEW x \in Blocks \ {b}, Hash(d.hdr[x].name) \notin {Hash(n), Hash(m)}
          PROVE  c.hdr[x].next = d.hdr[x].next
      <3>1. out.hdr[x] = d.hdr[x] /\ named.hdr[x] = d.hdr[x]
        BY <1>2, <1>6, <2>1 DEF LinksApart
      <3>2. c.hdr[x] = named.hdr[x]
        BY <1>14, <2>1, <3>1 DEF LinksApart
      <3>3. QED BY <3>1, <3>2
    <2>2. QED BY <1>15, <2>1 DEF Moves
  <1>18. ASSUME NEW k \in Names
         PROVE  Found(c, k) = IF k = n THEN NoBlock ELSE IF k = m THEN b ELSE Found(d, k)
    <2>1. \A x \in d.used : x # b => x \in Blocks \ {b} /\ c.hdr[x].name = d.hdr[x].name
      BY <1>1, <1>15
    <2>2. CASE k = n
      <3>1. \A x \in d.used : d.hdr[x].name = n => x = b
        BY UsedFound DEF b
      <3>2. \A x \in c.used : c.hdr[x].name # k
        BY <1>1, <1>11, <1>13, <2>1, <2>2, <3>1
      <3>3. Found(c, k) = NoBlock
        BY <1>11, <1>16, <3>2, FoundUsed
      <3>4. QED BY <2>2, <3>3
    <2>3. CASE k = m
      <3>1. Found(c, k) = b
        BY <1>1, <1>11, <1>13, <1>16, <2>3, UsedFound
      <3>2. QED BY <1>1, <2>3, <3>1
    <2>4. CASE k # n /\ k # m
      <3>1. Found(d, k) \in Links
        BY FoundUsed DEF Links
      <3>2. Found(d, k) # NoBlock => Found(d, k) \in c.used /\ c.hdr[Found(d, k)].name = k
        <4>1. Found(d, k) # NoBlock => Found(d, k) \in d.used /\ d.hdr[Found(d, k)].name = k
          BY FoundUsed
        <4>2. QED BY <1>1, <1>11, <2>1, <2>4, <4>1
      <3>3. Found(d, k) = NoBlock => \A x \in c.used : c.hdr[x].name # k
        <4>1. Found(d, k) = NoBlock => \A x \in d.used : d.hdr[x].name # k
          BY UsedFound, BlocksAssumption DEF Disk
        <4>2. QED BY <1>11, <1>13, <2>1, <2>4, <4>1
      <3>4. Found(c, k) = Found(d, k)
        BY <1>11, <1>16, <3>1, <3>2, <3>3, FoundFrom
      <3>5. QED BY <2>4, <3>4
    <2>5. QED BY <2>2, <2>3, <2>4
  <1>19. QED BY <1>11, <1>16, <1>17, <1>18 DEF b, RenamedAs

\* Writing a header that keeps name and link leaves every name where it was.
HeaderWritten(d, c) ==
  /\ c \in Disk /\ DirectoryOK(c) /\ c.used = d.used
  /\ Moves(d, c, Blocks, {})
  /\ \A m \in Names : Found(c, m) = Found(d, m)
LEMMA HeaderEffect ==
  ASSUME NEW d \in Disk, DirectoryOK(d), NEW b \in d.used, NEW e \in Entry,
         e.name = d.hdr[b].name, e.next = d.hdr[b].next, "r" \notin e.prot,
         NEW c, c = [d EXCEPT !.hdr[b] = e]
  PROVE  HeaderWritten(d, c)
  <1>1. b \in Blocks
    BY DEF Disk
  <1>2. c = [table |-> d.table, hdr |-> [d.hdr EXCEPT ![b] = e], used |-> d.used]
    BY DEF Disk
  <1>3. c.table = d.table /\ c.used = d.used /\ c.hdr = [d.hdr EXCEPT ![b] = e]
    BY <1>2
  <1>4. c \in Disk
    <2>1. [d.hdr EXCEPT ![b] = e] \in [Blocks -> Entry]
      BY DEF Disk
    <2>2. QED BY <1>2, <2>1 DEF Disk
  <1>5. c.hdr[b] = e /\ \A x \in Blocks : x # b => c.hdr[x] = d.hdr[x]
    BY <1>1, <1>3 DEF Disk
  <1>6. \A x \in Blocks : c.hdr[x].name = d.hdr[x].name /\ c.hdr[x].next = d.hdr[x].next
    BY <1>5
  <1>7. Moves(d, c, Blocks, {})
    BY <1>6 DEF Moves
  <1>8. d.used \in SUBSET Blocks /\ Chained(d, d.used)
    BY DEF Disk, DirectoryOK
  <1>9. Chained(c, c.used)
    <2>1. \A x \in d.used : c.hdr[x].name = d.hdr[x].name /\ c.hdr[x].next = d.hdr[x].next
      BY <1>6, <1>8
    <2>2. ASSUME NEW S, S = d.used PROVE Chained(c, S)
      <3>1. S \in SUBSET Blocks /\ Chained(d, S)
        BY <1>8, <2>2
      <3>2. \A x \in S : c.hdr[x].name = d.hdr[x].name /\ c.hdr[x].next = d.hdr[x].next
        BY <2>1, <2>2
      <3>3. c.table = d.table
        BY <1>3
      <3>4. QED BY ONLY d \in Disk, <3>1, <3>2, <3>3, ChainedStays
    <2>3. QED BY <1>3, <2>2
  <1>10. DirectoryOK(c)
    BY <1>5, <1>9 DEF DirectoryOK
  <1>11. ASSUME NEW m \in Names PROVE Found(c, m) = Found(d, m)
    <2>1. Found(d, m) \in Links
      BY FoundUsed DEF Links
    <2>2. Found(d, m) # NoBlock => Found(d, m) \in d.used /\ Found(d, m) \in Blocks /\ d.hdr[Found(d, m)].name = m
      BY FoundUsed
    <2>3. Found(d, m) = NoBlock => \A x \in d.used : d.hdr[x].name # m
      BY UsedFound, BlocksAssumption DEF Disk
    <2>4. Found(d, m) # NoBlock => Found(d, m) \in c.used /\ c.hdr[Found(d, m)].name = m
      BY <1>3, <1>6, <2>2
    <2>5. Found(d, m) = NoBlock => \A x \in c.used : c.hdr[x].name # m
      BY <1>3, <1>6, <1>8, <2>3
    <2>6. QED BY ZenonT(60), <1>4, <1>10, <2>1, <2>4, <2>5, FoundFrom
  <1>12. QED BY <1>3, <1>4, <1>7, <1>10, <1>11 DEF HeaderWritten
-----------------------------------------------------------------------------
(* The inductive invariant *)

\* A handle belongs to a used block that still has the name the file object
\* has, and so has the copy of it; the copy that a flush would write back has
\* the link that the block has.
HandlesOK ==
  \A o \in Objects : HasHandle(o) =>
    /\ obj[o].handle.key \in disk.used
    /\ disk.hdr[obj[o].handle.key].name = obj[o].name
    /\ obj[o].handle.copy.name = obj[o].name
    /\ "r" \notin obj[o].handle.copy.prot
    /\ obj[o].handle.write =>
         obj[o].handle.copy.next = disk.hdr[obj[o].handle.key].next

\* Nobody else may delete or rename a file that is open for its data.
Apart ==
  \A o, p \in Objects :
    o # p /\ HasHandle(o) /\ IsOpen(p) /\ obj[p].name = obj[o].name => ~obj[p].del

DeletersMay == \A o \in Objects : IsOpen(o) /\ obj[o].doc => obj[o].del

Inv ==
  /\ TypeOK
  /\ DirectoryOK(disk)
  /\ HandlesOK
  /\ WritersExclusive
  /\ Apart
  /\ DeletersMay

\* An open object is an Object, a handle a Handle.
LEMMA ObjectType ==
  ASSUME TypeOK, NEW o \in Objects
  PROVE  /\ IsOpen(o) => obj[o] \in Object
         /\ HasHandle(o) => obj[o] \in Object /\ obj[o].handle \in Handle
  BY DEF TypeOK, IsOpen, HasHandle, Object

\* The hash table made at mount time is consistent.
LEMMA InitInv ==
  ASSUME Readable, Init
  PROVE  Inv
  <1>0. PICK S \in SUBSET Names :
          \E at \in [S -> Blocks], prot \in [S -> InitProt] :
            /\ \A m, n \in S : m # n => at[m] # at[n] /\ Hash(m) # Hash(n)
            /\ disk = Mounted(S, at, prot)
    BY DEF Init
  <1>1. PICK at \in [S -> Blocks], prot \in [S -> InitProt] :
          /\ \A m, n \in S : m # n => at[m] # at[n] /\ Hash(m) # Hash(n)
          /\ disk = Mounted(S, at, prot)
    BY <1>0
  <1>2. \A o \in Objects : obj[o] = Closed
    BY DEF Init
  <1>3. ASSUME NEW n \in Names, NEW P \in SUBSET {"r", "w"}
        PROVE  /\ [NewEntry(n) EXCEPT !.prot = P] = [name |-> n, next |-> NoBlock, prot |-> P]
               /\ [NewEntry(n) EXCEPT !.prot = P] \in Entry
               /\ NewEntry(n) = [name |-> n, next |-> NoBlock, prot |-> {}]
               /\ NewEntry(n) \in Entry
    BY DEF NewEntry, Entry, Links
  <1>4. ASSUME NEW n \in S
        PROVE  /\ disk.table[Hash(n)] = at[n] /\ at[n] \in Blocks
               /\ disk.hdr[at[n]] \in Entry /\ disk.hdr[at[n]].name = n
               /\ disk.hdr[at[n]].next = NoBlock /\ disk.hdr[at[n]].prot = prot[n]
    <2>1. at[n] \in Blocks /\ Hash(n) \in 0 .. Buckets - 1
      BY HashType
    <2>2. (CHOOSE m \in S : Hash(m) = Hash(n)) = n
      BY <1>1
    <2>3. disk.table[Hash(n)] = at[n]
      BY <1>1, <2>1, <2>2 DEF Mounted
    <2>4. (CHOOSE m \in S : at[m] = at[n]) = n
      BY <1>1
    <2>5. disk.hdr[at[n]] = [NewEntry(n) EXCEPT !.prot = prot[n]]
      BY <1>1, <2>1, <2>4 DEF Mounted
    <2>6. prot[n] \in SUBSET {"r", "w"}
      BY ProtAssumption
    <2>7. disk.hdr[at[n]] = [name |-> n, next |-> NoBlock, prot |-> prot[n]]
      BY <1>3, <2>5, <2>6
    <2>8. disk.hdr[at[n]] \in Entry
      <3>1. n \in Names
        OBVIOUS
      <3>2. QED BY <2>6, <2>7, <3>1 DEF Entry, Links
    <2>9. QED BY <2>1, <2>3, <2>7, <2>8
  <1>5. \A h \in 0 .. Buckets - 1 : disk.table[h] # NoBlock =>
          \E n \in S : Hash(n) = h
    BY <1>1 DEF Mounted
  <1>6. \A b \in Blocks : \/ \E n \in S : at[n] = b
                          \/ disk.hdr[b] \in Entry /\ disk.hdr[b].prot = {}
    <2>1. PICK m \in Names : m = CHOOSE n \in Names : TRUE
      BY NamesAssumption
    <2>2. NewEntry(m) \in Entry /\ NewEntry(m).prot = {}
      BY <2>1 DEF NewEntry, Entry, Links
    <2>3. QED BY <1>1, <2>1, <2>2 DEF Mounted
  <1>7. disk.hdr \in [Blocks -> Entry]
    <2>1. DOMAIN disk.hdr = Blocks /\ disk.hdr = [b \in Blocks |-> disk.hdr[b]]
      BY <1>1 DEF Mounted
    <2>2. ASSUME NEW b \in Blocks PROVE disk.hdr[b] \in Entry
      BY <1>4, <1>6
    <2>3. QED BY <2>1, <2>2
  <1>8. TypeOK
    <2>1. disk.table \in [0 .. Buckets - 1 -> Links]
      <3>1. disk.table = [h \in 0 .. Buckets - 1 |-> disk.table[h]]
        BY <1>1 DEF Mounted
      <3>2. \A h \in 0 .. Buckets - 1 : disk.table[h] \in Links
        BY <1>4, <1>5 DEF Links
      <3>3. QED BY <3>1, <3>2
    <2>2. disk.used \in SUBSET Blocks
      BY <1>1 DEF Mounted
    <2>3. disk = [table |-> disk.table, hdr |-> disk.hdr, used |-> disk.used]
      BY <1>1 DEF Mounted
    <2>4. obj \in [Objects -> Object \cup {Closed}]
      BY DEF Init
    <2>5. disk \in Disk
      BY <1>7, <2>1, <2>2, <2>3 DEF Disk
    <2>6. QED BY <2>4, <2>5 DEF TypeOK
  <1>9. DirectoryOK(disk)
    <2>1. \A b \in disk.used : \E n \in S : at[n] = b
      BY <1>1 DEF Mounted
    <2>2. \A n \in S : at[n] \in disk.used
      BY <1>1 DEF Mounted
    <2>3. \A b \in Blocks : "r" \notin disk.hdr[b].prot
      <3>1. \A n \in S : "r" \notin prot[n]
        BY DEF Readable
      <3>2. QED BY <1>4, <1>6, <3>1
    <2>4. disk.used \in SUBSET Blocks
      BY <1>8 DEF TypeOK, Disk
    <2>5. ASSUME NEW n \in S
          PROVE  /\ InBucket(disk, Hash(n), Chain(disk, Hash(n)), disk.used)
                 /\ 1 \in DOMAIN Chain(disk, Hash(n)) /\ Chain(disk, Hash(n))[1] = at[n]
      <3> DEFINE w == [i \in 1 .. 1 |-> at[n]]
      <3>1. /\ w \in [1 .. 1 -> Blocks] /\ 1 \in DOMAIN w /\ w[1] = at[n]
            /\ After(w, 0) = at[n] /\ After(w, 1) = NoBlock
        BY <1>4 DEF After
      <3>2. \A i \in 1 .. 1 : i = 1
        OBVIOUS
      <3> HIDE DEF w
      <3>3. 1 <= Cardinality(Blocks)
        <4>1. Cardinality(Blocks) \in Nat /\ Cardinality(Blocks) # 0
          BY BlocksAssumption, FS_CardinalityType, FS_EmptySet
        <4>2. QED BY <4>1
      <3>4. Strung(disk, disk.used, Hash(n), 1, w)
        BY <1>4, <2>2, <3>1, <3>2, <3>3 DEF Strung
      <3>5. Chain(disk, Hash(n)) = w /\ InBucket(disk, Hash(n), Chain(disk, Hash(n)), disk.used)
        BY <2>4, <3>4, BucketFrom
      <3>6. QED BY <3>1, <3>5
    <2>6. ASSUME NEW h \in 0 .. Buckets - 1
          PROVE  InBucket(disk, h, Chain(disk, h), disk.used)
      <3>1. CASE \E n \in S : Hash(n) = h
        BY <2>5, <3>1
      <3>2. CASE ~ \E n \in S : Hash(n) = h
        <4> DEFINE w == [i \in 1 .. 0 |-> NoBlock]
        <4>1. w \in [1 .. 0 -> Blocks] /\ After(w, 0) = NoBlock /\ \A i \in 1 .. 0 : FALSE
          BY DEF After
        <4>2. disk.table[h] = NoBlock
          BY <1>5, <3>2
        <4>3. 0 <= Cardinality(Blocks)
          <5>1. Cardinality(Blocks) \in Nat
            BY BlocksAssumption, FS_CardinalityType
          <5>2. QED BY <5>1
        <4> HIDE DEF w
        <4>4. Strung(disk, disk.used, h, 0, w)
          BY <4>1, <4>2, <4>3 DEF Strung
        <4>5. QED BY <2>4, <4>4, BucketFrom
      <3>3. QED BY <3>1, <3>2
    <2>7. ASSUME NEW b \in disk.used
          PROVE  \E i \in DOMAIN Chain(disk, Hash(disk.hdr[b].name)) :
                   Chain(disk, Hash(disk.hdr[b].name))[i] = b
      <3>1. PICK n \in S : at[n] = b
        BY <2>1
      <3>2. disk.hdr[b].name = n
        BY <1>4, <3>1
      <3>3. QED BY <2>5, <3>1, <3>2
    <2>8. Chained(disk, disk.used)
      BY <2>4, <2>6, <2>7 DEF Chained
    <2>9. QED BY <2>3, <2>8 DEF DirectoryOK
  <1>10. \A o \in Objects : ~IsOpen(o) /\ ~HasHandle(o)
    BY <1>2 DEF IsOpen, HasHandle
  <1>11. QED
    BY <1>8, <1>9, <1>10 DEF Inv, HandlesOK, WritersExclusive, Writes, Apart, DeletersMay

\* Every entry in use on the disk d is one, with the same name, on e.
KeepsNames(d, e) == \A b \in d.used : b \in e.used /\ e.hdr[b].name = d.hdr[b].name

\* The links of blocks that are open for writing stay.
KeepsLinks ==
  \A p \in Objects : Writes(p) =>
    disk'.hdr[obj[p].handle.key].next = disk.hdr[obj[p].handle.key].next

\* Nobody has the block of handle f open in a conflicting way.
NoConflict(f) ==
  \A p \in Objects : HasHandle(p) /\ obj[p].handle.key = f.key =>
                       ~f.write /\ ~obj[p].handle.write

\* Giving a file object the handle f, whose block nobody else has open in a
\* conflicting way, keeps the invariant.
LEMMA OpenData ==
  ASSUME Inv, ~DeleteOpen, NEW o \in Objects, NEW n \in Names,
         NEW del \in BOOLEAN, NEW doc \in BOOLEAN, MayOpen(o, n, del, doc, TRUE),
         NEW f \in Handle,
         f.copy.name = n, "r" \notin f.copy.prot,
         disk' \in Disk, DirectoryOK(disk'),
         f.key \in disk'.used, disk'.hdr[f.key].name = n,
         disk'.hdr[f.key].next = f.copy.next,
         KeepsNames(disk, disk'), KeepsLinks, NoConflict(f),
         obj' = [obj EXCEPT ![o] = Opened(n, del, doc, f)]
  PROVE  Inv'
  <1> DEFINE x == [kind |-> "open", name |-> n, del |-> del, doc |-> doc, handle |-> f]
  <1>1. f # NoHandle
    BY DEF Handle, NoHandle
  <1>2. x \in Object /\ x # Closed
    BY DEF Object, Closed
  <1>3. /\ obj \in [Objects -> Object \cup {Closed}]
        /\ obj' = [obj EXCEPT ![o] = x]
    BY DEF Inv, TypeOK, Opened
  <1>4. obj'[o] = x /\ \A p \in Objects : p # o => obj'[p] = obj[p]
    BY <1>3
  <1>5. /\ IsOpen(o)' /\ HasHandle(o)'
        /\ \A p \in Objects : p # o => /\ IsOpen(p)' = IsOpen(p)
                                       /\ HasHandle(p)' = HasHandle(p)
    BY <1>1, <1>2, <1>4 DEF IsOpen, HasHandle
  <1>6. TypeOK'
    BY SMTT(60), <1>2, <1>3 DEF TypeOK
  <1>7. HandlesOK'
    <2>1. SUFFICES ASSUME NEW p \in Objects, HasHandle(p)'
                   PROVE  /\ obj'[p].handle.key \in disk'.used
                          /\ disk'.hdr[obj'[p].handle.key].name = obj'[p].name
                          /\ obj'[p].handle.copy.name = obj'[p].name
                          /\ "r" \notin obj'[p].handle.copy.prot
                          /\ obj'[p].handle.write =>
                               obj'[p].handle.copy.next = disk'.hdr[obj'[p].handle.key].next
      BY DEF HandlesOK
    <2>2. CASE p = o
      BY SMTT(60), <1>4, <2>2
    <2>3. CASE p # o
      BY SMTT(60), <1>4, <1>5, <2>1, <2>3 DEF Inv, HandlesOK, KeepsNames, KeepsLinks, Writes
    <2>4. QED BY SMTT(60), <2>2, <2>3
  <1>8. WritersExclusive'
    <2>1. SUFFICES ASSUME NEW p \in Objects, NEW q \in Objects, p # q,
                          HasHandle(p)', obj'[p].handle.write, HasHandle(q)',
                          obj'[p].handle.key = obj'[q].handle.key
                   PROVE  FALSE
      BY DEF WritersExclusive, Writes
    <2>2. CASE p = o
      BY <1>4, <1>5, <2>1, <2>2 DEF NoConflict
    <2>3. CASE q = o
      BY <1>4, <1>5, <2>1, <2>3 DEF NoConflict
    <2>4. CASE p # o /\ q # o
      BY <1>4, <1>5, <2>1, <2>4 DEF Inv, WritersExclusive, Writes
    <2>5. QED BY <2>2, <2>3, <2>4
  <1>9. Apart'
    <2>0. \A p \in Objects : IsOpen(p) /\ obj[p].name = n =>
            (del => ~HasHandle(p)) /\ ~obj[p].del
      BY DEF MayOpen
    <2>1. SUFFICES ASSUME NEW p \in Objects, NEW q \in Objects, p # q,
                          HasHandle(p)', IsOpen(q)', obj'[q].name = obj'[p].name
                   PROVE  ~obj'[q].del
      BY DEF Apart
    <2>2. CASE p = o
      BY <1>4, <1>5, <2>0, <2>1, <2>2
    <2>3. CASE q = o
      <3>1. HasHandle(p) /\ IsOpen(p) /\ obj[p].name = n
        BY <1>4, <1>5, <2>1, <2>3 DEF HasHandle
      <3>2. QED BY <1>4, <2>0, <2>3, <3>1
    <2>4. CASE p # o /\ q # o
      BY <1>4, <1>5, <2>1, <2>4 DEF Inv, Apart
    <2>5. QED BY <2>2, <2>3, <2>4
  <1>10. DeletersMay'
    <2>1. doc => del
      BY DEF MayOpen
    <2>2. ASSUME NEW p \in Objects, IsOpen(p)', obj'[p].doc PROVE obj'[p].del
      BY <1>4, <1>5, <2>1, <2>2 DEF Inv, DeletersMay
    <2>3. QED BY <2>2 DEF DeletersMay
  <1>11. QED BY <1>6, <1>7, <1>8, <1>9, <1>10 DEF Inv

\* Opening a file that is there.
LEMMA OpenExistingInv ==
  ASSUME ~DeleteOpen, Inv, NEW o \in Objects, NEW n \in Names, NEW acc \in Accesses,
         NEW del \in BOOLEAN, NEW doc \in BOOLEAN, OpenExisting(o, n, acc, del, doc)
  PROVE  Inv'
  <1> DEFINE b == Found(disk, n)
             e == disk.hdr[b]
             g == [kind |-> "file", key |-> b, copy |-> e, write |-> "w" \in acc]
  <1>1. disk \in Disk /\ DirectoryOK(disk) /\ disk' = disk
    BY DEF Inv, TypeOK, OpenExisting
  <1>2. b \in disk.used /\ b \in Blocks /\ e.name = n
    BY <1>1, FoundUsed DEF OpenExisting
  <1>3. e \in Entry /\ "r" \notin e.prot
    BY <1>1, <1>2 DEF Disk, DirectoryOK
  <1>4. MayOpen(o, n, del, doc, TRUE)
    BY DEF OpenExisting
  <1>5. \A p \in Objects : HasHandle(p) /\ obj[p].handle.key = b =>
          "w" \notin acc /\ ~obj[p].handle.write
    BY <1>2, <1>3, BlocksAssumption DEF OpenExisting, IsFileInUse
  <1>6. obj' = [obj EXCEPT ![o] = Opened(n, del, doc, g)]
    BY DEF OpenExisting
  <1>7. g \in Handle
    BY <1>2, <1>3 DEF Handle
  <1>8. g.key = b /\ g.copy = e /\ (g.write <=> "w" \in acc)
    OBVIOUS
  <1> HIDE DEF g
  <1>9. NoConflict(g)
    BY <1>5, <1>8 DEF NoConflict
  <1>10. KeepsNames(disk, disk') /\ KeepsLinks
    BY <1>1 DEF KeepsNames, KeepsLinks
  <1>11. QED BY ZenonT(60), <1>1, <1>2, <1>3, <1>4, <1>6, <1>7, <1>8, <1>9, <1>10, OpenData

\* The block of a handle is the one its file object's name denotes.
LEMMA HandleFound ==
  ASSUME Inv, NEW p \in Objects, HasHandle(p)
  PROVE  /\ obj[p].handle.key \in disk.used /\ obj[p].handle.key \in Blocks
         /\ disk.hdr[obj[p].handle.key].name = obj[p].name
         /\ Found(disk, obj[p].name) = obj[p].handle.key
  <1>1. /\ disk \in Disk /\ DirectoryOK(disk) /\ obj[p].handle.key \in disk.used
        /\ disk.hdr[obj[p].handle.key].name = obj[p].name
    BY DEF Inv, TypeOK, HandlesOK
  <1>2. obj[p].handle.key \in Blocks
    BY <1>1 DEF Disk
  <1>3. QED BY <1>1, <1>2, UsedFound

\* Nobody writes in the bucket of a name that is being added or removed, other
\* than to the file with that name.
LEMMA BucketAlone ==
  ASSUME Undisturbed, Inv, NEW o \in Objects, NEW n \in Names, Settled(o, n),
         NEW p \in Objects, p # o, Writes(p), obj[p].name # n
  PROVE  Hash(obj[p].name) # Hash(n)
  <1>1. obj[p].name \in Names
    BY ObjectType DEF Writes, Inv, Object
  <1>2. CASE Quiet
    BY <1>2 DEF Settled
  <1>3. CASE Sparse
    BY SMTT(60), <1>1, <1>3 DEF Sparse
  <1>4. QED BY <1>2, <1>3 DEF Undisturbed

\* So a change in that bucket moves no link of a file open for writing.
LEMMA LinkStays ==
  ASSUME Inv, NEW e, NEW S, NEW H, Moves(disk, e, S, H),
         NEW p \in Objects, HasHandle(p), obj[p].handle.key \in S, Hash(obj[p].name) \notin H
  PROVE  /\ e.hdr[obj[p].handle.key].name = obj[p].name
         /\ e.hdr[obj[p].handle.key].next = disk.hdr[obj[p].handle.key].next
  BY DEF Moves, Inv, HandlesOK

\* Creating a file and opening it.
LEMMA OpenNewInv ==
  ASSUME Undisturbed, ~DeleteOpen, Inv, NEW o \in Objects, NEW n \in Names, NEW acc \in Accesses,
         NEW del \in BOOLEAN, NEW doc \in BOOLEAN, OpenNew(o, n, acc, del, doc)
  PROVE  Inv'
  <1>1. disk \in Disk /\ DirectoryOK(disk) /\ Found(disk, n) = NoBlock
    BY DEF Inv, TypeOK, OpenNew
  <1> DEFINE G(b) == [kind |-> "file", key |-> b, copy |-> NewEntry(n), write |-> "w" \in acc]
  <1>2. PICK b \in Blocks \ disk.used :
          /\ disk' = Created(disk, n, b)
          /\ obj' = [obj EXCEPT ![o] = Opened(n, del, doc, G(b))]
    BY DEF OpenNew
  <1>3. /\ disk' \in Disk /\ DirectoryOK(disk')
        /\ disk'.used = disk.used \cup {b}
        /\ disk'.hdr[b] = NewEntry(n) /\ Moves(disk, disk', disk.used, {Hash(n)})
    <2>1. b \in Blocks /\ b \notin disk.used /\ disk' = Created(disk, n, b)
      BY <1>2
    <2>2. CreatedAs(disk, n, b, disk')
      BY <1>1, <2>1, CreatedEffect
    <2>3. QED BY <2>2 DEF CreatedAs
  <1>4. /\ NewEntry(n) \in Entry /\ NewEntry(n).name = n /\ NewEntry(n).next = NoBlock
        /\ "r" \notin NewEntry(n).prot
    BY DEF NewEntry, Entry, Links
  <1>5. /\ disk'.hdr[b].name = n
        /\ \A x \in disk.used : x \in disk'.used /\ disk'.hdr[x].name = disk.hdr[x].name
    BY <1>3, <1>4 DEF Moves
  <1>6. MayOpen(o, n, del, doc, TRUE) /\ Settled(o, n) /\ ~IsOpen(o)
    BY DEF OpenNew, MayOpen
  <1>7. \A p \in Objects : ~(HasHandle(p) /\ obj[p].handle.key = b)
    BY <1>2 DEF Inv, HandlesOK
  <1>8. b \in disk'.used /\ b \in Blocks
    BY <1>2, <1>3
  <1>9. G(b) \in Handle /\ G(b).key = b /\ G(b).copy = NewEntry(n)
    BY <1>4, <1>8 DEF Handle
  <1>10. PICK g \in Handle : g = G(b)
    BY <1>9
  <1>11. /\ g.key = b /\ g.copy.name = n /\ disk'.hdr[g.key].next = g.copy.next
         /\ "r" \notin g.copy.prot
    BY <1>3, <1>4, <1>9, <1>10
  <1>12. obj' = [obj EXCEPT ![o] = Opened(n, del, doc, g)]
    BY <1>2, <1>10
  <1>13. g.key \in disk'.used /\ disk'.hdr[g.key].name = n /\ NoConflict(g)
    BY <1>5, <1>7, <1>8, <1>11 DEF NoConflict
  <1>14. disk' \in Disk /\ DirectoryOK(disk')
    BY <1>3
  <1>15. KeepsNames(disk, disk')
    BY <1>5 DEF KeepsNames
  <1>16. KeepsLinks
    <2>1. ASSUME NEW p \in Objects, Writes(p)
          PROVE  disk'.hdr[obj[p].handle.key].next = disk.hdr[obj[p].handle.key].next
      <3>1. HasHandle(p) /\ p # o
        BY <1>6, <2>1 DEF Writes, HasHandle
      <3>2. obj[p].handle.key \in disk.used /\ Found(disk, obj[p].name) \in Blocks
        BY <3>1, HandleFound
      <3>3. obj[p].name # n
        BY <1>1, <3>2, BlocksAssumption
      <3>4. Hash(obj[p].name) \notin {Hash(n)}
        BY <1>6, <2>1, <3>1, <3>3, BucketAlone
      <3>5. QED BY <1>3, <3>1, <3>2, <3>4, LinkStays
    <2>2. QED BY SMTT(60), <2>1 DEF KeepsLinks
  <1> HIDE DEF G
  <1>17. QED BY ZenonT(60), <1>6, <1>11, <1>12, <1>13, <1>14, <1>15, <1>16, OpenData

\* The file object p gets no handle, and the one it may have stays as it is,
\* and stays correct.
KeepsHandle(p) ==
  HasHandle(p)' => /\ HasHandle(p)
                   /\ obj'[p].handle = obj[p].handle /\ obj'[p].name = obj[p].name
                   /\ obj[p].handle.key \in disk'.used
                   /\ disk'.hdr[obj[p].handle.key].name = obj[p].name
                   /\ obj[p].handle.write =>
                        disk'.hdr[obj[p].handle.key].next = disk.hdr[obj[p].handle.key].next

\* A step that opens no handle keeps the invariant if it keeps its other parts.
LEMMA NoNewHandle ==
  ASSUME Inv, TypeOK', DirectoryOK(disk'), \A p \in Objects : KeepsHandle(p),
         Apart', DeletersMay'
  PROVE  Inv'
  <1>1. HandlesOK'
    BY SMTT(60) DEF KeepsHandle, HandlesOK, Inv
  <1>2. WritersExclusive'
    BY DEF KeepsHandle, WritersExclusive, Writes, Inv
  <1>3. DirectoryOK(disk)'
    OBVIOUS
  <1>4. QED BY SMTT(60), <1>1, <1>2, <1>3 DEF Inv

\* Opening a file object without a handle.
LEMMA OpenPlainInv ==
  ASSUME ~DeleteOpen, Inv, NEW o \in Objects, NEW n \in Names,
         NEW del \in BOOLEAN, NEW doc \in BOOLEAN, OpenPlain(o, n, del, doc)
  PROVE  Inv'
  <1> DEFINE x == [kind |-> "open", name |-> n, del |-> del, doc |-> doc, handle |-> NoHandle]
  <1>1. x \in Object /\ x # Closed
    BY DEF Object, Closed
  <1>2. /\ obj \in [Objects -> Object \cup {Closed}] /\ disk \in Disk /\ disk' = disk
        /\ obj' = [obj EXCEPT ![o] = x]
    BY DEF Inv, TypeOK, Opened, OpenPlain
  <1>3. obj'[o] = x /\ \A p \in Objects : p # o => obj'[p] = obj[p]
    BY <1>2
  <1>4. /\ IsOpen(o)' /\ ~HasHandle(o)'
        /\ \A p \in Objects : p # o => /\ IsOpen(p)' = IsOpen(p)
                                       /\ HasHandle(p)' = HasHandle(p)
    BY <1>1, <1>3 DEF IsOpen, HasHandle
  <1>5. MayOpen(o, n, del, doc, FALSE)
    BY DEF OpenPlain
  <1>6. TypeOK'
    BY <1>1, <1>2 DEF TypeOK
  <1>7. DirectoryOK(disk')
    BY <1>2 DEF Inv
  <1>8. ASSUME NEW p \in Objects PROVE KeepsHandle(p)
    BY <1>2, <1>3, <1>4 DEF KeepsHandle, Inv, HandlesOK
  <1>9. Apart'
    <2>1. \A p \in Objects : HasHandle(p) /\ obj[p].name = n => ~del
      BY <1>5 DEF MayOpen, HasHandle
    <2>2. SUFFICES ASSUME NEW p \in Objects, NEW q \in Objects, p # q,
                          HasHandle(p)', IsOpen(q)', obj'[q].name = obj'[p].name
                   PROVE  ~obj'[q].del
      BY DEF Apart
    <2>3. p # o /\ HasHandle(p)
      BY <1>4, <2>2
    <2>4. CASE q = o
      BY <1>3, <2>1, <2>2, <2>3, <2>4
    <2>5. CASE q # o
      BY <1>3, <1>4, <2>2, <2>3, <2>5 DEF Inv, Apart
    <2>6. QED BY <2>4, <2>5
  <1>10. DeletersMay'
    <2>1. doc => del
      BY <1>5 DEF MayOpen
    <2>2. ASSUME NEW p \in Objects, IsOpen(p)', obj'[p].doc PROVE obj'[p].del
      BY <1>3, <1>4, <2>1, <2>2 DEF Inv, DeletersMay
    <2>3. QED BY <2>2 DEF DeletersMay
  <1>11. QED BY <1>6, <1>7, <1>8, <1>9, <1>10, NoNewHandle

\* Under a file object that may delete, nobody has a handle.
LEMMA NobodyUses ==
  ASSUME Inv, ~DeleteOpen, NEW o \in Objects, MayDelete(o), NEW p \in Objects, HasHandle(p)
  PROVE  obj[p].name # obj[o].name
  BY DEF MayDelete, Inv, Apart

\* Deleting a file.
LEMMA DeleteFileInv ==
  ASSUME Undisturbed, ~DeleteOpen, Inv, NEW o \in Objects, DeleteFile(o)
  PROVE  Inv'
  <1> DEFINE n == obj[o].name
             b == Found(disk, n)
  <1>1. disk \in Disk /\ DirectoryOK(disk) /\ obj \in [Objects -> Object \cup {Closed}]
    BY DEF Inv, TypeOK
  <1>2. /\ IsOpen(o) /\ obj[o].del /\ MayDelete(o) /\ Settled(o, n) /\ ~HasHandle(o)
        /\ obj[o] \in Object /\ n \in Names
    BY <1>1 DEF DeleteFile, MayDelete, IsOpen, Object
  <1>3. b # NoBlock /\ disk' = Removed(disk, n) /\ obj' = [obj EXCEPT ![o].doc = TRUE]
    BY DEF DeleteFile
  <1>4. /\ disk' \in Disk /\ DirectoryOK(disk')
        /\ disk'.used = disk.used \ {b} /\ Moves(disk, disk', Blocks, {Hash(n)})
    <2>1. RemovedAs(disk, n, disk')
      BY <1>1, <1>2, <1>3, RemovedEffect
    <2>2. QED BY <2>1 DEF RemovedAs
  <1>5. /\ obj'[o] = [kind |-> "open", name |-> n, del |-> obj[o].del, doc |-> TRUE,
                      handle |-> obj[o].handle]
        /\ \A p \in Objects : p # o => obj'[p] = obj[p]
    BY <1>1, <1>2, <1>3 DEF Object
  <1>6. obj'[o] \in Object /\ obj'[o] # Closed
    BY <1>2, <1>5 DEF Object, Closed
  <1>7. \A p \in Objects : /\ IsOpen(p)' = IsOpen(p) /\ HasHandle(p)' = HasHandle(p)
                           /\ IsOpen(p) => /\ obj'[p].name = obj[p].name
                                           /\ obj'[p].handle = obj[p].handle
                                           /\ obj'[p].del = obj[p].del
    <2>1. /\ obj'[o].handle = obj[o].handle /\ obj'[o].name = n /\ obj'[o].del = obj[o].del
          /\ IsOpen(o)' /\ IsOpen(o)
      BY <1>2, <1>5, <1>6 DEF IsOpen
    <2>2. HasHandle(o)' <=> HasHandle(o)
      BY <2>1 DEF HasHandle
    <2>3. QED BY <1>5, <2>1, <2>2 DEF IsOpen, HasHandle
  <1>8. TypeOK'
    <2>1. obj' \in [Objects -> Object \cup {Closed}]
      BY <1>1, <1>3, <1>5, <1>6
    <2>2. QED BY <1>4, <2>1 DEF TypeOK
  <1>9. ASSUME NEW p \in Objects PROVE KeepsHandle(p)
    <2>1. SUFFICES ASSUME HasHandle(p)
                   PROVE  /\ obj'[p].handle = obj[p].handle /\ obj'[p].name = obj[p].name
                          /\ obj[p].handle.key \in disk'.used
                          /\ disk'.hdr[obj[p].handle.key].name = obj[p].name
                          /\ obj[p].handle.write =>
                               disk'.hdr[obj[p].handle.key].next = disk.hdr[obj[p].handle.key].next
      BY <1>7 DEF KeepsHandle
    <2>2. obj[p].name # n /\ IsOpen(p)
      BY <1>2, <2>1, NobodyUses DEF HasHandle
    <2>3. /\ obj[p].handle.key \in disk.used /\ obj[p].handle.key \in Blocks
          /\ disk.hdr[obj[p].handle.key].name = obj[p].name
      BY <2>1, HandleFound
    <2>4. disk.hdr[b].name = n
      BY <1>1, <1>2, <1>3, FoundUsed
    <2>5. obj[p].handle.key \in disk'.used /\ disk'.hdr[obj[p].handle.key].name = obj[p].name
      BY SMTT(60), <1>4, <2>2, <2>3, <2>4 DEF Moves
    <2>6. ASSUME obj[p].handle.write
          PROVE  disk'.hdr[obj[p].handle.key].next = disk.hdr[obj[p].handle.key].next
      <3>1. Writes(p) /\ p # o
        BY <1>2, <2>1, <2>6 DEF Writes
      <3>2. Hash(obj[p].name) \notin {Hash(n)}
        BY <1>2, <2>2, <3>1, BucketAlone
      <3>3. QED BY <1>4, <2>1, <2>3, <3>2, LinkStays
    <2>7. QED BY SMTT(60), <1>7, <2>2, <2>5, <2>6
  <1>10. Apart'
    BY <1>7 DEF Inv, Apart, HasHandle
  <1>11. DeletersMay'
    BY <1>2, <1>5, <1>7 DEF Inv, DeletersMay
  <1>12. QED BY <1>4, <1>8, <1>9, <1>10, <1>11, NoNewHandle

\* Renaming a file: it is not open for its data, and the new name was free.
LEMMA MoveFileInv ==
  ASSUME Undisturbed, ~DeleteOpen, Inv, NEW o \in Objects, NEW m \in Names, MoveFile(o, m)
  PROVE  Inv'
  <1> DEFINE n == obj[o].name
             b == Found(disk, n)
  <1>1. disk \in Disk /\ DirectoryOK(disk) /\ obj \in [Objects -> Object \cup {Closed}]
    BY DEF Inv, TypeOK
  <1>2. /\ IsOpen(o) /\ MayDelete(o) /\ n \in Names /\ ~HasHandle(o)
        /\ Settled(o, n) /\ Settled(o, m)
    BY <1>1 DEF MoveFile, MayDelete, IsOpen, Object
  <1>3. /\ b # NoBlock /\ Found(disk, m) = NoBlock /\ disk' = Renamed(disk, n, m)
        /\ obj' = [p \in Objects |-> IF IsOpen(p) /\ obj[p].name = n
                                     THEN [obj[p] EXCEPT !.name = m] ELSE obj[p]]
    BY DEF MoveFile
  <1>4. /\ disk' \in Disk /\ DirectoryOK(disk')
        /\ disk'.used = disk.used /\ Moves(disk, disk', Blocks \ {b}, {Hash(n), Hash(m)})
    <2>1. RenamedAs(disk, n, m, disk')
      BY <1>1, <1>2, <1>3, RenamedEffect
    <2>2. QED BY <2>1 DEF RenamedAs
  <1>5. ASSUME NEW p \in Objects, IsOpen(p)
        PROVE  /\ obj'[p] \in Object /\ IsOpen(p)'
               /\ obj'[p].handle = obj[p].handle /\ obj'[p].del = obj[p].del
               /\ obj'[p].doc = obj[p].doc
               /\ obj'[p].name = IF obj[p].name = n THEN m ELSE obj[p].name
    <2>1. obj[p] \in Object
      BY <1>1, <1>5 DEF IsOpen
    <2>2. obj'[p] = IF obj[p].name = n THEN [obj[p] EXCEPT !.name = m] ELSE obj[p]
      BY <1>3, <1>5
    <2>3. /\ obj'[p] \in Object
          /\ obj'[p].handle = obj[p].handle /\ obj'[p].del = obj[p].del
          /\ obj'[p].doc = obj[p].doc
          /\ obj'[p].name = IF obj[p].name = n THEN m ELSE obj[p].name
      BY <2>1, <2>2 DEF Object
    <2>4. QED BY <2>3 DEF IsOpen, Object, Closed
  <1>6. ASSUME NEW p \in Objects, ~IsOpen(p) PROVE obj'[p] = obj[p] /\ ~IsOpen(p)'
    BY <1>3, <1>6 DEF IsOpen
  <1>7. ASSUME NEW p \in Objects, HasHandle(p)
        PROVE  /\ obj'[p].name = obj[p].name /\ obj[p].name # n /\ obj[p].name # m
               /\ obj'[p].handle = obj[p].handle
    <2>1. obj[p].name # n
      BY <1>2, <1>7, NobodyUses
    <2>2. Found(disk, obj[p].name) \in Blocks
      BY <1>7, HandleFound
    <2>3. IsOpen(p)
      BY <1>7 DEF HasHandle
    <2>4. QED BY <1>3, <1>5, <2>1, <2>2, <2>3, BlocksAssumption
  <1>8. \A p \in Objects : HasHandle(p)' => HasHandle(p)
    BY <1>5, <1>6 DEF HasHandle
  <1>9. TypeOK'
    <2>1. \A p \in Objects : obj'[p] \in Object \cup {Closed}
      BY <1>1, <1>5, <1>6
    <2>2. obj' = [p \in Objects |-> obj'[p]]
      BY SMTT(60), <1>3
    <2>3. QED BY <1>4, <2>1, <2>2 DEF TypeOK
  <1>10. ASSUME NEW p \in Objects PROVE KeepsHandle(p)
    <2>1. SUFFICES ASSUME HasHandle(p)
                   PROVE  /\ obj'[p].handle = obj[p].handle /\ obj'[p].name = obj[p].name
                          /\ obj[p].handle.key \in disk'.used
                          /\ disk'.hdr[obj[p].handle.key].name = obj[p].name
                          /\ obj[p].handle.write =>
                               disk'.hdr[obj[p].handle.key].next = disk.hdr[obj[p].handle.key].next
      BY <1>8 DEF KeepsHandle
    <2>2. /\ obj[p].handle.key \in disk.used /\ obj[p].handle.key \in Blocks
          /\ disk.hdr[obj[p].handle.key].name = obj[p].name
      BY <2>1, HandleFound
    <2>3. disk.hdr[b].name = n
      BY <1>1, <1>2, <1>3, FoundUsed
    <2>4. obj'[p].name = obj[p].name /\ obj[p].name # n /\ obj'[p].handle = obj[p].handle
      BY <1>7, <2>1
    <2>5. obj[p].handle.key \in Blocks \ {b}
      BY <2>2, <2>3, <2>4
    <2>6. disk'.hdr[obj[p].handle.key].name = obj[p].name
      BY SMTT(60), <1>4, <2>2, <2>5 DEF Moves
    <2>7. ASSUME obj[p].handle.write
          PROVE  disk'.hdr[obj[p].handle.key].next = disk.hdr[obj[p].handle.key].next
      <3>1. Writes(p) /\ p # o
        BY <1>2, <2>1, <2>7 DEF Writes
      <3>2. obj[p].name # n /\ obj[p].name # m
        BY <1>7, <2>1
      <3>3. Hash(obj[p].name) # Hash(n)
        BY <1>2, <3>1, <3>2, BucketAlone
      <3>4. Hash(obj[p].name) # Hash(m)
        BY <1>2, <3>1, <3>2, BucketAlone
      <3>5. Hash(obj[p].name) \notin {Hash(n), Hash(m)}
        BY <3>3, <3>4
      <3>6. QED BY <1>4, <2>1, <2>5, <3>5, LinkStays
    <2>8. QED BY SMTT(60), <1>4, <2>2, <2>4, <2>6, <2>7
  <1>11. Apart'
    <2>1. SUFFICES ASSUME NEW p \in Objects, NEW q \in Objects, p # q,
                          HasHandle(p)', IsOpen(q)', obj'[q].name = obj'[p].name
                   PROVE  ~obj'[q].del
      BY DEF Apart
    <2>2. HasHandle(p) /\ IsOpen(q)
      BY <1>6, <1>8, <2>1
    <2>3. obj[q].name = obj[p].name /\ obj'[q].del = obj[q].del
      BY <1>5, <1>7, <2>1, <2>2
    <2>4. QED BY <2>1, <2>2, <2>3 DEF Inv, Apart
  <1>12. DeletersMay'
    BY <1>5, <1>6 DEF Inv, DeletersMay
  <1>13. QED BY <1>4, <1>9, <1>10, <1>11, <1>12, NoNewHandle

\* A step that changes no file object, no name on the disk and no link of a
\* file that is open for writing.
LEMMA SameObjects ==
  ASSUME Inv, obj' = obj, disk' \in Disk, DirectoryOK(disk'), KeepsNames(disk, disk'), KeepsLinks
  PROVE  Inv'
  <1>1. TypeOK'
    BY SMTT(60) DEF Inv, TypeOK
  <1>2. ASSUME NEW p \in Objects PROVE KeepsHandle(p)
    BY SMTT(60) DEF KeepsHandle, KeepsNames, KeepsLinks, Writes, HasHandle, IsOpen, Inv, HandlesOK
  <1>3. Apart' /\ DeletersMay'
    BY DEF Inv, Apart, DeletersMay, HasHandle, IsOpen
  <1>4. QED BY <1>1, <1>2, <1>3, NoNewHandle

\* A step after which every header block has the name and the link it had.
LEMMA HeadersStay ==
  ASSUME Inv, NEW e, e.used = disk.used, Moves(disk, e, Blocks, {})
  PROVE  /\ KeepsNames(disk, e)
         /\ \A p \in Objects : HasHandle(p) => e.hdr[obj[p].handle.key].next = disk.hdr[obj[p].handle.key].next
  <1>1. disk.used \in SUBSET Blocks
    BY DEF Inv, TypeOK, Disk
  <1>2. \A p \in Objects : HasHandle(p) => obj[p].handle.key \in Blocks
    BY HandleFound
  <1>3. QED BY <1>1, <1>2 DEF KeepsNames, Moves

\* Setting the protection of a file.
LEMMA SetAttributesInv ==
  ASSUME Inv, NEW o \in Objects, NEW prot \in {{}, {"w"}}, SetAttributes(o, prot)
  PROVE  Inv'
  <1> DEFINE b == Found(disk, obj[o].name)
             e == [disk.hdr[b] EXCEPT !.prot = prot]
  <1>1. disk \in Disk /\ DirectoryOK(disk) /\ obj[o].name \in Names
    BY DEF Inv, TypeOK, SetAttributes, IsOpen, Object
  <1>2. b \in disk.used /\ b \in Blocks
    BY <1>1, FoundUsed DEF SetAttributes
  <1>3. disk.hdr[b] \in Entry /\ disk.hdr \in [Blocks -> Entry]
    BY <1>1, <1>2 DEF Disk
  <1>4. /\ e \in Entry /\ e.name = disk.hdr[b].name /\ e.next = disk.hdr[b].next
        /\ "r" \notin e.prot
    BY <1>2, <1>3 DEF Entry
  <1>5. disk' = [disk EXCEPT !.hdr[b] = e] /\ obj' = obj
    BY <1>1 DEF SetAttributes, Disk
  <1> HIDE DEF b, e
  <1>6. /\ disk' \in Disk /\ DirectoryOK(disk') /\ disk'.used = disk.used
        /\ Moves(disk, disk', Blocks, {})
    <2>1. HeaderWritten(disk, disk')
      BY SMTT(60), <1>1, <1>2, <1>4, <1>5, HeaderEffect
    <2>2. QED BY <2>1 DEF HeaderWritten
  <1>7. KeepsNames(disk, disk') /\ KeepsLinks
    BY <1>6, HeadersStay DEF KeepsLinks, Writes
  <1>8. QED BY <1>5, <1>6, <1>7, SameObjects

\* Writing back the header a handle holds changes no name and no link.
LEMMA FlushedEffect ==
  ASSUME Inv, NEW o \in Objects, IsOpen(o), NEW c, c = Flushed(disk, obj[o].handle)
  PROVE  HeaderWritten(disk, c)
  <1>1. disk \in Disk /\ DirectoryOK(disk)
    BY SMTT(60) DEF Inv, TypeOK
  <1>2. CASE obj[o].handle # NoHandle /\ obj[o].handle.write
    <2> DEFINE f == obj[o].handle
    <2>1. HasHandle(o)
      BY <1>2 DEF HasHandle
    <2>2. f \in Handle
      BY <2>1, ObjectType DEF Inv
    <2>3. f.copy \in Entry /\ c = [disk EXCEPT !.hdr[f.key] = f.copy]
      BY <1>2, <2>2 DEF Flushed, Handle
    <2>4. /\ f.key \in disk.used /\ f.copy.name = disk.hdr[f.key].name
          /\ f.copy.next = disk.hdr[f.key].next /\ "r" \notin f.copy.prot
      BY <1>2, <2>1 DEF Inv, HandlesOK
    <2>5. QED BY SMTT(60), <1>1, <2>3, <2>4, HeaderEffect
  <1>3. CASE ~(obj[o].handle # NoHandle /\ obj[o].handle.write)
    <2>1. c = disk
      BY <1>3 DEF Flushed
    <2>2. QED BY <1>1, <2>1 DEF Moves, HeaderWritten
  <1>4. QED BY <1>2, <1>3

\* Flushing a handle.
LEMMA FlushBuffersInv ==
  ASSUME Inv, NEW o \in Objects, FlushBuffers(o)
  PROVE  Inv'
  <1>1. IsOpen(o) /\ disk' = Flushed(disk, obj[o].handle) /\ obj' = obj
    BY DEF FlushBuffers, HasHandle
  <1>2. /\ disk' \in Disk /\ DirectoryOK(disk') /\ disk'.used = disk.used
        /\ Moves(disk, disk', Blocks, {})
    BY SMTT(60), <1>1, FlushedEffect DEF HeaderWritten
  <1>3. KeepsNames(disk, disk') /\ KeepsLinks
    BY <1>2, HeadersStay DEF KeepsLinks, Writes
  <1>4. QED BY <1>1, <1>2, <1>3, SameObjects

\* Closing a file object, and deleting its file if it was opened for that.
LEMMA CleanupInv ==
  ASSUME Undisturbed, Inv, NEW o \in Objects, Cleanup(o)
  PROVE  Inv'
  <1> DEFINE n == obj[o].name
             c == Flushed(disk, obj[o].handle)
             b == Found(c, n)
             deletes == obj[o].doc /\ b # NoBlock /\ "w" \notin c.hdr[b].prot
  <1>1. /\ IsOpen(o) /\ disk' = (IF deletes THEN Removed(c, n) ELSE c)
        /\ obj' = [obj EXCEPT ![o] = Closed] /\ (deletes => Settled(o, n))
    BY DEF Cleanup
  <1>2. /\ disk \in Disk /\ obj \in [Objects -> Object \cup {Closed}] /\ n \in Names
        /\ obj[o].del \in BOOLEAN
    BY <1>1 DEF Inv, TypeOK, IsOpen, Object
  <1>3. /\ c \in Disk /\ DirectoryOK(c) /\ c.used = disk.used
        /\ Moves(disk, c, Blocks, {})
    BY <1>1, FlushedEffect DEF HeaderWritten
  <1> DEFINE r == Removed(c, n)
  <1>4. b # NoBlock =>
           /\ r \in Disk /\ DirectoryOK(r) /\ r.used = c.used \ {b} /\ Moves(c, r, Blocks, {Hash(n)})
           /\ c.hdr[b].name = n /\ b \in Blocks
    <2>1. ASSUME NEW d \in Disk, d = c, DirectoryOK(d), Found(d, n) # NoBlock
          PROVE  /\ r \in Disk /\ DirectoryOK(r) /\ r.used = d.used \ {Found(d, n)}
                 /\ Moves(d, r, Blocks, {Hash(n)})
                 /\ d.hdr[Found(d, n)].name = n /\ Found(d, n) \in Blocks
      <3>1. RemovedAs(d, n, r)
        BY <1>2, <2>1, RemovedEffect
      <3>2. d.hdr[Found(d, n)].name = n /\ Found(d, n) \in Blocks
        BY <1>2, <2>1, FoundUsed
      <3>3. QED BY <3>1, <3>2 DEF RemovedAs
    <2>2. QED BY <1>3, <2>1
  <1>5. deletes => b # NoBlock /\ obj[o].doc
    OBVIOUS
  <1> HIDE DEF c, b, r, deletes
  <1>6. obj'[o] = Closed /\ \A p \in Objects : p # o => obj'[p] = obj[p]
    BY <1>1, <1>2
  <1>7. /\ ~IsOpen(o)' /\ ~HasHandle(o)'
        /\ \A p \in Objects : p # o => /\ IsOpen(p)' = IsOpen(p)
                                       /\ HasHandle(p)' = HasHandle(p)
    BY <1>6 DEF IsOpen, HasHandle
  <1>8. /\ disk' \in Disk /\ DirectoryOK(disk')
        /\ Moves(disk, disk', Blocks, IF deletes THEN {Hash(n)} ELSE {})
        /\ \A x \in disk.used : x \notin disk'.used => deletes /\ x = b
    <2>1. CASE deletes
      <3>1. disk' = r /\ b # NoBlock
        BY <1>1, <1>5, <2>1 DEF r
      <3>2. /\ disk' \in Disk /\ DirectoryOK(disk')
            /\ disk'.used = disk.used \ {b} /\ Moves(c, disk', Blocks, {Hash(n)})
        BY <1>3, <1>4, <3>1
      <3>3. Moves(disk, disk', Blocks, {Hash(n)})
        BY <1>3, <3>2 DEF Moves
      <3>4. \A x \in disk.used : x \notin disk'.used => x = b
        BY <3>2
      <3>5. QED BY <2>1, <3>2, <3>3, <3>4
    <2>2. CASE ~deletes
      <3>1. disk' = c
        BY <1>1, <2>2
      <3>2. disk' \in Disk /\ DirectoryOK(disk') /\ disk'.used = disk.used
        BY <1>3, <3>1
      <3>3. Moves(disk, disk', Blocks, {})
        BY <1>3, <3>1
      <3>4. QED BY <2>2, <3>2, <3>3
    <2>3. QED BY <2>1, <2>2
  <1>9. deletes => disk.hdr[b].name = n /\ b \in Blocks /\ obj[o].del
    <2>1. obj[o].doc => obj[o].del
      BY <1>1 DEF Inv, DeletersMay
    <2>2. QED BY <1>3, <1>4, <1>5, <2>1 DEF Moves
  <1>10. TypeOK'
    BY SMTT(60), <1>1, <1>2, <1>8 DEF TypeOK
  <1>11. ASSUME NEW p \in Objects PROVE KeepsHandle(p)
    <2>1. SUFFICES ASSUME p # o, HasHandle(p)
                   PROVE  /\ obj[p].handle.key \in disk'.used
                          /\ disk'.hdr[obj[p].handle.key].name = obj[p].name
                          /\ obj[p].handle.write =>
                               disk'.hdr[obj[p].handle.key].next = disk.hdr[obj[p].handle.key].next
      BY <1>6, <1>7 DEF KeepsHandle
    <2>2. /\ obj[p].handle.key \in disk.used /\ obj[p].handle.key \in Blocks
          /\ disk.hdr[obj[p].handle.key].name = obj[p].name
      BY <2>1, HandleFound
    <2>3. obj[o].del => obj[p].name # n
      BY <1>1, <2>1 DEF Inv, Apart
    <2>4. obj[p].handle.key \in disk'.used
      BY <1>8, <1>9, <2>2, <2>3
    <2>5. disk'.hdr[obj[p].handle.key].name = obj[p].name
      BY <1>8, <2>2 DEF Moves
    <2>6. ASSUME obj[p].handle.write
          PROVE  disk'.hdr[obj[p].handle.key].next = disk.hdr[obj[p].handle.key].next
      <3>1. CASE deletes
        <4>1. Writes(p) /\ obj[p].name # n /\ Settled(o, n)
          BY <1>1, <1>9, <2>1, <2>3, <2>6, <3>1 DEF Writes
        <4>2. Hash(obj[p].name) \notin {Hash(n)}
          BY <1>2, <2>1, <4>1, BucketAlone
        <4>3. Moves(disk, disk', Blocks, {Hash(n)})
          BY <1>8, <3>1
        <4>4. QED BY <2>1, <2>2, <4>2, <4>3, LinkStays
      <3>2. CASE ~deletes
        BY <1>8, <2>2, <3>2 DEF Moves
      <3>3. QED BY SMTT(60), <3>1, <3>2
    <2>7. QED BY SMTT(60), <2>4, <2>5, <2>6
  <1>12. Apart'
    <2>1. SUFFICES ASSUME NEW p \in Objects, NEW q \in Objects, p # q,
                          HasHandle(p)', IsOpen(q)', obj'[q].name = obj'[p].name
                   PROVE  ~obj'[q].del
      BY DEF Apart
    <2>2. p # o /\ q # o /\ HasHandle(p) /\ IsOpen(q)
      BY <1>7, <2>1
    <2>3. QED BY <1>6, <2>1, <2>2 DEF Inv, Apart
  <1>13. DeletersMay'
    BY <1>6, <1>7 DEF Inv, DeletersMay
  <1>14. QED BY SMTT(60), <1>8, <1>10, <1>11, <1>12, <1>13, NoNewHandle

\* Every step keeps the invariant.
LEMMA NextInv ==
  ASSUME Undisturbed, ~DeleteOpen, Inv, [Next]_vars
  PROVE  Inv'
  <1>1. CASE UNCHANGED vars
    <2>1. disk' = disk /\ obj' = obj
      BY <1>1 DEF vars
    <2>2. disk' \in Disk /\ DirectoryOK(disk') /\ KeepsNames(disk, disk') /\ KeepsLinks
      BY <2>1 DEF Inv, TypeOK, KeepsNames, KeepsLinks
    <2>3. QED BY <2>1, <2>2, SameObjects
  <1>2. CASE Next
    <2>1. PICK o \in Objects :
            \/ \E n \in Names, del, doc \in BOOLEAN :
                 \/ OpenPlain(o, n, del, doc)
                 \/ \E acc \in Accesses : \/ OpenExisting(o, n, acc, del, doc)
                                          \/ OpenNew(o, n, acc, del, doc)
            \/ DeleteFile(o)
            \/ \E m \in Names : MoveFile(o, m)
            \/ \E prot \in {{}, {"w"}} : SetAttributes(o, prot)
            \/ FlushBuffers(o)
            \/ Cleanup(o)
      BY <1>2 DEF Next
    <2>2. ASSUME NEW n \in Names, NEW del \in BOOLEAN, NEW doc \in BOOLEAN,
                 OpenPlain(o, n, del, doc)
          PROVE  Inv'
      BY <2>2, OpenPlainInv
    <2>3. ASSUME NEW n \in Names, NEW del \in BOOLEAN, NEW doc \in BOOLEAN,
                 NEW acc \in Accesses, OpenExisting(o, n, acc, del, doc)
          PROVE  Inv'
      BY <2>3, OpenExistingInv
    <2>4. ASSUME NEW n \in Names, NEW del \in BOOLEAN, NEW doc \in BOOLEAN,
                 NEW acc \in Accesses, OpenNew(o, n, acc, del, doc)
          PROVE  Inv'
      BY <2>4, OpenNewInv
    <2>5. CASE DeleteFile(o)
      BY <2>5, DeleteFileInv
    <2>6. ASSUME NEW m \in Names, MoveFile(o, m) PROVE Inv'
      BY <2>6, MoveFileInv
    <2>7. ASSUME NEW prot \in {{}, {"w"}}, SetAttributes(o, prot) PROVE Inv'
      BY <2>7, SetAttributesInv
    <2>8. CASE FlushBuffers(o)
      BY <2>8, FlushBuffersInv
    <2>9. CASE Cleanup(o)
      BY <2>9, CleanupInv
    <2>10. QED BY <2>1, <2>2, <2>3, <2>4, <2>5, <2>6, <2>7, <2>8, <2>9
  <1>3. QED BY <1>1, <1>2
-----------------------------------------------------------------------------
(* The theorems *)

\* The invariant holds throughout.
LEMMA Invariance ==
  ASSUME Undisturbed, ~DeleteOpen, Readable
  PROVE  Spec => []Inv
  <1>1. Init => Inv
    BY InitInv
  <1>2. Inv /\ [Next]_vars => Inv'
    BY NextInv
  <1>3. QED BY <1>1, <1>2, PTL DEF Spec

(* The directory and the open files keep their form: fs_createfile,         *)
(* fs_movefile and fs_cleanup (adf_operations.cpp) leave no broken record.  *)
THEOREM TypeCorrect ==
  ASSUME Undisturbed, ~DeleteOpen, Readable
  PROVE  Spec => []TypeOK
  <1>1. Inv => TypeOK
    BY DEF Inv
  <1>2. QED BY <1>1, Invariance, PTL

(* Whoever writes to a file is alone with it, however many programs open    *)
(* and close it: isFileInUse in fs_createfile is enough.                    *)
THEOREM WritersAlone ==
  ASSUME Undisturbed, ~DeleteOpen, Readable
  PROVE  Spec => []WritersExclusive
  <1>1. Inv => WritersExclusive
    BY DEF Inv
  <1>2. QED BY <1>1, Invariance, PTL

(* As long as nobody may delete what others use, no deletion, renaming or   *)
(* delete-on-close pulls a file away under a handle.                        *)
THEOREM OpenFilesStay ==
  ASSUME Undisturbed, ~DeleteOpen, Readable
  PROVE  Spec => []OpenFilesKept
  <1>1. ASSUME Inv PROVE OpenFilesKept
    BY <1>1, HandleFound DEF OpenFilesKept
  <1>2. QED BY <1>1, Invariance, PTL

(* Creating, deleting, renaming and closing files lose no file of the        *)
(* directory (adfCreateEntry, adfRemoveEntry, adfRenameEntry), however long  *)
(* the chains are.  This is not about stale headers: Undisturbed keeps the   *)
(* header of every file open for writing current, and a flush of one that is *)
(* not does lose files (FlushKeepsDirectory in AmigaFiles).                  *)
THEOREM NoFileLost ==
  ASSUME Undisturbed, ~DeleteOpen, Readable
  PROVE  Spec => []EntriesReachable
  <1>1. ASSUME Inv PROVE EntriesReachable
    BY <1>1, UsedFound DEF EntriesReachable, Inv, TypeOK
  <1>2. QED BY <1>1, Invariance, PTL
-----------------------------------------------------------------------------
(* AmigaFiles implements FlatDirectory *)

\* The state of FlatDirectory that a state of AmigaFiles stands for.
Dir == [n \in Names |-> Found(disk, n)]
Opens == [o \in Objects |-> IF HasHandle(o) THEN obj[o].handle.key ELSE NoBlock]

\* The actions of FlatDirectory in terms of Dir and Opens.
LEMMA DirectoryActions ==
  ASSUME NEW o \in Objects, NEW n \in Names, NEW m \in Names
  PROVE  /\ /\ Opens[o] = NoBlock /\ Dir[n] # NoBlock
            /\ Opens' = [Opens EXCEPT ![o] = Dir[n]] /\ Dir' = Dir
            => Directory!Open(o, n)
         /\ /\ Opens[o] = NoBlock /\ Dir[n] = NoBlock
            /\ \E f \in Blocks : /\ \A k \in Names : Dir[k] # f
                                 /\ \A q \in Objects : Opens[q] # f
                                 /\ Dir' = [Dir EXCEPT ![n] = f]
                                 /\ Opens' = [Opens EXCEPT ![o] = f]
            => Directory!Create(o, n)
         /\ Opens' = [Opens EXCEPT ![o] = NoBlock] /\ Dir' = Dir => Directory!Close(o)
         /\ /\ Opens' = [Opens EXCEPT ![o] = NoBlock] /\ Dir[n] # NoBlock
            /\ Dir' = [Dir EXCEPT ![n] = NoBlock]
            /\ \A q \in Objects \ {o} : Opens[q] # Dir[n]
            => Directory!CloseAndDelete(o, n)
         /\ /\ Opens' = Opens /\ Dir[n] # NoBlock
            /\ \A q \in Objects : Opens[q] # Dir[n]
            /\ Dir' = [Dir EXCEPT ![n] = NoBlock]
            => Directory!Delete(n)
         /\ /\ Opens' = Opens /\ Dir[n] # NoBlock /\ Dir[m] = NoBlock
            /\ \A q \in Objects : Opens[q] # Dir[n]
            /\ Dir' = [Dir EXCEPT ![n] = NoBlock, ![m] = Dir[n]]
            => Directory!Rename(n, m)
  <1>1. /\ Opens[o] = NoBlock /\ Dir[n] # NoBlock
        /\ Opens' = [Opens EXCEPT ![o] = Dir[n]] /\ Dir' = Dir
        => Directory!Open(o, n)
    BY DEF Directory!Open, Dir, Opens
  <1>2. /\ Opens[o] = NoBlock /\ Dir[n] = NoBlock
        /\ \E f \in Blocks : /\ \A k \in Names : Dir[k] # f
                             /\ \A q \in Objects : Opens[q] # f
                             /\ Dir' = [Dir EXCEPT ![n] = f]
                             /\ Opens' = [Opens EXCEPT ![o] = f]
        => Directory!Create(o, n)
    BY ZenonT(60) DEF Directory!Create, Directory!Stored, Directory!InUse, Dir, Opens
  <1>3. Opens' = [Opens EXCEPT ![o] = NoBlock] /\ Dir' = Dir => Directory!Close(o)
    BY DEF Directory!Close, Dir, Opens
  <1>4. /\ Opens' = [Opens EXCEPT ![o] = NoBlock] /\ Dir[n] # NoBlock
        /\ Dir' = [Dir EXCEPT ![n] = NoBlock]
        /\ \A q \in Objects \ {o} : Opens[q] # Dir[n]
        => Directory!CloseAndDelete(o, n)
    BY DEF Directory!CloseAndDelete, Dir, Opens
  <1>5. /\ Opens' = Opens /\ Dir[n] # NoBlock
        /\ \A q \in Objects : Opens[q] # Dir[n]
        /\ Dir' = [Dir EXCEPT ![n] = NoBlock]
        => Directory!Delete(n)
    BY DEF Directory!Delete, Directory!InUse, Dir, Opens
  <1>6. /\ Opens' = Opens /\ Dir[n] # NoBlock /\ Dir[m] = NoBlock
        /\ \A q \in Objects : Opens[q] # Dir[n]
        /\ Dir' = [Dir EXCEPT ![n] = NoBlock, ![m] = Dir[n]]
        => Directory!Rename(n, m)
    BY DEF Directory!Rename, Directory!InUse, Dir, Opens
  <1>7. QED BY <1>1, <1>2, <1>3, <1>4, <1>5, <1>6

\* What a name denotes, and what a file object has open.
LEMMA DirAt ==
  /\ \A n \in Names : Dir[n] = Found(disk, n) /\ Dir'[n] = Found(disk', n)
  /\ \A o \in Objects : /\ HasHandle(o) => Opens[o] = obj[o].handle.key
                        /\ ~HasHandle(o) => Opens[o] = NoBlock
  BY DEF Dir, Opens

\* The directory after a step, name by name.
LEMMA DirChange ==
  /\ (\A m \in Names : Found(disk', m) = Found(disk, m)) => Dir' = Dir
  /\ \A n \in Names :
       (\A m \in Names : Found(disk', m) = IF m = n THEN NoBlock ELSE Found(disk, m))
       => Dir' = [Dir EXCEPT ![n] = NoBlock]
  /\ \A n \in Names, b \in Blocks :
       (\A m \in Names : Found(disk', m) = IF m = n THEN b ELSE Found(disk, m))
       => Dir' = [Dir EXCEPT ![n] = b]
  /\ \A n, m \in Names :
       /\ n # m
       /\ \A k \in Names : Found(disk', k) = IF k = n THEN NoBlock
                                             ELSE IF k = m THEN Found(disk, n) ELSE Found(disk, k)
       => Dir' = [Dir EXCEPT ![n] = NoBlock, ![m] = Dir[n]]
  BY DEF Dir

\* The opened files after a step that opens or closes one.
LEMMA OpensChange ==
  ASSUME NEW o \in Objects, NEW x, obj' = [obj EXCEPT ![o] = x],
         obj \in [Objects -> Object \cup {Closed}]
  PROVE  /\ HasHandle(o)' => Opens' = [Opens EXCEPT ![o] = x.handle.key]
         /\ ~HasHandle(o)' => Opens' = [Opens EXCEPT ![o] = NoBlock]
  <1>1. obj'[o] = x /\ \A p \in Objects : p # o => obj'[p] = obj[p]
    OBVIOUS
  <1>2. \A p \in Objects : p # o => (HasHandle(p)' <=> HasHandle(p))
    BY <1>1 DEF HasHandle, IsOpen
  <1>3. QED BY <1>1, <1>2 DEF Opens

\* Opening a file that is there.
LEMMA OpenExistingStep ==
  ASSUME Inv, NEW o \in Objects, NEW n \in Names, NEW acc \in Accesses,
         NEW del \in BOOLEAN, NEW doc \in BOOLEAN, OpenExisting(o, n, acc, del, doc)
  PROVE  Directory!Open(o, n)
  <1> DEFINE b == Found(disk, n)
             f == [kind |-> "file", key |-> b, copy |-> disk.hdr[b], write |-> "w" \in acc]
             x == Opened(n, del, doc, f)
  <1>1. /\ obj' = [obj EXCEPT ![o] = x] /\ disk' = disk /\ b # NoBlock /\ ~IsOpen(o)
        /\ obj \in [Objects -> Object \cup {Closed}]
    BY DEF OpenExisting, MayOpen, Inv, TypeOK
  <1>2. obj'[o] = x
    BY <1>1
  <1>3. x.handle = f /\ f.key = b /\ x # Closed /\ f # NoHandle
    BY DEF Opened, Closed, NoHandle
  <1> HIDE DEF x, f
  <1>4. HasHandle(o)'
    BY <1>2, <1>3 DEF HasHandle, IsOpen
  <1>5. Opens' = [Opens EXCEPT ![o] = b]
    BY ZenonT(60), <1>1, <1>3, <1>4, OpensChange
  <1>6. Opens[o] = NoBlock /\ Dir[n] = b
    BY <1>1, DirAt DEF HasHandle
  <1>7. Dir' = Dir
    BY <1>1 DEF Dir
  <1>8. QED BY <1>1, <1>5, <1>6, <1>7, DirectoryActions

\* Creating a file and opening it: its block was neither in the directory
\* nor open.
LEMMA OpenNewStep ==
  ASSUME Inv, NEW o \in Objects, NEW n \in Names, NEW acc \in Accesses,
         NEW del \in BOOLEAN, NEW doc \in BOOLEAN, OpenNew(o, n, acc, del, doc)
  PROVE  Directory!Create(o, n)
  <1>1. PICK b \in Blocks \ disk.used :
          /\ disk' = Created(disk, n, b)
          /\ obj' = [obj EXCEPT ![o] = Opened(n, del, doc,
               [kind |-> "file", key |-> b, copy |-> NewEntry(n), write |-> "w" \in acc])]
    BY DEF OpenNew
  <1>2. /\ disk \in Disk /\ DirectoryOK(disk) /\ Found(disk, n) = NoBlock /\ ~IsOpen(o)
        /\ obj \in [Objects -> Object \cup {Closed}]
    BY DEF OpenNew, MayOpen, Inv, TypeOK
  <1>3. b \in Blocks /\ b \notin disk.used /\ disk' = Created(disk, n, b)
    BY <1>1
  <1>4. \A m \in Names : Found(disk', m) = IF m = n THEN b ELSE Found(disk, m)
    <2>1. CreatedAs(disk, n, b, disk')
      BY <1>2, <1>3, CreatedEffect
    <2>2. QED BY <2>1 DEF CreatedAs
  <1>5. Dir' = [Dir EXCEPT ![n] = b]
    BY <1>3, <1>4, DirChange
  <1> DEFINE f == [kind |-> "file", key |-> b, copy |-> NewEntry(n), write |-> "w" \in acc]
             x == Opened(n, del, doc, f)
  <1>6. obj' = [obj EXCEPT ![o] = x]
    BY <1>1
  <1>7. x.handle = f /\ f.key = b /\ x # Closed /\ f # NoHandle
    BY DEF Opened, Closed, NoHandle
  <1> HIDE DEF x, f
  <1>8. HasHandle(o)'
    BY <1>2, <1>6, <1>7 DEF HasHandle, IsOpen
  <1>9. Opens' = [Opens EXCEPT ![o] = b]
    BY <1>2, <1>6, <1>7, <1>8, OpensChange
  <1>10. Opens[o] = NoBlock /\ Dir[n] = NoBlock
    BY <1>2, DirAt DEF HasHandle
  <1>11. ASSUME NEW k \in Names PROVE Dir[k] # b
    <2>1. Dir[k] = Found(disk, k)
      BY DirAt
    <2>2. Found(disk, k) # NoBlock => Found(disk, k) \in disk.used
      BY <1>2, FoundUsed
    <2>3. QED BY <1>3, <2>1, <2>2, BlocksAssumption
  <1>12. ASSUME NEW q \in Objects PROVE Opens[q] # b
    BY <1>3, DirAt, HandleFound, BlocksAssumption
  <1>13. QED BY <1>3, <1>5, <1>9, <1>10, <1>11, <1>12, DirectoryActions

\* Opening a file object without a handle.
LEMMA OpenPlainStep ==
  ASSUME Inv, NEW o \in Objects, NEW n \in Names,
         NEW del \in BOOLEAN, NEW doc \in BOOLEAN, OpenPlain(o, n, del, doc)
  PROVE  Dir' = Dir /\ Opens' = Opens
  <1> DEFINE x == Opened(n, del, doc, NoHandle)
  <1>1. /\ obj' = [obj EXCEPT ![o] = x] /\ disk' = disk /\ ~IsOpen(o)
        /\ obj \in [Objects -> Object \cup {Closed}]
    BY DEF OpenPlain, MayOpen, Inv, TypeOK
  <1>2. obj'[o] = x /\ x.handle = NoHandle
    BY <1>1 DEF Opened
  <1> HIDE DEF x
  <1>3. ~HasHandle(o)' /\ ~HasHandle(o)
    BY <1>1, <1>2 DEF HasHandle
  <1>4. Opens' = [Opens EXCEPT ![o] = NoBlock]
    BY <1>1, <1>3, OpensChange
  <1>5. Opens' = Opens
    BY <1>3, <1>4 DEF Opens
  <1>6. Dir' = Dir
    BY <1>1 DEF Dir
  <1>7. QED BY <1>5, <1>6

\* Deleting a file nobody has open.
LEMMA DeleteFileStep ==
  ASSUME ~DeleteOpen, Inv, NEW o \in Objects, DeleteFile(o)
  PROVE  obj[o].name \in Names /\ Directory!Delete(obj[o].name)
  <1> DEFINE n == obj[o].name
  <1>1. disk \in Disk /\ DirectoryOK(disk) /\ obj \in [Objects -> Object \cup {Closed}]
    BY DEF Inv, TypeOK
  <1>2. MayDelete(o) /\ IsOpen(o) /\ ~HasHandle(o) /\ n \in Names /\ obj[o] \in Object
    BY <1>1 DEF DeleteFile, MayDelete, IsOpen, Object
  <1>3. /\ Found(disk, n) # NoBlock /\ disk' = Removed(disk, n)
        /\ obj' = [obj EXCEPT ![o].doc = TRUE]
    BY DEF DeleteFile
  <1>4. \A m \in Names : Found(disk', m) = IF m = n THEN NoBlock ELSE Found(disk, m)
    <2>1. RemovedAs(disk, n, disk')
      BY <1>1, <1>2, <1>3, RemovedEffect
    <2>2. QED BY <2>1 DEF RemovedAs
  <1>5. Dir' = [Dir EXCEPT ![n] = NoBlock] /\ Dir[n] = Found(disk, n)
    BY <1>2, <1>4, DirChange, DirAt
  <1>6. Opens' = Opens
    <2>1. obj'[o].handle = obj[o].handle
      BY <1>1, <1>2, <1>3 DEF Object
    <2>2. ~HasHandle(o)'
      BY <1>2, <2>1 DEF HasHandle
    <2>3. \A p \in Objects : p # o => obj'[p] = obj[p]
      BY <1>1, <1>3
    <2>4. \A p \in Objects : p # o => (HasHandle(p)' <=> HasHandle(p))
      BY <2>3 DEF HasHandle, IsOpen
    <2>5. QED BY <1>2, <2>2, <2>3, <2>4 DEF Opens
  <1>7. ASSUME NEW q \in Objects PROVE Opens[q] # Dir[n]
    <2>1. CASE HasHandle(q)
      <3>1. obj[q].name # n /\ disk.hdr[obj[q].handle.key].name = obj[q].name
        BY <1>2, <2>1, NobodyUses, HandleFound
      <3>2. disk.hdr[Found(disk, n)].name = n
        BY <1>1, <1>2, <1>3, FoundUsed
      <3>3. QED BY <1>5, <2>1, <3>1, <3>2, DirAt
    <2>2. CASE ~HasHandle(q)
      BY <1>3, <1>5, <2>2, DirAt
    <2>3. QED BY <2>1, <2>2
  <1>8. QED BY <1>2, <1>3, <1>5, <1>6, <1>7, DirectoryActions

\* Renaming a file nobody has open.
LEMMA MoveFileStep ==
  ASSUME ~DeleteOpen, Inv, NEW o \in Objects, NEW m \in Names, MoveFile(o, m)
  PROVE  obj[o].name \in Names /\ Directory!Rename(obj[o].name, m)
  <1> DEFINE n == obj[o].name
  <1>1. disk \in Disk /\ DirectoryOK(disk) /\ obj \in [Objects -> Object \cup {Closed}]
    BY DEF Inv, TypeOK
  <1>2. MayDelete(o) /\ n \in Names
    BY <1>1 DEF MoveFile, MayDelete, IsOpen, Object
  <1>3. /\ Found(disk, n) # NoBlock /\ Found(disk, m) = NoBlock /\ disk' = Renamed(disk, n, m)
        /\ obj' = [p \in Objects |-> IF IsOpen(p) /\ obj[p].name = n
                                     THEN [obj[p] EXCEPT !.name = m] ELSE obj[p]]
    BY DEF MoveFile
  <1>4. \A k \in Names : Found(disk', k) = IF k = n THEN NoBlock
                                           ELSE IF k = m THEN Found(disk, n) ELSE Found(disk, k)
    <2>1. RenamedAs(disk, n, m, disk')
      BY <1>1, <1>2, <1>3, RenamedEffect
    <2>2. QED BY <2>1 DEF RenamedAs
  <1>5. /\ Dir' = [Dir EXCEPT ![n] = NoBlock, ![m] = Dir[n]]
        /\ Dir[n] = Found(disk, n) /\ Dir[m] = NoBlock
    <2>1. n # m
      BY <1>3
    <2>2. QED BY <1>2, <1>3, <1>4, <2>1, DirChange, DirAt
  <1>6. Opens' = Opens
    <2>1. ASSUME NEW p \in Objects
          PROVE  (HasHandle(p)' <=> HasHandle(p)) /\ (HasHandle(p) => obj'[p].handle = obj[p].handle)
      <3>1. CASE IsOpen(p) /\ obj[p].name = n
        <4>1. obj[p] \in Object /\ obj'[p] = [obj[p] EXCEPT !.name = m]
          BY <1>1, <1>3, <3>1 DEF IsOpen
        <4>2. obj'[p].handle = obj[p].handle /\ obj'[p] # Closed
          BY <4>1 DEF Object, Closed
        <4>3. QED BY <3>1, <4>2 DEF HasHandle, IsOpen
      <3>2. CASE ~(IsOpen(p) /\ obj[p].name = n)
        <4>1. obj'[p] = obj[p]
          BY <1>3, <3>2
        <4>2. QED BY <4>1 DEF HasHandle, IsOpen
      <3>3. QED BY <3>1, <3>2
    <2>2. QED BY <2>1 DEF Opens
  <1>7. ASSUME NEW q \in Objects PROVE Opens[q] # Dir[n]
    <2>1. CASE HasHandle(q)
      <3>1. obj[q].name # n /\ disk.hdr[obj[q].handle.key].name = obj[q].name
        BY <1>2, <2>1, NobodyUses, HandleFound
      <3>2. disk.hdr[Found(disk, n)].name = n
        BY <1>1, <1>2, <1>3, FoundUsed
      <3>3. QED BY <1>5, <2>1, <3>1, <3>2, DirAt
    <2>2. CASE ~HasHandle(q)
      BY <1>3, <1>5, <2>2, DirAt
    <2>3. QED BY <2>1, <2>2
  <1>8. QED BY <1>2, <1>3, <1>5, <1>6, <1>7, DirectoryActions

\* Protecting a file, or flushing it, changes neither names nor who has it open.
LEMMA HeaderStep ==
  ASSUME Inv, NEW o \in Objects,
         (\E prot \in {{}, {"w"}} : SetAttributes(o, prot)) \/ FlushBuffers(o)
  PROVE  Dir' = Dir /\ Opens' = Opens
  <1>1. disk \in Disk /\ DirectoryOK(disk)
    BY DEF Inv, TypeOK
  <1>2. obj' = obj
    BY DEF SetAttributes, FlushBuffers
  <1>3. ASSUME NEW m \in Names PROVE Found(disk', m) = Found(disk, m)
    <2>1. ASSUME NEW prot \in {{}, {"w"}}, SetAttributes(o, prot)
          PROVE  Found(disk', m) = Found(disk, m)
      <3> DEFINE b == Found(disk, obj[o].name)
                 e == [disk.hdr[b] EXCEPT !.prot = prot]
      <3>1. obj[o].name \in Names
        BY SMTT(60), <2>1 DEF Inv, TypeOK, SetAttributes, IsOpen, Object
      <3>2. b \in disk.used /\ b \in Blocks
        BY <1>1, <2>1, <3>1, FoundUsed DEF SetAttributes
      <3>3. disk.hdr[b] \in Entry
        BY <1>1, <3>2 DEF Disk
      <3>4. /\ e \in Entry /\ e.name = disk.hdr[b].name /\ e.next = disk.hdr[b].next
            /\ "r" \notin e.prot
        BY SMTT(60), <3>2, <3>3 DEF Entry
      <3>5. disk' = [disk EXCEPT !.hdr[b] = e]
        BY <1>1, <2>1 DEF SetAttributes, Disk
      <3> HIDE DEF b, e
      <3>6. HeaderWritten(disk, disk')
        BY <1>1, <3>2, <3>4, <3>5, HeaderEffect
      <3>7. QED BY <3>6 DEF HeaderWritten
    <2>2. CASE FlushBuffers(o)
      <3>1. IsOpen(o) /\ disk' = Flushed(disk, obj[o].handle)
        BY <2>2 DEF FlushBuffers, HasHandle
      <3>2. QED BY <3>1, FlushedEffect DEF HeaderWritten
    <2>3. QED BY <2>1, <2>2
  <1>4. Dir' = Dir
    BY <1>3, DirChange
  <1>5. Opens' = Opens
    BY <1>2 DEF Opens, HasHandle, IsOpen
  <1>6. QED BY <1>4, <1>5

\* Closing a file object, and deleting its file if nobody else has it open.
LEMMA CleanupStep ==
  ASSUME Inv, NEW o \in Objects, Cleanup(o)
  PROVE  \E n \in Names : Directory!Close(o) \/ Directory!CloseAndDelete(o, n)
  <1>0. PICK n \in Names : n = obj[o].name
    BY DEF Cleanup, Inv, TypeOK, IsOpen, Object
  <1> DEFINE c == Flushed(disk, obj[o].handle)
             b == Found(c, n)
             deletes == obj[o].doc /\ b # NoBlock /\ "w" \notin c.hdr[b].prot
  <1>1. /\ IsOpen(o) /\ disk' = (IF deletes THEN Removed(c, n) ELSE c)
        /\ obj' = [obj EXCEPT ![o] = Closed]
    BY <1>0 DEF Cleanup
  <1>2. disk \in Disk /\ DirectoryOK(disk) /\ obj \in [Objects -> Object \cup {Closed}]
    BY DEF Inv, TypeOK
  <1>3. c \in Disk /\ DirectoryOK(c) /\ \A m \in Names : Found(c, m) = Found(disk, m)
    BY <1>1, FlushedEffect DEF HeaderWritten
  <1>4. obj'[o] = Closed
    BY <1>1, <1>2
  <1>5. ~HasHandle(o)'
    BY <1>4 DEF HasHandle, IsOpen
  <1>6. Opens' = [Opens EXCEPT ![o] = NoBlock]
    BY <1>1, <1>2, <1>5, OpensChange
  <1>7. CASE ~deletes
    <2>1. disk' = c
      BY <1>1, <1>7
    <2> HIDE DEF c, b, deletes
    <2>2. Dir' = Dir
      BY <1>3, <2>1, DirChange
    <2>3. QED BY <1>2, <1>6, <2>2, DirectoryActions
  <1>8. CASE deletes
    <2>1. disk' = Removed(c, n) /\ b # NoBlock /\ obj[o].doc
      BY <1>1, <1>8
    <2>2. b = Found(disk, n)
      BY <1>2, <1>3
    <2> HIDE DEF c, b, deletes
    <2>3. ASSUME NEW d \in Disk, d = c, NEW r, r = Removed(d, n), NEW m \in Names
          PROVE  Found(r, m) = IF m = n THEN NoBlock ELSE Found(d, m)
      <3>1. DirectoryOK(d) /\ Found(d, n) # NoBlock
        BY <1>2, <1>3, <2>1, <2>2, <2>3
      <3>2. RemovedAs(d, n, r)
        BY <1>2, <2>3, <3>1, RemovedEffect
      <3>3. QED BY <3>2 DEF RemovedAs
    <2>4. \A m \in Names : Found(disk', m) = IF m = n THEN NoBlock ELSE Found(disk, m)
      BY <1>3, <2>1, <2>3
    <2>5. Dir' = [Dir EXCEPT ![n] = NoBlock] /\ Dir[n] = Found(disk, n)
      BY <1>2, <2>4, DirChange, DirAt
    <2>6. ASSUME NEW q \in Objects \ {o} PROVE Opens[q] # Dir[n]
      <3>1. CASE HasHandle(q)
        <4>1. obj[q].name # n
          BY <1>0, <1>1, <2>1, <3>1 DEF Inv, DeletersMay, Apart
        <4>2. disk.hdr[obj[q].handle.key].name = obj[q].name
          BY <3>1, HandleFound
        <4>3. disk.hdr[Found(disk, n)].name = n
          BY <1>2, <2>1, <2>2, FoundUsed
        <4>4. QED BY <2>5, <3>1, <4>1, <4>2, <4>3, DirAt
      <3>2. CASE ~HasHandle(q)
        BY <2>1, <2>2, <2>5, <3>2, DirAt
      <3>3. QED BY <3>1, <3>2
    <2>7. Dir[n] # NoBlock
      BY <2>1, <2>2, <2>5
    <2>8. Directory!CloseAndDelete(o, n)
      BY <1>2, <1>6, <2>5, <2>6, <2>7, DirectoryActions
    <2>9. QED BY <1>2, <2>8
  <1>9. QED BY <1>2, <1>7, <1>8

\* A volume just mounted is a directory with nothing open.
LEMMA DirectoryStart ==
  ASSUME Readable, Init
  PROVE  Directory!DirectoryInit
  <1>1. Inv /\ disk \in Disk /\ DirectoryOK(disk)
    BY InitInv DEF Inv, TypeOK
  <1>2. ASSUME NEW n \in Names PROVE Found(disk, n) \in Blocks \cup {NoBlock}
    BY <1>1, FoundUsed
  <1>3. ASSUME NEW m \in Names, NEW n \in Names, Found(disk, m) = Found(disk, n),
               Found(disk, m) # NoBlock
        PROVE  m = n
    <2>1. disk.hdr[Found(disk, m)].name = m
      BY <1>1, <1>3, FoundUsed
    <2>2. disk.hdr[Found(disk, n)].name = n
      BY <1>1, <1>3, FoundUsed
    <2>3. QED BY <1>3, <2>1, <2>2
  <1>4. \A o \in Objects : ~HasHandle(o)
    BY DEF Init, HasHandle, IsOpen
  <1>5. QED BY <1>2, <1>3, <1>4 DEF Directory!DirectoryInit

\* Every step is one of the directory, or none.
LEMMA DirectoryStep ==
  ASSUME ~DeleteOpen, Inv, [Next]_vars
  PROVE  Directory!DirectoryNext \/ (Dir' = Dir /\ Opens' = Opens)
  <1>1. CASE UNCHANGED vars
    BY <1>1 DEF vars, Dir, Opens, HasHandle, IsOpen
  <1>2. CASE Next
    <2>1. PICK o \in Objects :
            \/ \E n \in Names, del, doc \in BOOLEAN :
                 \/ OpenPlain(o, n, del, doc)
                 \/ \E acc \in Accesses : \/ OpenExisting(o, n, acc, del, doc)
                                          \/ OpenNew(o, n, acc, del, doc)
            \/ DeleteFile(o)
            \/ \E m \in Names : MoveFile(o, m)
            \/ (\E prot \in {{}, {"w"}} : SetAttributes(o, prot)) \/ FlushBuffers(o)
            \/ Cleanup(o)
      BY <1>2 DEF Next
    <2>2. ASSUME NEW n \in Names, NEW del \in BOOLEAN, NEW doc \in BOOLEAN,
                 OpenPlain(o, n, del, doc)
          PROVE  Dir' = Dir /\ Opens' = Opens
      BY <2>2, OpenPlainStep
    <2>3. ASSUME NEW n \in Names, NEW del \in BOOLEAN, NEW doc \in BOOLEAN,
                 NEW acc \in Accesses, OpenExisting(o, n, acc, del, doc)
          PROVE  Directory!DirectoryNext
      BY <2>3, OpenExistingStep DEF Directory!DirectoryNext
    <2>4. ASSUME NEW n \in Names, NEW del \in BOOLEAN, NEW doc \in BOOLEAN,
                 NEW acc \in Accesses, OpenNew(o, n, acc, del, doc)
          PROVE  Directory!DirectoryNext
      BY <2>4, OpenNewStep DEF Directory!DirectoryNext
    <2>5. CASE DeleteFile(o)
      BY <2>5, DeleteFileStep DEF Directory!DirectoryNext
    <2>6. ASSUME NEW m \in Names, MoveFile(o, m) PROVE Directory!DirectoryNext
      BY <2>6, MoveFileStep DEF Directory!DirectoryNext
    <2>7. CASE (\E prot \in {{}, {"w"}} : SetAttributes(o, prot)) \/ FlushBuffers(o)
      BY <2>7, HeaderStep
    <2>8. CASE Cleanup(o)
      <3>1. PICK n \in Names : Directory!Close(o) \/ Directory!CloseAndDelete(o, n)
        BY <2>8, CleanupStep
      <3>2. QED BY <3>1 DEF Directory!DirectoryNext
    <2>9. QED BY <2>1, <2>2, <2>3, <2>4, <2>5, <2>6, <2>7, <2>8
  <1>3. QED BY <1>1, <1>2

(* Hash chains, header copies and the table of open files together behave   *)
(* as a plain directory: fs_createfile, fs_deletefile, fs_movefile and      *)
(* fs_cleanup act on one file at a time and never on an open one.           *)
THEOREM AmigaFilesImplementDirectory ==
  ASSUME Undisturbed, ~DeleteOpen, Readable
  PROVE  Spec => ImplementsDirectory
  <1>1. Init => Directory!DirectoryInit
    BY DirectoryStart
  <1>2. Inv /\ [Next]_vars => [Directory!DirectoryNext]_(Directory!directoryVars)
    BY DirectoryStep DEF Directory!directoryVars, Dir, Opens
  <1>3. QED
    BY <1>1, <1>2, Invariance, PTL DEF Spec, ImplementsDirectory, Directory!DirectorySpec
=============================================================================
