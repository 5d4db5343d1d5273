------------------------ MODULE SectorCache_proofs ------------------------
(***************************************************************************)
(* What TLC checks of SectorCache on three sectors, for images and caches   *)
(* of any size: type correctness, the bound on the cache, and, for images   *)
(* of at most 4 GiB (Size <= 2 * Reach), coherence and the refinement of    *)
(* SectorStore.                                                            *)
(***************************************************************************)
EXTENDS SectorCache, FiniteSetTheorems, TLAPS

-----------------------------------------------------------------------------
(***************************************************************************)
(* Lemmas on the helpers of writeCache.                                     *)
(***************************************************************************)

(* writeCache, its eviction included: the sector is cached with its data,   *)
(* every other cached sector was cached before with the same entry, and at  *)
(* most one is gone.                                                       *)
LEMMA WriteCacheEffect ==
  ASSUME TypeOK, NEW s \in Sectors, NEW d \in Data, WriteCache(s, d)
  PROVE  /\ DOMAIN cache' \subseteq Sectors
         /\ cache' \in [DOMAIN cache' -> Entry]
         /\ s \in DOMAIN cache'
         /\ cache'[s].data = d
         /\ \A x \in DOMAIN cache' \ {s} : x \in Cached /\ cache'[x] = cache[x]
         /\ \/ Cached \subseteq DOMAIN cache'
            \/ \E v \in Oldest : v # s /\ DOMAIN cache' = (Cached \ {v}) \cup {s}
<1>1. CASE s \in Cached \/ Cardinality(Cached) <= MaxEntries
  <2>1. cache' = Stored(cache, s, d)
    BY <1>1 DEF WriteCache
  <2>2. /\ cache' \in [Cached \cup {s} -> Entry]
        /\ DOMAIN cache' = Cached \cup {s}
        /\ cache'[s] = [data |-> d, lastUse |-> now]
        /\ \A x \in Cached \ {s} : cache'[x] = cache[x]
    BY <2>1 DEF TypeOK, Stored, Entry
  <2>3. QED
    BY <2>2 DEF TypeOK
<1>2. CASE ~(s \in Cached \/ Cardinality(Cached) <= MaxEntries)
  <2>1. PICK v \in Oldest : cache' = Stored(Without(cache, v), s, d)
    BY <1>2 DEF WriteCache
  <2>2. v \in Cached /\ v # s
    BY <1>2 DEF Oldest
  <2>  DEFINE kept == Without(cache, v)
  <2>4. /\ kept \in [Cached \ {v} -> Entry]
        /\ DOMAIN kept = Cached \ {v}
        /\ \A x \in Cached \ {v} : kept[x] = cache[x]
    BY DEF Without, TypeOK
  <2>5. cache' = Stored(kept, s, d)
    BY <2>1
  <2> HIDE DEF kept
  <2>6. /\ cache' \in [(Cached \ {v}) \cup {s} -> Entry]
        /\ DOMAIN cache' = (Cached \ {v}) \cup {s}
        /\ cache'[s] = [data |-> d, lastUse |-> now]
        /\ \A x \in (Cached \ {v}) \ {s} : cache'[x] = kept[x]
    BY <2>4, <2>5 DEF TypeOK, Stored, Entry
  <2>7. QED
    BY <2>2, <2>4, <2>6 DEF TypeOK
<1>3. QED
  BY <1>1, <1>2

(* With an image of at most 4 GiB the 32-bit offset is the right one.       *)
LEMMA WritePosExact ==
  ASSUME Size <= 2 * Reach, NEW s \in Sectors
  PROVE  WritePos(s) = s
<1>1. /\ s \in Nat /\ 2 * Reach \in Nat \ {0} /\ s < 2 * Reach
  BY SizeAssumption, BoundAssumption DEF Sectors
<1>2. \A a \in Nat, n \in Nat \ {0} : a < n => a % n = a
  OBVIOUS
<1>3. QED
  BY <1>1, <1>2 DEF WritePos

-----------------------------------------------------------------------------
(***************************************************************************)
(* The invariants.                                                          *)
(***************************************************************************)

(* TypeOK holds initially and every call preserves it.                      *)
LEMMA TypeInit == Init => TypeOK
  BY DEF Init, TypeOK, Cached, Entry

LEMMA TypeStep == TypeOK /\ [Next]_vars => TypeOK'
<1> SUFFICES ASSUME TypeOK, [Next]_vars PROVE TypeOK'
  OBVIOUS
<1> USE DEF TypeOK
<1>1. ASSUME NEW s \in Sectors, ReadHit(s) PROVE TypeOK'
  <2>1. /\ DOMAIN cache' = Cached
        /\ cache' \in [Cached -> Entry]
    BY <1>1 DEF ReadHit, Entry
  <2>2. QED
    BY <1>1, <2>1 DEF ReadHit, Cached
<1>2. ASSUME NEW s \in Sectors, ReadMiss(s) PROVE TypeOK'
  <2>1. file[s] \in Data
    OBVIOUS
  <2>2. QED
    BY <1>2, <2>1, WriteCacheEffect DEF ReadMiss, Cached
<1>3. ASSUME NEW s \in Sectors, HybridRead(s) \/ ReadFails(s) \/ WriteSeekFails(s)
      PROVE TypeOK'
  BY <1>3 DEF HybridRead, ReadFails, WriteSeekFails, Cached
<1>4. ASSUME NEW s \in Sectors, NEW d \in Data, Write(s, d) PROVE TypeOK'
  BY <1>4, WriteCacheEffect DEF Write, Cached
<1>5. ASSUME NEW s \in Sectors, NEW d \in Data, WriteFileFails(s, d) PROVE TypeOK'
  BY <1>5 DEF WriteFileFails, Cached
<1>6. CASE ResetCache
  BY <1>6 DEF ResetCache, Cached
<1>7. CASE Tick
  BY <1>7 DEF Tick, Cached
<1>8. CASE UNCHANGED vars
  BY <1>8 DEF vars, Cached
<1>9. QED
  BY <1>1, <1>2, <1>3, <1>4, <1>5, <1>6, <1>7, <1>8 DEF Next

(* The cache maps sectors of the image to sector contents, always.          *)
THEOREM TypeCorrect == Spec => []TypeOK
  BY TypeInit, TypeStep, PTL DEF Spec

(* A cached sector is the sector on file, given that the write position is  *)
(* exact.  The invariant is inductive together with TypeOK: a write changes *)
(* file and cache at the same sector, and an eviction keeps the data of the *)
(* sectors that stay (WriteCacheEffect).                                    *)
LEMMA CoherentStep ==
  ASSUME Size <= 2 * Reach
  PROVE  TypeOK /\ Coherent /\ [Next]_vars => Coherent'
<1> SUFFICES ASSUME TypeOK, Coherent, [Next]_vars PROVE Coherent'
  OBVIOUS
<1> USE DEF TypeOK, Coherent
<1>1. ASSUME NEW s \in Sectors, ReadHit(s) PROVE Coherent'
  <2>1. /\ DOMAIN cache' = Cached
        /\ \A x \in Cached : cache'[x].data = cache[x].data
    BY <1>1 DEF ReadHit, Entry
  <2>2. QED
    BY <1>1, <2>1 DEF ReadHit, Cached
<1>2. ASSUME NEW s \in Sectors, ReadMiss(s) PROVE Coherent'
  <2>1. file[s] \in Data
    OBVIOUS
  <2>2. QED
    BY <1>2, <2>1, WriteCacheEffect DEF ReadMiss, Cached
<1>3. ASSUME NEW s \in Sectors, HybridRead(s) \/ ReadFails(s) \/ WriteSeekFails(s)
      PROVE Coherent'
  BY <1>3 DEF HybridRead, ReadFails, WriteSeekFails, Cached
<1>4. ASSUME NEW s \in Sectors, NEW d \in Data, Write(s, d) PROVE Coherent'
  <2>1. file' = [file EXCEPT ![s] = d] /\ suspect' = suspect \ {s}
    BY <1>4, WritePosExact DEF Write
  <2>2. /\ cache'[s].data = d
        /\ \A x \in DOMAIN cache' \ {s} : x \in Cached /\ cache'[x] = cache[x]
        /\ DOMAIN cache' \subseteq Sectors
    BY <1>4, WriteCacheEffect DEF Write
  <2>3. QED
    BY <2>1, <2>2 DEF Cached
<1>5. ASSUME NEW s \in Sectors, NEW d \in Data, WriteFileFails(s, d) PROVE Coherent'
  <2>1. file' = [file EXCEPT ![s] = d] /\ suspect' = suspect \cup {s} /\ cache' = cache
    BY <1>5, WritePosExact DEF WriteFileFails
  <2>2. QED
    BY <2>1 DEF Cached
<1>6. CASE ResetCache
  BY <1>6 DEF ResetCache, Cached
<1>7. CASE Tick
  BY <1>7 DEF Tick, Cached
<1>8. CASE UNCHANGED vars
  BY <1>8 DEF vars, Cached
<1>9. QED
  BY <1>1, <1>2, <1>3, <1>4, <1>5, <1>6, <1>7, <1>8 DEF Next

(* readCache never serves stale data, for every image of at most 4 GiB,     *)
(* every cache size and every order of calls and failures.                  *)
THEOREM CacheCoherent == ASSUME Size <= 2 * Reach PROVE Spec => []Coherent
<1>1. Init => Coherent
  BY DEF Init, Coherent, Cached
<1>2. TypeOK /\ Coherent /\ [Next]_vars => Coherent'
  BY CoherentStep
<1>3. QED
  BY <1>1, <1>2, TypeCorrect, PTL DEF Spec

-----------------------------------------------------------------------------
(***************************************************************************)
(* The bound on the cache.  Cardinalities need finite sets: the sectors of  *)
(* an image are an interval.                                                *)
(***************************************************************************)

LEMMA CachedFinite == TypeOK => IsFiniteSet(Cached)
<1>1. IsFiniteSet(Sectors)
  BY SizeAssumption, FS_Interval DEF Sectors
<1>2. QED
  BY <1>1, FS_Subset DEF TypeOK

(* writeCache adds an entry only to a cache of at most MaxEntries; to a     *)
(* fuller one it adds one and takes one away.                               *)
LEMMA WriteCacheBounded ==
  ASSUME TypeOK, CapacityBound, NEW s \in Sectors, NEW d \in Data, WriteCache(s, d)
  PROVE  Cardinality(DOMAIN cache') <= MaxEntries + 1
<1>1. /\ IsFiniteSet(Cached)
      /\ Cardinality(Cached) \in Nat
      /\ MaxEntries \in Nat
  BY CachedFinite, FS_CardinalityType, BoundAssumption
<1>2. CASE s \in Cached \/ Cardinality(Cached) <= MaxEntries
  <2>1. DOMAIN cache' = Cached \cup {s}
    BY <1>2 DEF WriteCache, Stored, Cached
  <2>2. CASE s \in Cached
    <3>1. DOMAIN cache' = Cached
      BY <2>1, <2>2
    <3>2. QED
      BY <3>1 DEF CapacityBound
  <2>3. CASE s \notin Cached
    <3>1. Cardinality(Cached \cup {s}) = Cardinality(Cached) + 1
      BY <1>1, <2>3, FS_AddElement
    <3>2. QED
      BY <1>1, <1>2, <2>1, <2>3, <3>1
  <2>4. QED
    BY <2>2, <2>3
<1>3. CASE ~(s \in Cached \/ Cardinality(Cached) <= MaxEntries)
  <2>1. PICK v \in Oldest : cache' = Stored(Without(cache, v), s, d)
    BY <1>3 DEF WriteCache
  <2>2. v \in Cached
    BY DEF Oldest
  <2>3. DOMAIN cache' = (Cached \ {v}) \cup {s}
    BY <2>1 DEF Stored, Without, Cached
  <2>4. /\ IsFiniteSet(Cached \ {v})
        /\ Cardinality(Cached \ {v}) = Cardinality(Cached) - 1
    BY <1>1, <2>2, FS_RemoveElement
  <2>5. Cardinality((Cached \ {v}) \cup {s}) = Cardinality(Cached \ {v}) + 1
    BY SMTT(60), <1>3, <2>4, FS_AddElement
  <2>6. QED
    BY <1>1, <2>3, <2>4, <2>5 DEF CapacityBound
<1>4. QED
  BY <1>2, <1>3

(* m_cache stays within one entry of m_maxCacheEntries, whatever its size.  *)
THEOREM CacheBounded == Spec => []CapacityBound
<1>1. Init => CapacityBound
  BY FS_EmptySet, BoundAssumption DEF Init, CapacityBound, Cached
<1>2. TypeOK /\ CapacityBound /\ [Next]_vars => CapacityBound'
  <2> SUFFICES ASSUME TypeOK, CapacityBound, [Next]_vars PROVE CapacityBound'
    OBVIOUS
  <2>1. ASSUME NEW s \in Sectors, ReadHit(s) PROVE CapacityBound'
    BY <2>1 DEF ReadHit, CapacityBound, Cached
  <2>2. ASSUME NEW s \in Sectors, ReadMiss(s) PROVE CapacityBound'
    <3>1. file[s] \in Data /\ WriteCache(s, file[s])
      BY <2>2 DEF TypeOK, ReadMiss
    <3>2. QED
      BY <3>1, WriteCacheBounded DEF CapacityBound, Cached
  <2>3. ASSUME NEW s \in Sectors, NEW d \in Data, Write(s, d) PROVE CapacityBound'
    <3>1. WriteCache(s, d)
      BY <2>3 DEF Write
    <3>2. QED
      BY <3>1, WriteCacheBounded DEF CapacityBound, Cached
  <2>4. CASE ResetCache
    <3>1. DOMAIN cache' = {}
      BY <2>4 DEF ResetCache
    <3>2. QED
      BY <3>1, FS_EmptySet, BoundAssumption DEF CapacityBound, Cached
  <2>5. CASE UNCHANGED cache
    BY <2>5 DEF CapacityBound, Cached
  <2>6. QED
    BY <2>1, <2>2, <2>3, <2>4, <2>5
       DEF Next, HybridRead, ReadFails, WriteSeekFails, WriteFileFails, Tick, vars
<1>3. QED
  BY <1>1, <1>2, TypeCorrect, PTL DEF Spec

-----------------------------------------------------------------------------
(***************************************************************************)
(* The action property and the refinement.                                  *)
(***************************************************************************)

(* The step of EvictsOldest, named for the proof.                           *)
Evicted == Cached \ DOMAIN cache'
OldestGoes ==
  \A v \in Evicted :
    \/ DOMAIN cache' = {}
    \/ /\ Cardinality(Evicted) = 1
       /\ \A w \in DOMAIN cache' \cap Cached : cache[v].lastUse <= cache[w].lastUse

LEMMA WriteCacheOldestGoes ==
  ASSUME TypeOK, NEW s \in Sectors, NEW d \in Data, WriteCache(s, d)
  PROVE  OldestGoes
<1>1. CASE Cached \subseteq DOMAIN cache'
  BY <1>1 DEF OldestGoes, Evicted
<1>2. CASE \E v \in Oldest : v # s /\ DOMAIN cache' = (Cached \ {v}) \cup {s}
  <2>1. PICK v \in Oldest : v # s /\ DOMAIN cache' = (Cached \ {v}) \cup {s}
    BY <1>2
  <2>2. Evicted = {v}
    BY <2>1 DEF Evicted, Oldest
  <2>3. Cardinality({v}) = 1
    BY FS_Singleton
  <2>4. \A w \in Cached : cache[v].lastUse <= cache[w].lastUse
    BY <2>1 DEF Oldest
  <2>5. QED
    BY <2>2, <2>3, <2>4 DEF OldestGoes
<1>3. QED
  BY <1>1, <1>2, WriteCacheEffect

(* Only the least recently used entry is ever evicted, one in a step.       *)
THEOREM EvictionCorrect == Spec => EvictsOldest
<1>1. TypeOK /\ [Next]_vars => [OldestGoes]_vars
  <2> SUFFICES ASSUME TypeOK, [Next]_vars PROVE OldestGoes \/ UNCHANGED vars
    OBVIOUS
  <2>1. ASSUME NEW s \in Sectors, ReadHit(s) PROVE OldestGoes
    BY <2>1 DEF ReadHit, OldestGoes, Evicted, Cached
  <2>2. ASSUME NEW s \in Sectors, ReadMiss(s) PROVE OldestGoes
    <3>1. file[s] \in Data /\ WriteCache(s, file[s])
      BY <2>2 DEF TypeOK, ReadMiss
    <3>2. QED
      BY <3>1, WriteCacheOldestGoes
  <2>3. ASSUME NEW s \in Sectors, NEW d \in Data, Write(s, d) PROVE OldestGoes
    BY <2>3, WriteCacheOldestGoes DEF Write
  <2>4. CASE ResetCache
    BY <2>4 DEF ResetCache, OldestGoes
  <2>5. CASE UNCHANGED cache
    BY <2>5 DEF OldestGoes, Evicted, Cached
  <2>6. QED
    BY <2>1, <2>2, <2>3, <2>4, <2>5
       DEF Next, HybridRead, ReadFails, WriteSeekFails, WriteFileFails, Tick
<1>2. [][OldestGoes]_vars => EvictsOldest
  BY DEF EvictsOldest, OldestGoes, Evicted
<1>3. QED
  BY <1>1, <1>2, TypeCorrect, PTL DEF Spec

(* Every call of the cached file is a call of the plain store or a stutter, *)
(* given that the write position is exact.                                  *)
LEMMA StepRefines ==
  ASSUME Size <= 2 * Reach
  PROVE  TypeOK /\ Coherent /\ [Next]_vars => [Store!StoreNext]_(Store!storeVars)
<1> SUFFICES ASSUME TypeOK, Coherent, [Next]_vars
             PROVE  Store!StoreNext \/ UNCHANGED Store!storeVars
  OBVIOUS
<1>1. ASSUME NEW s \in Sectors, ReadHit(s) PROVE Store!StoreRead(s)
  <2>1. /\ cache[s].data \in Data
        /\ s \notin suspect => cache[s].data = file[s]
    BY <1>1 DEF ReadHit, TypeOK, Coherent, Entry
  <2>2. QED
    BY <1>1, <2>1 DEF ReadHit, Store!StoreRead
<1>2. ASSUME NEW s \in Sectors, ReadMiss(s) \/ HybridRead(s) PROVE Store!StoreRead(s)
  <2>1. file[s] \in Data
    BY DEF TypeOK
  <2>2. QED
    BY <1>2, <2>1 DEF ReadMiss, HybridRead, Store!StoreRead
<1>3. ASSUME NEW s \in Sectors, ReadFails(s) \/ WriteSeekFails(s) PROVE Store!StoreFail(s)
  BY <1>3 DEF ReadFails, WriteSeekFails, Store!StoreFail
<1>4. ASSUME NEW s \in Sectors, NEW d \in Data, Write(s, d) PROVE Store!StoreWrite(s)
  BY <1>4, WritePosExact DEF Write, Store!StoreWrite
<1>5. ASSUME NEW s \in Sectors, NEW d \in Data, WriteFileFails(s, d)
      PROVE Store!StoreFail(s)
  BY <1>5, WritePosExact DEF WriteFileFails, Store!StoreFail
<1>6. CASE ResetCache \/ Tick \/ UNCHANGED vars
  BY <1>6 DEF ResetCache, Tick, vars, Store!storeVars
<1>7. QED
  BY <1>1, <1>2, <1>3, <1>4, <1>5, <1>6 DEF Next, Store!StoreNext

(* For images of at most 4 GiB the cached file implements the plain store:  *)
(* callers cannot tell that there is a cache.                               *)
THEOREM CacheImplementsStore == ASSUME Size <= 2 * Reach PROVE Spec => ImplementsStore
<1>1. Init => Store!StoreInit
  BY DEF Init, Store!StoreInit
<1>2. TypeOK /\ Coherent /\ [Next]_vars => [Store!StoreNext]_(Store!storeVars)
  BY StepRefines
<1>3. QED
  BY <1>1, <1>2, TypeCorrect, CacheCoherent, PTL DEF Spec, ImplementsStore, Store!StoreSpec
=============================================================================
