---------------------------- MODULE SectorCache ----------------------------
(***************************************************************************)
(* SectorCacheEngine (sectorCache.cpp) over an uncompressed image file      *)
(* (SectorRW_File, readwrite_file.cpp): a write-through cache that evicts   *)
(* the least recently used sector.  m_multithreadLock is held by readData,  *)
(* writeData and hybridReadData from start to end, so each call is one      *)
(* action here.                                                            *)
(*                                                                         *)
(* Reads position the file with a 64-bit offset.  Writes position it with   *)
(* `sectorNumber * sectorSize' in 32 bits, handed to a parameter of type    *)
(* LONG: an offset in the upper half of 4 GiB is a negative seek and fails, *)
(* one beyond 4 GiB wraps round.  Reach counts the sectors in 2 GiB.        *)
(***************************************************************************)
EXTENDS Integers, FiniteSets

CONSTANTS Size,        \* sectors of the image
          Data,        \* possible contents of a sector
          MaxEntries,  \* m_maxCacheEntries
          Reach,       \* sectors whose byte offset is below 2^31
          MaxTicks     \* bound: ticks of GetTickCount64 explored

ASSUME SizeAssumption == Size \in Nat \ {0}
ASSUME DataAssumption == Data # {}
ASSUME BoundAssumption ==
  /\ MaxEntries \in Nat
  /\ Reach \in Nat \ {0}
  /\ MaxTicks \in Nat

VARIABLES file,     \* contents of the image file
          cache,    \* m_cache: a function from the cached sectors
          now,      \* GetTickCount64
          suspect,  \* history: sectors whose last write failed half way
          reply     \* outcome of the last call

vars == <<file, cache, now, suspect, reply>>

Sectors == 0 .. Size - 1

Store == INSTANCE SectorStore WITH contents <- file

Cached == DOMAIN cache
Entry == [data : Data, lastUse : Nat]
-----------------------------------------------------------------------------
\* A mutant: one sector too far.
WritePosOffByOne(s) == (s + 1) % Size
\* Where the file pointer lands for a write to sector s, and whether the
\* 32-bit offset is a legal (non-negative) seek.
WritePos(s) == s % (2 * Reach)
CanSeek(s) == WritePos(s) < Reach

\* A mutant: the comparison of the search turned round.
Newest == {v \in Cached : \A w \in Cached : cache[v].lastUse >= cache[w].lastUse}
\* getAndReleaseOldestSector: any of the cached sectors with least lastUse.
Oldest == {v \in Cached : \A w \in Cached : cache[v].lastUse <= cache[w].lastUse}

\* The cache c after sector s is stored in it with data d.
Stored(c, s, d) ==
  [x \in DOMAIN c \cup {s} |->
     IF x = s THEN [data |-> d, lastUse |-> now] ELSE c[x]]

\* A mutant: the buffer is taken, the map entry stays behind without it.
WithoutData(c, v) ==
  [x \in DOMAIN c |-> IF x = v THEN [lastUse |-> c[x].lastUse] ELSE c[x]]
Without(c, v) == [x \in DOMAIN c \ {v} |-> c[x]]

\* Mutants: a hit refreshes lastUse but not the data; the size is never tested.
WriteCacheKeepsData(s, d) ==
  cache' = Stored(cache, s, IF s \in Cached THEN cache[s].data ELSE d)
WriteCacheUnbounded(s, d) == cache' = Stored(cache, s, d)
\* writeCache: an absent sector takes over the buffer of the oldest one when
\* the map holds more than m_maxCacheEntries.
WriteCache(s, d) ==
  IF s \in Cached \/ Cardinality(Cached) <= MaxEntries
  THEN cache' = Stored(cache, s, d)
  ELSE \E v \in Oldest : cache' = Stored(Without(cache, v), s, d)
-----------------------------------------------------------------------------
Init ==
  /\ file \in [Sectors -> Data]
  /\ cache = [s \in {} |-> 0]
  /\ now = 0
  /\ suspect = {}
  /\ reply = Store!NoReply

\* readData, served by readCache.
ReadHit(s) ==
  /\ s \in Cached
  /\ cache' = [cache EXCEPT ![s].lastUse = now]
  /\ reply' = Store!ReadReply(s, cache[s].data)
  /\ UNCHANGED <<file, now, suspect>>

\* readData, served by internalReadData and remembered.
ReadMiss(s) ==
  /\ s \notin Cached
  /\ WriteCache(s, file[s])
  /\ reply' = Store!ReadReply(s, file[s])
  /\ UNCHANGED <<file, now, suspect>>

\* hybridReadData goes to the file whatever is cached.
HybridRead(s) ==
  /\ reply' = Store!ReadReply(s, file[s])
  /\ UNCHANGED <<file, cache, now, suspect>>

\* ReadFile fails or returns too little.
ReadFails(s) ==
  /\ reply' = Store!Failed(s)
  /\ UNCHANGED <<file, cache, now, suspect>>

\* writeData: the file first, the cache only once that succeeded.
Write(s, d) ==
  /\ CanSeek(s)
  /\ file' = [file EXCEPT ![WritePos(s)] = d]
  /\ WriteCache(s, d)
  /\ suspect' = suspect \ {s}
  /\ reply' = Store!WriteReply(s)
  /\ UNCHANGED now

\* SetFilePointer refuses the offset: nothing was touched.
WriteSeekFails(s) ==
  /\ ~CanSeek(s)
  /\ reply' = Store!Failed(s)
  /\ UNCHANGED <<file, cache, now, suspect>>

\* WriteFile fails or writes too little: the sector on file is anything, the
\* cached copy is left as it was.
WriteFileFails(s, d) ==
  /\ CanSeek(s)
  /\ file' = [file EXCEPT ![WritePos(s)] = d]
  /\ suspect' = suspect \cup {s}
  /\ reply' = Store!Failed(s)
  /\ UNCHANGED <<cache, now>>

ResetCache ==
  /\ cache' = [s \in {} |-> 0]
  /\ UNCHANGED <<file, now, suspect, reply>>

Tick ==
  /\ now < MaxTicks
  /\ now' = now + 1
  /\ UNCHANGED <<file, cache, suspect, reply>>

Next ==
  \/ \E s \in Sectors : \/ ReadHit(s)
                        \/ ReadMiss(s)
                        \/ HybridRead(s)
                        \/ ReadFails(s)
                        \/ WriteSeekFails(s)
                        \/ \E d \in Data : Write(s, d) \/ WriteFileFails(s, d)
  \/ ResetCache
  \/ Tick

Spec == Init /\ [][Next]_vars
-----------------------------------------------------------------------------
(* Every cached sector belongs to the image; sector contents are data. *)
TypeOK ==
  /\ file \in [Sectors -> Data]
  /\ Cached \subseteq Sectors
  /\ cache \in [Cached -> Entry]
  /\ now \in Nat
  /\ suspect \subseteq Sectors

(* A cached sector equals the sector on file unless its last write failed:  *)
(* whatever order reads, writes, failures and evictions come in, readCache  *)
(* never serves stale data.                                                *)
Coherent == \A s \in Cached \ suspect : cache[s].data = file[s]

(* The map never outgrows m_maxCacheEntries by more than the one entry the  *)
(* `>' of writeCache's size test lets through, so memory stays bounded.     *)
CapacityBound == Cardinality(Cached) <= MaxEntries + 1

(* The cached file behaves as a plain store of sectors: a successful read   *)
(* returns what the last successful write of that sector stored.           *)
ImplementsStore == Store!StoreSpec

(* A step drops at most one sector from the cache (unless it is reset), and *)
(* never one used more recently than a sector it keeps.                    *)
EvictsOldest ==
  [][\A v \in Cached \ DOMAIN cache' :
       \/ DOMAIN cache' = {}
       \/ /\ Cardinality(Cached \ DOMAIN cache') = 1
          /\ \A w \in DOMAIN cache' \cap Cached : cache[v].lastUse <= cache[w].lastUse
    ]_vars
=============================================================================
