---------------------------- MODULE SectorStore ----------------------------
(***************************************************************************)
(* What a SectorCacheEngine promises to the file systems above it, whatever *)
(* it caches: a successful read of a sector returns what the last           *)
(* successful write to it stored.  The one exception is a sector whose last *)
(* write reported an error ("suspect"): the medium may hold the old data,   *)
(* the new data or neither, so a read of it may return anything.            *)
(***************************************************************************)
CONSTANTS Sectors,   \* the sector numbers of the image
          Data       \* the possible contents of one sector

VARIABLES contents,  \* [Sectors -> Data]: what a reader is entitled to
          suspect,   \* sectors whose last write failed
          reply      \* the outcome of the last call

storeVars == <<contents, suspect, reply>>

NoReply == [op |-> "none"]
ReadReply(s, d) == [op |-> "read", sector |-> s, data |-> d]
WriteReply(s)   == [op |-> "write", sector |-> s]
Failed(s)       == [op |-> "failed", sector |-> s]

StoreInit ==
  /\ contents \in [Sectors -> Data]
  /\ suspect = {}
  /\ reply = NoReply

StoreRead(s) ==
  /\ \E d \in Data :
       /\ s \notin suspect => d = contents[s]
       /\ reply' = ReadReply(s, d)
  /\ UNCHANGED <<contents, suspect>>

StoreWrite(s) ==
  /\ \E d \in Data : contents' = [contents EXCEPT ![s] = d]
  /\ suspect' = suspect \ {s}
  /\ reply' = WriteReply(s)

\* A call that fails; a failed write leaves its sector's contents open.
StoreFail(s) ==
  /\ reply' = Failed(s)
  /\ \/ UNCHANGED <<contents, suspect>>
     \/ /\ \E d \in Data : contents' = [contents EXCEPT ![s] = d]
        /\ suspect' = suspect \cup {s}

StoreNext == \E s \in Sectors : StoreRead(s) \/ StoreWrite(s) \/ StoreFail(s)

StoreSpec == StoreInit /\ [][StoreNext]_storeVars
=============================================================================
