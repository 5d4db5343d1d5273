-------------------------- MODULE MfmCache_proofs --------------------------
(***************************************************************************)
(* What TLC checks of MfmCache on two tracks, for any disks, tracks,        *)
(* sectors and bounds.  Type correctness and that Abort stops the writing   *)
(* hold whatever goes wrong; the other theorems name, as a bound on Faults, *)
(* what must not happen.                                                   *)
(*                                                                         *)
(* The inductive invariants build on each other:                            *)
(*   FlushInv   when a flush is under way, and that none is once blocked     *)
(*   HomeInv    the loop's set of tracks; whose disk the drive holds         *)
(*   SteadyInv  as long as no disk is taken out with writes pending, the     *)
(*              disk and its type stay the ones the pending writes are for   *)
(*   CleanInv   what is cached, and the buffer, against what is on the disk *)
(*   LossInv    where each accepted write is                                *)
(*   NearInv    (over SteadyInv) what a track write does to the others      *)
(***************************************************************************)
EXTENDS MfmCache, WellFoundedInduction, TLAPS

(* Every set of track numbers has a least element: the key that the loop of  *)
(* flushPendingWrites visits next is one of the pending ones.                *)
LEMMA LeastIn ==
  ASSUME NEW S, S \subseteq Nat, S # {}
  PROVE  Least(S) \in S /\ \A u \in S : Least(S) <= u
<1>  DEFINE Less == {p \in Nat \X Nat : p[1] < p[2]}
<1>1. IsWellFoundedOn(Less, Nat)
  BY ONLY NatLessThanWellFounded, Zenon DEF OpToRel
<1>2. \E t \in S : \A u \in S : ~(<<u, t>> \in Less)
  <2> HIDE DEF Less
  <2> QED BY <1>1, WFMin, Zenon
<1>3. \A t, u \in Nat : <<u, t>> \notin Less => t <= u
  OBVIOUS
<1>4. PICK t \in S : \A u \in S : t <= u
  <2> HIDE DEF Less
  <2> QED BY <1>2, <1>3
<1>5. QED
  BY <1>4 DEF Least

LEMMA FirstTrackIn == Least(Tracks) \in Tracks
  BY LeastIn, TracksAssumption

-----------------------------------------------------------------------------
(***************************************************************************)
(* What the helpers do to the cache.                                        *)
(***************************************************************************)

LEMMA NoTrackTyped == NoTracks \in [Tracks -> [Sectors -> Entry]] /\ NoTrack \in [Sectors -> Entry]
  BY DEF NoTracks, NoTrack, NoSector, Entry, Data

LEMMA ScanTyped ==
  ASSUME TypeOK, inDrive # NoDisk, NEW t \in Tracks, NEW w
  PROVE  Scan(inDrive, t, w) \in [Sectors -> Entry]
  BY DEF Scan, Entry, Cell, Data, TypeOK, Good, Weak, Absent

(* One pass over a track changes the cache of this track alone.              *)
LEMMA DecodeEffect ==
  ASSUME TypeOK, inDrive # NoDisk, NEW t \in Tracks, NEW w, NEW type,
         Decode(t, w, type)
  PROVE  /\ diskType' \in {"unknown", "known"}
         /\ type = "known" => diskType' = "known"
         /\ trackCache' \in [Tracks -> [Sectors -> Entry]]
         /\ \A u \in Tracks \ {t} : trackCache'[u] = trackCache[u]
         /\ \/ trackCache'[t] = trackCache[t] /\ diskType' = "unknown"
            \/ /\ trackCache'[t] = Merge(trackCache[t], Scan(inDrive, t, w))
               /\ diskType' = "known"
<1>  DEFINE scan == Scan(inDrive, t, w)
            known == type = "known" \/ \E s \in Sectors : scan[s].errs = Good
<1>1. /\ diskType' = IF known THEN "known" ELSE "unknown"
      /\ trackCache' = IF known THEN [trackCache EXCEPT ![t] = Merge(@, scan)]
                       ELSE trackCache
  BY DEF Decode
<1>2. scan \in [Sectors -> Entry]
  BY ScanTyped
<1>3. trackCache \in [Tracks -> [Sectors -> Entry]]
  BY DEF TypeOK
<1>4. Merge(trackCache[t], scan) \in [Sectors -> Entry]
  <2> HIDE DEF scan
  <2> QED BY <1>2, <1>3 DEF Merge, Better
<1>  HIDE DEF scan, known
<1>5. CASE known
  BY <1>1, <1>3, <1>4, <1>5 DEF scan
<1>6. CASE ~known
  BY <1>1, <1>3, <1>6 DEF known
<1>7. QED
  BY <1>5, <1>6

(* A client's write changes one sector of the cache.                         *)
LEMMA SectorCached ==
  ASSUME NEW c \in [Tracks -> [Sectors -> Entry]], NEW t \in Tracks, NEW s \in Sectors,
         NEW e \in Entry, NEW new, new = [c EXCEPT ![t][s] = e]
  PROVE  /\ new \in [Tracks -> [Sectors -> Entry]]
         /\ new[t][s] = e
         /\ \A u \in Tracks, x \in Sectors : u # t \/ x # s => new[u][x] = c[u][x]
<1>1. [c[t] EXCEPT ![s] = e] \in [Sectors -> Entry]
  OBVIOUS
<1>2. new = [c EXCEPT ![t] = [c[t] EXCEPT ![s] = e]]
  OBVIOUS
<1>3. QED
  BY <1>1, <1>2

(* Writing the track at which the flush is changes that track alone.         *)
LEMMA MediaEffect ==
  ASSUME TypeOK, inDrive # NoDisk, NEW c \in [Sectors -> Cell],
         media' = [media EXCEPT ![inDrive][track] = c]
  PROVE  /\ media' \in [Disks -> [Tracks -> [Sectors -> Cell]]]
         /\ media'[inDrive][track] = c
         /\ \A d \in Disks, t \in Tracks :
              d # inDrive \/ t # track => media'[d][t] = media[d][t]
  BY DEF TypeOK

(* mfmWrite puts its buffer on the disk, some sectors undecodable, or, if it  *)
(* times out, leaves the track lost or as it was.                            *)
LEMMA FlushWriteEffect ==
  ASSUME TypeOK, FlushWrite
  PROVE  \/ UNCHANGED media /\ buffer = Nothing
         \/ \E c \in SUBSET Sectors :
              /\ "corrupt" \notin Faults => c = {}
              /\ buffer # Nothing
              /\ media' = [media EXCEPT ![inDrive][track] =
                             [s \in Sectors |-> IF s \in c THEN Bad ELSE buffer[s]]]
              /\ [s \in Sectors |-> IF s \in c THEN Bad ELSE buffer[s]] \in [Sectors -> Cell]
  BY DEF FlushWrite, TypeOK, Cell

-----------------------------------------------------------------------------
(***************************************************************************)
(* TypeOK: values stay in their sets, and the lock belongs to the thread at *)
(* a guarded step.                                                          *)
(***************************************************************************)

LEMMA TypeInit == Init => TypeOK
<1> SUFFICES ASSUME Init PROVE TypeOK
  OBVIOUS
<1> USE DEF Init
<1>1. /\ inDrive \in Disks \cup {NoDisk}
      /\ media \in [Disks -> [Tracks -> [Sectors -> Cell]]]
      /\ home \in Disks
      /\ owed \in [Tracks -> [Sectors -> Cell]]
  BY DEF Cell, Data, NoneOwed
<1>2. trackCache \in [Tracks -> [Sectors -> Entry]] /\ track \in Tracks
  BY NoTrackTyped, FirstTrackIn
<1>3. /\ DOMAIN pc = Threads
      /\ pc["client"] \in ClientSteps /\ pc["timer"] \in TimerSteps
      /\ pc["app"] \in AppSteps
      /\ lock = "client" <=> pc["client"] \in {"writeFlush", "readFlush", "read"}
      /\ lock = "timer" <=> pc["timer"] \in {"flushed", "check", "warn"}
      /\ lock = "app" <=> pc["app"] \in {"locking", "cleaned", "formatted", "unlocking"}
      /\ lock \in Threads \cup {NoThread}
  BY ThreadAssumption DEF Threads, ClientSteps, TimerSteps, AppSteps
<1>4. /\ req \in Requests /\ retries \in 0 .. MaxRetries + 1
      /\ requests \in 0 .. MaxRequests /\ removals \in 0 .. MaxRemovals
      /\ sessions \in 0 .. MaxSessions
  BY BoundsAssumption DEF Requests, NoRequest
<1>5. {diskInDrive, motorOn, ignoreErrors, alwaysIgnore, blockWriting, writeOnly,
       mounted, blanked} \subseteq BOOLEAN
  OBVIOUS
<1>6. /\ toFlush \subseteq Tracks
      /\ diskType \in {"unknown", "known"}
      /\ phase \in Phases
      /\ todo \subseteq Tracks /\ written \subseteq Tracks
      /\ buffer \in [Sectors -> Cell] \cup {Nothing}
      /\ pc["client"] = "idle"
  BY DEF Phases, Threads
<1>  HIDE DEF Init
<1>7. QED
  BY <1>1, <1>2, <1>3, <1>4, <1>5, <1>6 DEF TypeOK

LEMMA TypeDrive == ASSUME TypeOK, DriveStep PROVE TypeOK'
  BY BoundsAssumption DEF TypeOK, DriveStep, RemoveDisk, InsertDisk, driveFrame

LEMMA AbandonTyped ==
  ASSUME TypeOK, Abandon
  PROVE  /\ trackCache' \in [Tracks -> [Sectors -> Entry]]
         /\ owed' \in [Tracks -> [Sectors -> Cell]]
  BY NoTrackTyped DEF Abandon, TypeOK, OwedWithout, NoneOwed, Cell

LEMMA TypeFlush == ASSUME TypeOK, FlushStep PROVE TypeOK'
<1>  USE DEF TypeOK, flushFrame, cacheVars, loopVars, Phases, MotorInUse
<1>  UNCHANGED flushFrame
  BY DEF FlushStep
<1>1. CASE FlushDone
  BY <1>1 DEF FlushDone
<1>2. CASE FlushTrack
  <2>1. /\ NextTrack \in Tracks
        /\ trackCache' \in [Tracks -> [Sectors -> Entry]]
        /\ diskType' \in {"unknown", "known"}
    <3>1. NextTrack \in Tracks
      BY <1>2, LeastIn, TracksAssumption DEF FlushTrack, NextTrack
    <3>2. CASE TrackRead(NextTrack)
      BY <3>1, <3>2, DecodeEffect DEF TrackRead
    <3>3. CASE TrackUnread
      BY <3>1, <3>3 DEF TrackUnread
    <3>4. CASE trackCache' = [trackCache EXCEPT ![NextTrack] = BlanksAdded(NextTrack)] /\ UNCHANGED diskType
      BY <3>1, <3>4 DEF BlanksAdded, Entry, Data
    <3>5. QED
      BY <1>2, <3>1, <3>2, <3>3, <3>4 DEF FlushTrack, FillTrack
  <2>2. buffer' \in [Sectors -> Cell] \cup {Nothing}
    BY <1>2, <2>1 DEF FlushTrack, Encoded, Cell, Entry
  <2>3. QED
    BY <1>2, <2>1, <2>2 DEF FlushTrack
<1>3. CASE FlushMotorFails
  BY <1>3 DEF FlushMotorFails
<1>4. CASE FlushNoDisk
  BY <1>4 DEF FlushNoDisk
<1>5. CASE FlushWrite
  <2>1. media' \in [Disks -> [Tracks -> [Sectors -> Cell]]]
    BY <1>5, FlushWriteEffect, MediaEffect DEF FlushWrite
  <2>2. QED
    BY <1>5, <2>1 DEF FlushWrite
<1>6. CASE FlushStalls
  <2>1. NoneOwed \in [Sectors -> Cell]
    BY DEF NoneOwed, Cell
  <2>2. media' \in [Disks -> [Tracks -> [Sectors -> Cell]]]
    BY <1>6, <2>1, MediaEffect DEF FlushStalls
  <2>3. QED
    BY ZenonT(60), <1>6, <2>2 DEF FlushStalls
<1>7. CASE StallAnswered
  BY <1>7 DEF StallAnswered
<1>8. CASE StallGivenUp
  BY ZenonT(60), <1>8, AbandonTyped DEF StallGivenUp, Abandon
<1>9. CASE FlushVerify
  <2>1. PICK w \in WeakSets : 
           /\ Decode(track, w, diskType)
           /\ \/ /\ written' = written \cup {track}
                 /\ todo' = todo \ {track}
                 /\ phase' = "next"
                 /\ UNCHANGED buffer
              \/ /\ phase' = "write"
                 /\ buffer' = IF buffer = Nothing THEN Nothing
                              ELSE RawRead(inDrive, track, w)
                 /\ UNCHANGED <<written, todo>>
    BY <1>9 DEF FlushVerify
  <2>2. RawRead(inDrive, track, w) \in [Sectors -> Cell]
    BY <1>9 DEF RawRead, FlushVerify, Cell
  <2>3. inDrive # NoDisk
    BY <1>9 DEF FlushVerify
  <2>4. QED
    BY <1>9, <2>1, <2>2, <2>3, DecodeEffect DEF FlushVerify
<1>10. CASE FlushUnverified
  BY ZenonT(60), <1>10 DEF FlushUnverified, TrackUnread
<1>11. CASE VerifyRetried
  BY <1>11 DEF VerifyRetried
<1>12. CASE VerifyGivenUp
  BY ZenonT(60), <1>12, AbandonTyped DEF VerifyGivenUp, Abandon
<1>13. CASE WarnedRetry
  BY <1>13 DEF WarnedRetry
<1>14. CASE WarnedCancel
  BY ZenonT(60), <1>14, AbandonTyped DEF WarnedCancel, Abandon
<1>15. QED
  BY SMTT(60), <1>1, <1>2, <1>3, <1>4, <1>5, <1>6, <1>7, <1>8, <1>9, <1>10, <1>11, <1>12,
     <1>13, <1>14 DEF FlushStep

LEMMA RequestKinds ==
  ASSUME NEW r \in Requests
  PROVE  /\ r.op = "read" => r \in [op : {"read"}, track : Tracks, sector : Sectors]
         /\ r.op = "write" => r \in [op : {"write"}, track : Tracks, sector : Sectors,
                                    data : Payload]
  BY DEF Requests

LEMMA TypeRequest == ASSUME TypeOK, ClientRequest PROVE TypeOK'
<1>  USE ThreadAssumption, BoundsAssumption
     DEF TypeOK, clientFrame, cacheVars, loopVars, flushVars, Threads, Phases, ClientSteps
<1>  UNCHANGED clientFrame
  BY DEF ClientRequest
<1>1. ASSUME NEW t \in Tracks, NEW s \in Sectors, NEW d \in Payload, WriteRequest(t, s, d)
      PROVE  TypeOK'
  BY <1>1 DEF WriteRequest, Requests
<1>2. ASSUME NEW t \in Tracks, NEW s \in Sectors, ReadRequest(t, s)
      PROVE  TypeOK'
  <2>  DEFINE r == [op |-> "read", track |-> t, sector |-> s]
  <2>4. r \in Requests /\ r.op = "read" /\ NoRequest \in Requests /\ NoRequest.op = "none"
    BY DEF Requests, NoRequest
  <2>  HIDE DEF r
  <2>5. /\ \/ ReadBegins(r) /\ UNCHANGED flushVars
           \/ req' = r /\ EnterFlush("client", "readFlush", toFlush)
        /\ UNCHANGED <<cacheVars, motorOn, ignoreErrors, alwaysIgnore, retries, owed>>
        /\ pc["client"] = "idle" /\ requests < MaxRequests /\ requests' = requests + 1
        /\ lock = NoThread
    BY <1>2 DEF ReadRequest, r
  <2>1. CASE ReadBegins(r) /\ UNCHANGED flushVars
    BY <2>1, <2>4, <2>5 DEF ReadBegins, Unlock
  <2>2. CASE req' = r /\ EnterFlush("client", "readFlush", toFlush)
    BY SMTT(60), <2>2, <2>4, <2>5 DEF EnterFlush
  <2>3. QED
    BY <2>1, <2>2, <2>5
<1>3. QED
  BY <1>1, <1>2 DEF ClientRequest

LEMMA TypeClient == ASSUME TypeOK, ClientStep PROVE TypeOK'
<1>  USE ThreadAssumption, BoundsAssumption, FirstTrackIn
     DEF TypeOK, clientFrame, cacheVars, loopVars, flushVars, Threads, MotorInUse, Unlock,
         EnterFlush, FlushOver, Phases, ClientSteps
<1>  UNCHANGED clientFrame
  BY DEF ClientStep
<1>1. CASE WriteCommit
  <2>1. req \in [op : {"write"}, track : Tracks, sector : Sectors, data : Payload]
    BY <1>1, RequestKinds DEF WriteCommit
  <2>  DEFINE cell == [data |-> req.data, errs |-> Good]
  <2>2. cell \in Entry /\ req.data \in Cell
    BY <2>1 DEF Entry, Data, Cell
  <2>5. /\ trackCache' \in [Tracks -> [Sectors -> Entry]]
        /\ owed' \in [Tracks -> [Sectors -> Cell]]
    <3> HIDE DEF cell
    <3>1. \/ trackCache' = trackCache
          \/ trackCache' = [trackCache EXCEPT ![req.track][req.sector] = cell]
      BY <1>1 DEF WriteCommit, cell
    <3>2. trackCache' \in [Tracks -> [Sectors -> Entry]]
      <4>1. /\ trackCache \in [Tracks -> [Sectors -> Entry]]
            /\ req.track \in Tracks /\ req.sector \in Sectors
        BY <2>1
      <4>2. CASE trackCache' = [trackCache EXCEPT ![req.track][req.sector] = cell]
        BY ONLY <2>2, <4>1, <4>2, SectorCached
      <4>3. QED
        BY <3>1, <4>1, <4>2
    <3>3. owed' = [owed EXCEPT ![req.track][req.sector] = req.data]
      BY <1>1 DEF WriteCommit
    <3>4. owed' \in [Tracks -> [Sectors -> Cell]]
      BY <2>1, <2>2, <3>3
    <3>5. QED
      BY <3>2, <3>4
  <2>3. toFlush' \subseteq Tracks
    BY <1>1, <2>1 DEF WriteCommit, Pending
  <2>4. NoRequest \in Requests /\ NoRequest.op = "none"
    BY DEF Requests, NoRequest
  <2>6. req' = NoRequest /\ pc["client"] = "write" /\ lock = NoThread
    BY <1>1 DEF WriteCommit
  <2>7. \/ Unlock("client", "idle") /\ UNCHANGED <<diskType, motorOn, flushVars>>
        \/ MotorInUse /\ UNCHANGED diskType /\ Unlock("client", "idle") /\ UNCHANGED flushVars
        \/ MotorInUse /\ UNCHANGED diskType /\ EnterFlush("client", "writeFlush", toFlush')
    BY <1>1 DEF WriteCommit
  <2>8. UNCHANGED <<ignoreErrors, alwaysIgnore, retries, requests>>
    BY <1>1 DEF WriteCommit
  <2>9. QED
    BY ZenonT(60), <2>3, <2>4, <2>5, <2>6, <2>7, <2>8
<1>2. CASE WriteFlushed
  BY <1>2 DEF WriteFlushed
<1>3. CASE ReadFlushed
  BY <1>3 DEF ReadFlushed, ReadBegins, Requests, NoRequest
<1>4. CASE ReadReturns
  BY <1>4 DEF ReadReturns, ReadEnds, Requests, NoRequest
<1>5. CASE ReadMotorFails
  BY <1>5 DEF ReadMotorFails, ReadEnds, Requests, NoRequest
<1>6. CASE ReadAttempt
  <2>1. req.track \in Tracks /\ pc["client"] = "read"
    BY <1>6, RequestKinds DEF ReadAttempt
  <2>2. /\ trackCache' \in [Tracks -> [Sectors -> Entry]]
        /\ diskType' \in {"unknown", "known"}
    BY <1>6, <2>1, DecodeEffect DEF ReadAttempt, TrackRead, TrackUnread
  <2>3. retries' \in 0 .. MaxRetries + 1
    BY <1>6 DEF ReadAttempt, Exhausted
  <2>4. QED
    BY <1>6, <2>2, <2>3 DEF ReadAttempt
<1>7. CASE ReadPrompted
  <2>1. {diskInDrive', motorOn', ignoreErrors', alwaysIgnore', blockWriting', writeOnly',
        mounted', blanked'} \subseteq BOOLEAN
    BY ZenonT(60), <1>7 DEF ReadPrompted
  <2>2. UNCHANGED <<cacheVars, flushVars, lock, pc, req, owed, requests>> /\ retries' = 0
    BY <1>7 DEF ReadPrompted
  <2>3. QED
    BY <2>1, <2>2
<1>8. CASE ReadAborted
  <2>1. {diskInDrive', motorOn', ignoreErrors', alwaysIgnore', blockWriting', writeOnly',
        mounted', blanked'} \subseteq BOOLEAN
    BY ZenonT(60), <1>8 DEF ReadAborted
  <2>2. ReadEnds /\ pc["client"] = "read"
    BY <1>8 DEF ReadAborted
  <2>3. QED
    BY <2>1, <2>2 DEF ReadEnds, Requests, NoRequest
<1>9. QED
  BY <1>1, <1>2, <1>3, <1>4, <1>5, <1>6, <1>7, <1>8 DEF ClientStep

LEMMA DiskGoneTyped ==
  ASSUME DiskGone
  PROVE  /\ trackCache' \in [Tracks -> [Sectors -> Entry]]
         /\ owed' \in [Tracks -> [Sectors -> Cell]]
  BY SMTT(60), NoTrackTyped DEF DiskGone, NoneOwed, Cell

LEMMA TypeTimer == ASSUME TypeOK, TimerStep PROVE TypeOK'
<1>  USE ThreadAssumption, BoundsAssumption, FirstTrackIn
     DEF TypeOK, timerFrame, cacheVars, loopVars, flushVars, Threads, MotorInUse, Unlock,
         EnterFlush, FlushOver, Phases, TimerSteps
<1>  UNCHANGED timerFrame
  BY DEF TimerStep
<1>1. CASE TimerExpires
  BY <1>1 DEF TimerExpires
<1>2. CASE TimerFlushed
  BY ZenonT(60), <1>2 DEF TimerFlushed
<1>3. CASE TimerLooks
  BY <1>3 DEF TimerLooks
<1>4. CASE TimerSeesNoChange
  BY <1>4 DEF TimerSeesNoChange
<1>5. CASE TimerSeesRemoval
  BY ZenonT(60), <1>5, DiskGoneTyped DEF TimerSeesRemoval, DiskGone
<1>6. CASE TimerSeesDisk
  <2>1. owed' \in [Tracks -> [Sectors -> Cell]]
    BY <1>6 DEF TimerSeesDisk, NoneOwed, Cell
  <2>2. home' \in Disks
    BY <1>6 DEF TimerSeesDisk
  <2>3. QED
    BY <1>6, <2>1, <2>2 DEF TimerSeesDisk
<1>7. CASE TimerReinserted
  BY <1>7 DEF TimerReinserted
<1>8. CASE TimerCancelled
  BY ZenonT(60), <1>8, DiskGoneTyped DEF TimerCancelled, DiskGone
<1>9. CASE TimerNotify
  BY ZenonT(60), <1>9, NoTrackTyped DEF TimerNotify
<1>10. CASE TimerIdentify
  BY ZenonT(60), <1>10, DecodeEffect DEF TimerIdentify
<1>11. QED
  BY SMTT(60), <1>1, <1>2, <1>3, <1>4, <1>5, <1>6, <1>7, <1>8, <1>9, <1>10 DEF TimerStep

LEMMA TypeApp == ASSUME TypeOK, AppStep PROVE TypeOK'
<1>  USE ThreadAssumption, BoundsAssumption, FirstTrackIn
     DEF TypeOK, appFrame, cacheVars, loopVars, flushVars, Threads, Unlock, EnterFlush,
         FlushOver, AppFlush, Phases, AppSteps
<1>  UNCHANGED appFrame
  BY DEF AppStep
<1>1. CASE AppLock
  BY <1>1, NoTrackTyped DEF AppLock
<1>2. CASE AppFlushed
  BY <1>2, NoTrackTyped DEF AppFlushed
<1>3. CASE AppClean
  BY ZenonT(60), <1>3, NoTrackTyped DEF AppClean
<1>4. CASE AppCleaned
  BY <1>4, NoTrackTyped DEF AppCleaned
<1>5. CASE AppFormat
  <2>1. owed' \in [Tracks -> [Sectors -> Cell]]
    BY <1>5 DEF AppFormat, NoneOwed, Cell
  <2>2. trackCache' \in [Tracks -> [Sectors -> Entry]]
    BY <1>5, NoTrackTyped DEF AppFormat, Entry, Data
  <2>3. QED
    BY ZenonT(60), <1>5, <2>1, <2>2 DEF AppFormat
<1>6. CASE AppFormatFlush
  BY <1>6, NoTrackTyped DEF AppFormatFlush
<1>7. CASE AppFormatted
  BY ZenonT(60), <1>7, NoTrackTyped DEF AppFormatted
<1>8. CASE AppAbort
  BY <1>8, NoTrackTyped DEF AppAbort
<1>9. CASE AppFormatAborted
  BY ZenonT(60), <1>9, NoTrackTyped DEF AppFormatAborted
<1>10. CASE AppCopyAborted
  BY ZenonT(60), <1>10, NoTrackTyped DEF AppCopyAborted, ResetCache, OwedWithout, NoneOwed, Cell
<1>11. CASE AppReset
  BY ZenonT(60), <1>11, NoTrackTyped DEF AppReset, ResetCache
<1>12. CASE AppForget
  BY ZenonT(60), <1>12, NoTrackTyped DEF AppForget
<1>13. CASE AppQuit
  BY <1>13, NoTrackTyped DEF AppQuit
<1>14. CASE AppShut
  BY <1>14, NoTrackTyped DEF AppShut
<1>15. QED
  BY SMTT(60), <1>1, <1>2, <1>3, <1>4, <1>5, <1>6, <1>7, <1>8, <1>9, <1>10, <1>11, <1>12, <1>13, <1>14 DEF AppStep

LEMMA TypeStep == TypeOK /\ [Next]_vars => TypeOK'
<1>1. TypeOK /\ UNCHANGED vars => TypeOK'
  BY DEF TypeOK, vars
<1>2. QED
  BY <1>1, TypeDrive, TypeFlush, TypeRequest, TypeClient, TypeTimer, TypeApp DEF Next

(* Values stay in their sets and the lock discipline holds, always.          *)
THEOREM TypeCorrect == Spec => []TypeOK
  BY TypeInit, TypeStep, PTL DEF Spec

-----------------------------------------------------------------------------
(***************************************************************************)
(* The flush runs exactly while a thread is at a step that called it, and   *)
(* once further writing is blocked it is over.  Both hold whatever faults   *)
(* there are.                                                               *)
(***************************************************************************)
AtFlush == \/ pc["client"] \in {"writeFlush", "readFlush"}
           \/ pc["timer"] = "flushed"
           \/ pc["app"] \in {"locking", "cleaned", "formatted", "unlocking"}
FlushHeld == phase # "idle" <=> AtFlush
BlockedOver == blockWriting => phase \in {"idle", "ok", "failed"}
FlushInv == TypeOK /\ FlushHeld /\ BlockedOver

LEMMA FlushInvInit == Init => FlushInv
  BY TypeInit DEF Init, FlushInv, FlushHeld, BlockedOver, AtFlush, Threads

(* Threads that are not at a flush leave phase and blockWriting alone, but    *)
(* for the entry and the end of a flush.                                    *)
LEMMA FlushInvStep == FlushInv /\ [Next]_vars => FlushInv'
<1>  SUFFICES ASSUME FlushInv, [Next]_vars PROVE FlushInv'
  OBVIOUS
<1>  USE ThreadAssumption
     DEF FlushHeld, BlockedOver, AtFlush, cacheVars, loopVars, flushVars, Threads,
         Unlock, EnterFlush, FlushOver, Flushed
<1>1. TypeOK /\ TypeOK' /\ FlushHeld /\ BlockedOver
  BY TypeStep DEF FlushInv
<1>2. CASE DriveStep
  BY <1>1, <1>2 DEF FlushInv, DriveStep, driveFrame
<1>3. CASE FlushStep
  <2>1. UNCHANGED pc
    BY <1>3 DEF FlushStep, flushFrame
  <2>2. /\ phase \notin {"idle", "ok", "failed"} /\ phase' # "idle"
        /\ phase' = "failed" \/ UNCHANGED blockWriting
    BY <1>3 DEF FlushStep, FlushDone, FlushTrack, FlushMotorFails, FlushNoDisk,
       FlushWrite, FlushStalls, StallAnswered, StallGivenUp, FlushVerify,
       FlushUnverified, VerifyRetried, VerifyGivenUp, WarnedRetry, WarnedCancel, Abandon
  <2>3. QED
    BY <1>1, <2>1, <2>2 DEF FlushInv
<1>4. CASE ClientRequest
  BY <1>1, <1>4 DEF FlushInv, TypeOK, ClientRequest, clientFrame, WriteRequest, ReadRequest, ReadBegins
<1>5. CASE ClientStep
  BY ZenonT(60), <1>1, <1>5 DEF FlushInv, TypeOK, ClientStep, clientFrame, WriteCommit, WriteFlushed,
     ReadFlushed, ReadBegins, ReadReturns, ReadMotorFails, ReadAttempt, ReadPrompted,
     ReadAborted, ReadEnds
<1>6. CASE TimerStep
  BY <1>1, <1>6 DEF FlushInv, TypeOK, TimerStep, timerFrame, TimerExpires, TimerFlushed,
     TimerLooks, TimerSeesNoChange, TimerSeesRemoval, TimerSeesDisk, TimerReinserted,
     TimerCancelled, TimerNotify, TimerIdentify, DiskGone
<1>7. CASE AppStep
  BY <1>1, <1>7 DEF FlushInv, TypeOK, AppStep, appFrame, AppFlush, AppLock, AppFlushed, AppShut,
     AppClean, AppCleaned, AppFormat, AppFormatFlush, AppFormatted, AppAbort,
     AppFormatAborted, AppCopyAborted, ResetCache, AppReset, AppForget, AppQuit
<1>8. CASE UNCHANGED vars
  BY <1>1, <1>8 DEF FlushInv, vars
<1>9. QED
  BY <1>2, <1>3, <1>4, <1>5, <1>6, <1>7, <1>8 DEF Next

(* The medium changes in phase "write" only.                                *)
LEMMA MediaChange ==
  ASSUME [Next]_vars
  PROVE  UNCHANGED media \/ ((FlushWrite \/ FlushStalls) /\ UNCHANGED flushFrame)
<1>1. CASE FlushStep
  BY <1>1 DEF FlushStep, FlushDone, FlushTrack, FlushMotorFails, FlushNoDisk,
     StallAnswered, StallGivenUp, FlushVerify, FlushUnverified, VerifyRetried,
     VerifyGivenUp, WarnedRetry, WarnedCancel
<1>2. CASE DriveStep \/ UNCHANGED vars
  BY <1>2 DEF DriveStep, driveFrame, vars
<1>3. CASE ClientRequest \/ ClientStep
  BY <1>3 DEF ClientRequest, ClientStep, clientFrame
<1>4. CASE TimerStep \/ AppStep
  BY <1>4 DEF TimerStep, timerFrame, AppStep, appFrame
<1>5. QED
  BY <1>1, <1>2, <1>3, <1>4 DEF Next

LEMMA FlushInvAlways == Spec => []FlushInv
  BY FlushInvInit, FlushInvStep, PTL DEF Spec

(* After Abort nothing is written, whatever goes wrong: every step that      *)
(* changes the medium is one of a flush that is under way, and there is none *)
(* once writing is blocked.                                                 *)
THEOREM AbortRespected == Spec => AbortStopsWriting
<1>1. FlushInv /\ [Next]_vars => [blockWriting => media' = media]_vars
  BY MediaChange DEF FlushInv, BlockedOver, FlushWrite, FlushStalls
<1>2. QED
  BY <1>1, FlushInvAlways, PTL DEF Spec, AbortStopsWriting
-----------------------------------------------------------------------------
(***************************************************************************)
(* Which disk is written.  Without "swap" and "window" a promise (a pending *)
(* track, or a write between its checks and its lock) keeps the timer from  *)
(* taking note of another disk: the drive holds the home disk or none.      *)
(***************************************************************************)
InTrack == phase \in {"write", "verify", "stalled", "unverified", "warnWrite",
                      "warnStall", "warnVerify"}
InLoop == phase = "next" \/ InTrack

(* The loop of flushPendingWrites goes through the pending tracks: those     *)
(* still to visit and those written make up the set.                        *)
LoopOK ==
  /\ phase = "idle" => todo = {} /\ written = {} /\ buffer = Nothing
  /\ InLoop => todo \cup written = toFlush /\ todo \cap written = {}
  /\ InTrack => track \in todo

Promised == toFlush # {} \/ pc["client"] = "write"
HomeOK ==
  /\ diskInDrive => inDrive \in {home, NoDisk}
  /\ Promised \/ pc["timer"] = "identify" \/ pc["client"] \in {"readFlush", "read"}
       => diskInDrive
  /\ Promised => pc["timer"] \notin {"notify", "identify"}
  /\ pc["client"] = "write" => lock = NoThread
ForgetOK ==
  /\ pc["app"] = "forget" => toFlush = {} /\ pc["client"] = "idle" /\ lock = NoThread
  /\ pc["app"] \notin {"idle", "flushed", "session", "format", "cleaning"} => pc["client"] = "idle"
OwedOK == \A t \in toFlush : owed[t] # NoneOwed
HomeInv == FlushInv /\ LoopOK /\ HomeOK /\ ForgetOK /\ OwedOK

LEMMA HomeInvInit == Init => HomeInv
  BY FlushInvInit
     DEF Init, HomeInv, LoopOK, InLoop, InTrack, HomeOK, Promised, ForgetOK, OwedOK, Threads

LEMMA LoopStep == FlushInv /\ LoopOK /\ [Next]_vars => LoopOK'
<1>  SUFFICES ASSUME FlushInv, LoopOK, [Next]_vars PROVE LoopOK'
  OBVIOUS
<1>  USE ThreadAssumption
     DEF FlushHeld, AtFlush, LoopOK, InLoop, InTrack, cacheVars, loopVars, flushVars, Threads,
         Unlock, EnterFlush, FlushOver, Flushed
<1>1. TypeOK /\ FlushHeld
  BY DEF FlushInv
<1>2. CASE DriveStep \/ UNCHANGED vars
  BY <1>2 DEF DriveStep, driveFrame, vars
<1>3. CASE FlushStep
  <2>1. CASE FlushTrack
    <3>1. NextTrack \in todo
      BY <2>1, <1>1, LeastIn, TracksAssumption DEF FlushTrack, NextTrack, TypeOK
    <3>2. QED
      BY <2>1, <3>1 DEF FlushTrack
  <2>2. CASE FlushVerify
    BY <2>2 DEF FlushVerify
  <2>3. CASE ~(FlushTrack \/ FlushVerify)
    BY <1>3, <2>3 DEF FlushStep, FlushDone, FlushMotorFails, FlushNoDisk, FlushWrite,
       FlushStalls, StallAnswered, StallGivenUp, FlushUnverified, VerifyRetried,
       VerifyGivenUp, WarnedRetry, WarnedCancel, Abandon
  <2>4. QED
    BY <2>1, <2>2, <2>3
<1>4. CASE ClientRequest
  BY <1>1, <1>4 DEF TypeOK, ClientRequest, clientFrame, WriteRequest, ReadRequest,
     ReadBegins
<1>5. CASE ClientStep
  BY ZenonT(60), <1>1, <1>5 DEF TypeOK, ClientStep, clientFrame, WriteCommit, WriteFlushed,
     ReadFlushed, ReadBegins, ReadReturns, ReadMotorFails, ReadAttempt, ReadPrompted,
     ReadAborted, ReadEnds
<1>6. CASE TimerStep
  BY <1>1, <1>6 DEF TypeOK, TimerStep, timerFrame, TimerExpires, TimerFlushed,
     TimerLooks, TimerSeesNoChange, TimerSeesRemoval, TimerSeesDisk, TimerReinserted,
     TimerCancelled, TimerNotify, TimerIdentify, DiskGone
<1>7. CASE AppStep
  BY <1>1, <1>7 DEF TypeOK, AppStep, appFrame, AppFlush, AppLock, AppFlushed, AppShut,
     AppClean, AppCleaned, AppFormat, AppFormatFlush, AppFormatted, AppAbort,
     AppFormatAborted, AppCopyAborted, ResetCache, AppReset, AppForget, AppQuit
<1>9. QED
  BY <1>2, <1>3, <1>4, <1>5, <1>6, <1>7 DEF Next

LEMMA ForgetStep ==
  ASSUME "window" \notin Faults, HomeInv, [Next]_vars
  PROVE  ForgetOK'
<1>  USE ThreadAssumption
     DEF ForgetOK, cacheVars, flushVars, Threads, Unlock, EnterFlush, Calm, Settled
<1>1. TypeOK /\ ForgetOK /\ HomeOK /\ FlushHeld
  BY DEF HomeInv, FlushInv
<1>2. CASE DriveStep \/ UNCHANGED vars
  BY <1>1, <1>2 DEF DriveStep, driveFrame, vars
<1>3. CASE FlushStep
  BY <1>1, <1>3 DEF FlushHeld, AtFlush, FlushStep, flushFrame, FlushDone, FlushTrack,
     FlushMotorFails, FlushNoDisk, FlushWrite, FlushStalls, StallAnswered, StallGivenUp,
     FlushVerify, FlushUnverified, VerifyRetried, VerifyGivenUp, WarnedRetry,
     WarnedCancel, Abandon
<1>4. CASE ClientRequest
  BY <1>1, <1>4 DEF TypeOK, ClientRequest, clientFrame, WriteRequest, ReadRequest,
     ReadBegins, DokanOpen
<1>5. CASE ClientStep
  BY ZenonT(60), <1>1, <1>5 DEF TypeOK, ClientStep, clientFrame, WriteCommit, WriteFlushed,
     ReadFlushed, ReadBegins, ReadReturns, ReadMotorFails, ReadAttempt, ReadPrompted,
     ReadAborted, ReadEnds
<1>6. CASE TimerStep
  BY <1>1, <1>6 DEF TypeOK, TimerStep, timerFrame, TimerExpires, TimerFlushed,
     TimerLooks, TimerSeesNoChange, TimerSeesRemoval, TimerSeesDisk, TimerReinserted,
     TimerCancelled, TimerNotify, TimerIdentify, DiskGone
<1>7. CASE AppStep
  <2>1. CASE AppFlushed
    BY <1>1, <2>1 DEF TypeOK, AppFlushed
  <2>2. CASE AppCleaned \/ AppLock \/ AppFormatFlush \/ AppFormatAborted \/ AppQuit
    BY <1>1, <2>2 DEF TypeOK, ClientSteps, AppFlush, AppCleaned, AppLock, AppFormatFlush,
       AppFormatAborted, AppQuit
  <2>3. CASE AppReset \/ AppForget \/ AppCopyAborted
    BY <1>1, <2>3 DEF TypeOK, ResetCache, AppReset, AppForget, AppCopyAborted
  <2>4. CASE AppFormat \/ AppShut \/ AppClean \/ AppAbort \/ AppFormatted
    BY <1>1, <2>4 DEF TypeOK, AppFormat, AppShut, AppClean, AppAbort, AppFormatted
  <2>5. QED
    BY <1>7, <2>1, <2>2, <2>3, <2>4 DEF AppStep
<1>8. QED
  BY <1>2, <1>3, <1>4, <1>5, <1>6, <1>7 DEF Next

LEMMA HomeStep ==
  ASSUME Faults \cap {"swap", "window"} = {}, HomeInv, [Next]_vars
  PROVE  HomeOK'
<1>  USE ThreadAssumption
     DEF HomeOK, Promised, cacheVars, flushVars, Threads, Unlock, EnterFlush, Calm, Settled
<1>1. TypeOK /\ ForgetOK /\ HomeOK /\ FlushHeld
  BY DEF HomeInv, FlushInv
<1>2. CASE DriveStep \/ UNCHANGED vars
  BY <1>1, <1>2 DEF DriveStep, driveFrame, vars, RemoveDisk, InsertDisk
<1>3. CASE FlushStep
  BY <1>1, <1>3 DEF FlushHeld, AtFlush, FlushStep, flushFrame, FlushDone, FlushTrack,
     FlushMotorFails, FlushNoDisk, FlushWrite, FlushStalls, StallAnswered, StallGivenUp,
     FlushVerify, FlushUnverified, VerifyRetried, VerifyGivenUp, WarnedRetry,
     WarnedCancel, Abandon
<1>4. CASE ClientRequest
  BY <1>1, <1>4 DEF TypeOK, ClientRequest, clientFrame, WriteRequest, ReadRequest,
     ReadBegins, DokanOpen
<1>5. CASE ClientStep
  BY ZenonT(60), <1>1, <1>5 DEF TypeOK, ClientStep, clientFrame, WriteCommit, WriteFlushed,
     ReadFlushed, ReadBegins, ReadReturns, ReadMotorFails, ReadAttempt, ReadPrompted,
     ReadAborted, ReadEnds
<1>6. CASE TimerStep
  BY <1>1, <1>6 DEF TypeOK, TimerStep, timerFrame, TimerExpires, TimerFlushed,
     TimerLooks, TimerSeesNoChange, TimerSeesRemoval, TimerSeesDisk, TimerReinserted,
     TimerCancelled, TimerNotify, TimerIdentify, DiskGone
<1>7. CASE AppStep
  BY <1>1, <1>7 DEF TypeOK, ForgetOK, AppStep, appFrame, AppFlush, AppLock, AppFlushed, AppShut,
     AppClean, AppCleaned, AppFormat, AppFormatFlush, AppFormatted, AppAbort,
     AppFormatAborted, AppCopyAborted, ResetCache, AppReset, AppForget, AppQuit
<1>8. QED
  BY <1>2, <1>3, <1>4, <1>5, <1>6, <1>7 DEF Next

LEMMA OwedStep ==
  ASSUME HomeInv, [Next]_vars
  PROVE  OwedOK'
<1>  USE DEF OwedOK, cacheVars, flushVars
<1>1. TypeOK /\ OwedOK /\ HomeOK
  BY DEF HomeInv, FlushInv
<1>2. CASE DriveStep \/ UNCHANGED vars
  BY <1>1, <1>2 DEF DriveStep, driveFrame, vars
<1>3. CASE FlushStep
  BY <1>1, <1>3 DEF FlushStep, flushFrame, FlushDone, FlushTrack,
     FlushMotorFails, FlushNoDisk, FlushWrite, FlushStalls, StallAnswered, StallGivenUp,
     FlushVerify, FlushUnverified, VerifyRetried, VerifyGivenUp, WarnedRetry,
     WarnedCancel, Abandon
<1>4. CASE ClientRequest
  BY <1>1, <1>4 DEF ClientRequest, WriteRequest, ReadRequest
<1>5. CASE ClientStep
  <2>1. CASE WriteCommit
    <3>1. /\ req.track \in Tracks /\ req.sector \in Sectors /\ req.data # Bad
          /\ owed \in [Tracks -> [Sectors -> Cell]]
          /\ owed' = [owed EXCEPT ![req.track][req.sector] = req.data]
          /\ toFlush' \subseteq toFlush \cup {req.track}
          /\ toFlush \subseteq Tracks
      BY <1>1, <2>1, RequestKinds, DataAssumption DEF TypeOK, WriteCommit, Pending
    <3>2. /\ owed'[req.track][req.sector] = req.data
          /\ \A t \in Tracks \ {req.track} : owed'[t] = owed[t]
      BY <3>1
    <3>3. owed'[req.track] # NoneOwed
      BY <3>1, <3>2 DEF NoneOwed
    <3>4. QED
      BY <1>1, <3>1, <3>2, <3>3
  <2>2. CASE ~WriteCommit
    BY <1>1, <1>5, <2>2 DEF ClientStep, WriteFlushed, ReadFlushed, ReadReturns,
       ReadMotorFails, ReadAttempt, ReadPrompted, ReadAborted, ReadEnds
  <2>3. QED
    BY <2>1, <2>2
<1>6. CASE TimerStep
  BY <1>1, <1>6 DEF HomeOK, Promised, TimerStep, TimerExpires, TimerFlushed,
     TimerLooks, TimerSeesNoChange, TimerSeesRemoval, TimerSeesDisk, TimerReinserted,
     TimerCancelled, TimerNotify, TimerIdentify, DiskGone
<1>7. CASE AppStep
  BY <1>1, <1>7 DEF AppStep, AppFlush, AppLock, AppFlushed, AppShut,
     AppClean, AppCleaned, AppFormat, AppFormatFlush, AppFormatted, AppAbort,
     AppFormatAborted, AppCopyAborted, ResetCache, AppReset, AppForget, AppQuit
<1>8. QED
  BY <1>2, <1>3, <1>4, <1>5, <1>6, <1>7 DEF Next

LEMMA HomeInvStep ==
  ASSUME Faults \cap {"swap", "window"} = {}
  PROVE  HomeInv /\ [Next]_vars => HomeInv'
<1>  SUFFICES ASSUME HomeInv, [Next]_vars PROVE HomeInv'
  OBVIOUS
<1>1. FlushInv' /\ LoopOK'
  BY FlushInvStep, LoopStep DEF HomeInv
<1>2. HomeOK' /\ ForgetOK' /\ OwedOK'
  BY HomeStep, ForgetStep, OwedStep
<1>3. QED
  BY <1>1, <1>2 DEF HomeInv

LEMMA HomeInvAlways ==
  ASSUME Faults \cap {"swap", "window"} = {}
  PROVE  Spec => []HomeInv
<1>1. HomeInv /\ [Next]_vars => HomeInv'
  BY HomeInvStep
<1>2. QED
  BY <1>1, HomeInvInit, PTL DEF Spec

(* The disk that is written is the one the timer last saw, and the track one  *)
(* with a write accepted for it, unless another disk is put in while the      *)
(* timer waits for the lock or a write slips between two unlocked steps.     *)
THEOREM HomeWritten ==
  ASSUME Faults \cap {"swap", "window"} = {}
  PROVE  Spec => OnlyHomeWritten
<1>  DEFINE Rule == \A d \in Disks, t \in Tracks :
                      media'[d][t] # media[d][t] =>
                        d = home /\ t \in toFlush /\ owed[t] # NoneOwed
<1>1. ASSUME HomeInv, FlushWrite \/ FlushStalls PROVE Rule
  <2>1. /\ TypeOK /\ inDrive # NoDisk
        /\ track \in toFlush /\ owed[track] # NoneOwed
        /\ diskInDrive
        /\ inDrive = home
    BY <1>1 DEF HomeInv, FlushInv, LoopOK, InLoop, InTrack, HomeOK, Promised, OwedOK,
       FlushWrite, FlushStalls
  <2>2. UNCHANGED media \/ \E c \in [Sectors -> Cell] :
                             media' = [media EXCEPT ![inDrive][track] = c]
    <3>1. NoneOwed \in [Sectors -> Cell]
      BY DEF NoneOwed, Cell
    <3>2. QED
      BY <1>1, <2>1, <3>1, FlushWriteEffect DEF FlushStalls
  <2>3. QED
    BY <2>1, <2>2, MediaEffect
<1>2. HomeInv /\ [Next]_vars => [Rule]_vars
  BY <1>1, MediaChange
<1>3. QED
  BY <1>2, HomeInvAlways, PTL DEF Spec, OnlyHomeWritten
-----------------------------------------------------------------------------
(***************************************************************************)
(* A disk that stays.  If no disk is taken out while a write is promised,   *)
(* the disk a promise is for is in the drive and its type is known; nothing *)
(* is cached of a disk that is gone; and a flush that is over has left       *)
(* nothing pending.                                                         *)
(***************************************************************************)
Stays == Faults \cap {"yank", "swap", "window"} = {}

Steady ==
  /\ Promised => diskType = "known" /\ inDrive = home
  /\ ~diskInDrive \/ pc["app"] = "forget" => trackCache = NoTracks
  /\ InTrack => buffer # Nothing
DrainOK ==
  /\ phase \in {"ok", "failed"} => toFlush = {}
  /\ blockWriting => ~Promised
  /\ pc["app"] = "reset" => toFlush = {}
  /\ MaxSessions = 0 => pc["app"] = "idle"
SteadyInv == HomeInv /\ Steady /\ DrainOK

LEMMA SteadyInvInit == Init => SteadyInv
  BY HomeInvInit DEF Init, SteadyInv, Steady, DrainOK, Promised, InTrack, Threads

LEMMA DrainStep ==
  ASSUME Stays, SteadyInv, [Next]_vars
  PROVE  DrainOK'
<1>  USE ThreadAssumption
     DEF DrainOK, Promised, cacheVars, loopVars, flushVars, Threads, Unlock, EnterFlush,
         FlushOver, Flushed
<1>1. TypeOK /\ DrainOK /\ HomeOK /\ ForgetOK /\ FlushHeld
  BY DEF SteadyInv, HomeInv, FlushInv
<1>2. CASE DriveStep \/ UNCHANGED vars
  BY <1>1, <1>2 DEF DriveStep, driveFrame, vars
<1>3. CASE FlushStep
  <2>1. pc["client"] # "write" /\ UNCHANGED pc
    BY <1>1, <1>3 DEF TypeOK, HomeOK, FlushHeld, AtFlush, FlushStep, flushFrame, FlushDone,
       FlushTrack, FlushMotorFails, FlushNoDisk, FlushWrite, FlushStalls, StallAnswered,
       StallGivenUp, FlushVerify, FlushUnverified, VerifyRetried, VerifyGivenUp,
       WarnedRetry, WarnedCancel
  <2>2. \/ toFlush' = {}
        \/ UNCHANGED <<toFlush, blockWriting>> /\ phase' \notin {"ok", "failed"}
    BY <1>3 DEF FlushStep, FlushDone, FlushTrack, FlushMotorFails, FlushNoDisk,
       FlushWrite, FlushStalls, StallAnswered, StallGivenUp, FlushVerify,
       FlushUnverified, VerifyRetried, VerifyGivenUp, WarnedRetry, WarnedCancel, Abandon
  <2>3. QED
    BY <1>1, <2>1, <2>2
<1>4. CASE ClientRequest
  BY <1>1, <1>4 DEF TypeOK, FlushHeld, AtFlush, ClientRequest, clientFrame, WriteRequest,
     ReadRequest, ReadBegins, DokanOpen
<1>5. CASE ClientStep
  BY ZenonT(60), <1>1, <1>5 DEF TypeOK, FlushHeld, AtFlush, ForgetOK, ClientStep, clientFrame, WriteCommit,
     WriteFlushed, ReadFlushed, ReadBegins, ReadReturns, ReadMotorFails, ReadAttempt,
     ReadPrompted, ReadAborted, ReadEnds
<1>6. CASE TimerStep
  BY <1>1, <1>6 DEF TypeOK, FlushHeld, AtFlush, TimerStep, timerFrame, TimerExpires, TimerFlushed,
     TimerLooks, TimerSeesNoChange, TimerSeesRemoval, TimerSeesDisk, TimerReinserted,
     TimerCancelled, TimerNotify, TimerIdentify, DiskGone
<1>7. CASE AppStep
  <2>1. CASE AppFlushed \/ AppFormatted
    BY <1>1, <1>7, <2>1, BoundsAssumption DEF TypeOK, AppStep, appFrame, AppFlushed, AppFormatted
  <2>2. CASE AppCleaned \/ AppLock \/ AppFormatFlush \/ AppFormatAborted \/ AppQuit
    BY <1>1, <1>7, <2>2, BoundsAssumption DEF TypeOK, AppStep, appFrame, AppFlush, AppCleaned, AppLock,
       AppFormatFlush, AppFormatAborted, AppQuit
  <2>3. CASE AppReset \/ AppForget \/ AppCopyAborted
    BY <1>1, <1>7, <2>3, BoundsAssumption DEF TypeOK, AppStep, appFrame, ResetCache, AppReset, AppForget, AppCopyAborted
  <2>4. CASE AppFormat \/ AppShut \/ AppClean \/ AppAbort
    BY <1>1, <1>7, <2>4, BoundsAssumption DEF TypeOK, AppStep, appFrame, AppFormat, AppShut, AppClean, AppAbort
  <2>5. QED
    BY <1>7, <2>1, <2>2, <2>3, <2>4 DEF AppStep
<1>8. QED
  BY <1>2, <1>3, <1>4, <1>5, <1>6, <1>7 DEF Next
(* While the loop has a track to see to, its disk is there.                  *)
LEMMA LoopFacts ==
  ASSUME SteadyInv, InTrack \/ (phase = "next" /\ todo # {})
  PROVE  /\ toFlush # {} /\ Promised
         /\ todo \subseteq toFlush
         /\ diskInDrive /\ inDrive = home /\ inDrive # NoDisk /\ diskType = "known"
         /\ pc["timer"] \notin {"notify", "identify"}
         /\ pc["client"] # "write" /\ pc["app"] # "forget"
<1>1. todo # {} /\ todo \subseteq toFlush
  BY DEF SteadyInv, HomeInv, LoopOK, InLoop
<1>2. Promised /\ toFlush # {}
  BY <1>1 DEF Promised
<1>3. phase # "idle"
  BY DEF InTrack
<1>4. pc["client"] # "write"
  BY <1>3, ThreadAssumption DEF SteadyInv, HomeInv, FlushInv, FlushHeld, AtFlush, HomeOK, TypeOK
<1>5. QED
  BY <1>1, <1>2, <1>4, DisksAssumption
     DEF SteadyInv, HomeInv, FlushInv, TypeOK, Steady, HomeOK, ForgetOK

(* What the flush does to the cached tracks: it completes one, merges a read  *)
(* back into one, or gives up those not written.                            *)
LEMMA FlushCache ==
  ASSUME SteadyInv, FlushStep
  PROVE  \/ UNCHANGED <<trackCache, diskType>>
         \/ Abandon /\ InTrack
         \/ /\ FlushTrack \/ FlushVerify
            /\ diskType' = "known"
<1>1. CASE FlushTrack
  <2>1. /\ diskType = "known" /\ inDrive # NoDisk /\ TypeOK
        /\ NextTrack \in Tracks
    BY <1>1, LoopFacts, LeastIn, TracksAssumption
       DEF FlushTrack, SteadyInv, HomeInv, FlushInv, TypeOK, NextTrack
  <2>2. QED
    BY <1>1, <2>1, DecodeEffect DEF FlushTrack, FillTrack, TrackRead, TrackUnread
<1>2. CASE FlushVerify
  <2>1. diskType = "known" /\ inDrive # NoDisk /\ TypeOK /\ track \in Tracks
    BY <1>2, LoopFacts DEF FlushVerify, InTrack, SteadyInv, HomeInv, FlushInv, TypeOK
  <2>2. QED
    BY <1>2, <2>1, DecodeEffect DEF FlushVerify
<1>3. CASE StallGivenUp \/ VerifyGivenUp \/ WarnedCancel
  BY <1>3 DEF StallGivenUp, VerifyGivenUp, WarnedCancel, InTrack
<1>4. CASE ~(FlushTrack \/ FlushVerify \/ StallGivenUp \/ VerifyGivenUp \/ WarnedCancel)
  BY <1>4 DEF FlushStep, FlushDone, FlushMotorFails, FlushNoDisk, FlushWrite, FlushStalls,
     StallAnswered, FlushUnverified, TrackUnread, VerifyRetried, WarnedRetry, cacheVars
<1>5. QED
  BY <1>1, <1>2, <1>3, <1>4

LEMMA NotNothing == \A b \in [Sectors -> Cell] : b # Nothing
<1>  SUFFICES ASSUME NEW b \in [Sectors -> Cell], b = Nothing PROVE FALSE
  OBVIOUS
<1>1. DOMAIN b = Sectors /\ DOMAIN Nothing = {}
  BY DEF Nothing
<1>2. QED
  BY <1>1, SectorsAssumption

LEMMA SteadyStep ==
  ASSUME Stays, SteadyInv, [Next]_vars
  PROVE  Steady'
<1>  USE ThreadAssumption
     DEF Steady, Promised, cacheVars, loopVars, flushVars, Threads, Unlock, EnterFlush,
         FlushOver, Flushed, Stays
<1>1. TypeOK /\ HomeOK /\ ForgetOK /\ FlushHeld /\ LoopOK /\ Steady
  BY DEF SteadyInv, HomeInv, FlushInv
<1>2. CASE DriveStep \/ UNCHANGED vars
  BY <1>1, <1>2, DisksAssumption
     DEF DriveStep, driveFrame, vars, RemoveDisk, InsertDisk, TypeOK, InTrack
<1>3. CASE FlushStep
  <2>1. UNCHANGED flushFrame
    BY <1>3 DEF FlushStep
  <2>2. toFlush' = {} \/ UNCHANGED toFlush
    BY <1>3 DEF FlushStep, FlushDone, FlushTrack, FlushMotorFails, FlushNoDisk,
       FlushWrite, FlushStalls, StallAnswered, StallGivenUp, FlushVerify,
       FlushUnverified, VerifyRetried, VerifyGivenUp, WarnedRetry, WarnedCancel, Abandon
  <2>3. diskType' = "known" \/ UNCHANGED diskType
    BY <1>3, FlushCache DEF Abandon
  <2>4. ~diskInDrive \/ pc["app"] = "forget" => UNCHANGED trackCache
    BY <1>3, FlushCache, LoopFacts DEF FlushTrack, FlushVerify, InTrack
  <2>5. InTrack' => buffer' # Nothing
    <3>1. CASE FlushTrack
      <4>1. diskType' = "known" /\ TypeOK'
        BY <1>3, <3>1, FlushCache, LoopFacts, TypeFlush, <1>1 DEF FlushTrack, InTrack
      <4>2. NextTrack \in Tracks
        BY <1>1, <3>1, LeastIn, TracksAssumption DEF FlushTrack, NextTrack, TypeOK
      <4>3. Encoded(trackCache'[NextTrack]) \in [Sectors -> Cell]
        BY <4>1, <4>2 DEF TypeOK, Encoded, Entry, Cell
      <4>4. QED
        BY <3>1, <4>1, <4>3, NotNothing DEF FlushTrack
    <3>2. CASE FlushVerify
      <4>1. \A w : RawRead(inDrive, track, w) \in [Sectors -> Cell]
        BY <1>1, <3>2 DEF TypeOK, RawRead, Cell, FlushVerify
      <4>2. QED
        BY <1>1, <3>2, <4>1, NotNothing DEF FlushVerify, InTrack
    <3>3. CASE ~(FlushTrack \/ FlushVerify)
      BY <1>1, <1>3, <3>3 DEF InTrack, FlushStep, FlushDone, FlushMotorFails, FlushNoDisk,
         FlushWrite, FlushStalls, StallAnswered, StallGivenUp, FlushUnverified,
         VerifyRetried, VerifyGivenUp, WarnedRetry, WarnedCancel, Abandon
    <3>4. QED
      BY <3>1, <3>2, <3>3
  <2>6. QED
    BY <1>1, <2>1, <2>2, <2>3, <2>4, <2>5 DEF flushFrame
<1>4. CASE ClientRequest
  BY <1>1, <1>4 DEF TypeOK, HomeOK, InTrack, ClientRequest, clientFrame, WriteRequest,
     ReadRequest, ReadBegins, DokanOpen
<1>5. CASE ClientStep
  <2>1. CASE ReadAttempt
    <3>1. req.track \in Tracks /\ pc["client"] = "read"
      BY <1>1, <2>1, RequestKinds DEF TypeOK, ReadAttempt
    <3>2. diskType' = diskType \/ diskType' = "known"
      BY <1>1, <2>1, <3>1, DecodeEffect DEF TypeOK, ReadAttempt, TrackRead, TrackUnread
    <3>3. UNCHANGED <<toFlush, flushVars, pc, diskInDrive, inDrive, home>>
      BY <1>5, <2>1 DEF ReadAttempt, ClientStep, clientFrame
    <3>4. QED
      BY <1>1, <3>1, <3>2, <3>3 DEF HomeOK, ForgetOK, InTrack
  <2>2. CASE WriteCommit
    BY <1>1, <1>5, <2>2 DEF TypeOK, HomeOK, ForgetOK, FlushHeld, AtFlush, InTrack, ClientStep,
       clientFrame, WriteCommit
  <2>3. CASE ~(ReadAttempt \/ WriteCommit)
    BY ZenonT(60), <1>1, <1>5, <2>3 DEF TypeOK, HomeOK, InTrack, ClientStep, clientFrame, WriteFlushed,
       ReadFlushed, ReadBegins, ReadReturns, ReadMotorFails, ReadPrompted, ReadAborted,
       ReadEnds
  <2>4. QED
    BY <2>1, <2>2, <2>3
<1>6. CASE TimerStep
  <2>1. CASE TimerIdentify
    BY <1>1, <1>6, <2>1 DEF TypeOK, HomeOK, InTrack, TimerStep, timerFrame, TimerIdentify, Calm
  <2>2. CASE TimerNotify
    BY <1>1, <1>6, <2>2 DEF TypeOK, HomeOK, InTrack, TimerStep, timerFrame, TimerNotify
  <2>3. CASE TimerSeesRemoval \/ TimerCancelled
    BY <1>1, <1>6, <2>3 DEF TypeOK, HomeOK, InTrack, TimerStep, timerFrame, TimerSeesRemoval,
       TimerCancelled, DiskGone
  <2>4. CASE ~(TimerIdentify \/ TimerNotify \/ TimerSeesRemoval \/ TimerCancelled)
    BY <1>1, <1>6, <2>4 DEF TypeOK, HomeOK, InTrack, TimerStep, timerFrame, TimerExpires,
       TimerFlushed, TimerLooks, TimerSeesNoChange, TimerSeesDisk, TimerReinserted
  <2>5. QED
    BY <2>1, <2>2, <2>3, <2>4
<1>7. CASE AppStep
  BY <1>1, <1>7 DEF TypeOK, HomeOK, ForgetOK, InTrack, AppStep, appFrame, AppFlush, AppLock, AppFlushed, AppShut,
     AppClean, AppCleaned, AppFormat, AppFormatFlush, AppFormatted, AppAbort,
     AppFormatAborted, AppCopyAborted, ResetCache, AppReset, AppForget, AppQuit
<1>8. QED
  BY <1>2, <1>3, <1>4, <1>5, <1>6, <1>7 DEF Next

LEMMA SteadyInvStep ==
  ASSUME Stays
  PROVE  SteadyInv /\ [Next]_vars => SteadyInv'
<1>  SUFFICES ASSUME SteadyInv, [Next]_vars PROVE SteadyInv'
  OBVIOUS
<1>1. HomeInv'
  BY HomeInvStep DEF SteadyInv, Stays
<1>2. QED
  BY <1>1, SteadyStep, DrainStep DEF SteadyInv
-----------------------------------------------------------------------------
(***************************************************************************)
(* What the cache calls good.  With sound media (a write may time out, a    *)
(* read may fail or decode badly, but no write leaves bad sectors behind    *)
(* without a word) a good sector of a track that nobody is about to write is *)
(* on the disk.                                                             *)
(***************************************************************************)
SoundFaults == Faults \subseteq {"stall", "weak", "unread"}

(* The tracks whose cached sectors may be ahead of the disk.                 *)
Unwritten == IF InLoop THEN todo ELSE toFlush

CleanOK ==
  \A t \in Tracks, s \in Sectors :
     t \notin Unwritten /\ trackCache[t][s].errs = Good =>
       \/ trackCache[t][s].data = media[home][t][s]
       \/ blanked /\ trackCache[t][s].data = Blank

(* What the track at hand holds once the write under way is done; either it   *)
(* agrees with the cache, or the read back will fail.                        *)
Onto == IF phase \in {"verify", "unverified", "warnVerify"} THEN media[home][track]
        ELSE buffer
Agrees == \A s \in Sectors : trackCache[track][s].errs # Absent =>
                               trackCache[track][s].data = Onto[s]
Doomed == \E s \in Sectors : trackCache[track][s].errs = Weak /\ Onto[s] = Bad
BufferOK == InTrack => Agrees \/ Doomed
CleanInv == SteadyInv /\ CleanOK /\ BufferOK

LEMMA SoundStays == SoundFaults => Stays
  BY DEF SoundFaults, Stays

LEMMA CleanInvInit == Init => CleanInv
<1>  SUFFICES ASSUME Init PROVE CleanInv
  OBVIOUS
<1>1. SteadyInv
  BY SteadyInvInit
<1>2. \A t \in Tracks, s \in Sectors : trackCache[t][s].errs # Good
  BY SMTT(60) DEF Init, NoTracks, NoTrack, NoSector, Good, Absent
<1>3. QED
  BY <1>1, <1>2 DEF Init, CleanInv, CleanOK, BufferOK, InTrack

(* findSectors keeps what it has unless the new copy has fewer errors.       *)
MergedAs(new, old, found, weak) ==
  /\ old.errs = Good => new = old
  /\ old.errs # Good /\ found # Bad /\ ~weak => new.errs = Good /\ new.data = found
  /\ old.errs = Weak /\ (found = Bad \/ weak) => new = old
  /\ old.errs = Absent /\ (found = Bad \/ weak) => new.errs = Weak

LEMMA MergedSector ==
  ASSUME TypeOK, inDrive # NoDisk, NEW t \in Tracks, NEW w
  PROVE  \A s \in Sectors : MergedAs(Merge(trackCache[t], Scan(inDrive, t, w))[s],
                                     trackCache[t][s], media[inDrive][t][s], s \in w)
<1>  SUFFICES ASSUME NEW s \in Sectors
              PROVE  MergedAs(Merge(trackCache[t], Scan(inDrive, t, w))[s],
                              trackCache[t][s], media[inDrive][t][s], s \in w)
  OBVIOUS
<1>1. trackCache[t][s].errs \in {Good, Weak, Absent}
  BY DEF TypeOK, Entry
<1>2. Merge(trackCache[t], Scan(inDrive, t, w))[s]
        = Better(trackCache[t][s], Scan(inDrive, t, w)[s])
  BY DEF Merge
<1>3. QED
  BY <1>1, <1>2 DEF MergedAs, Better, Scan, Good, Weak, Absent

(* The same for a pass over a track of the home disk, its type being known.  *)
LEMMA PassOver ==
  ASSUME TypeOK, inDrive # NoDisk, NEW t \in Tracks, NEW w, NEW type, Decode(t, w, type)
  PROVE  /\ trackCache' \in [Tracks -> [Sectors -> Entry]]
         /\ \A u \in Tracks, s \in Sectors :
              \/ trackCache'[u][s] = trackCache[u][s]
              \/ /\ u = t
                 /\ trackCache[u][s].errs # Good
                 /\ trackCache'[u][s].errs = Good =>
                      trackCache'[u][s].data = media[inDrive][u][s]
<1>1. /\ trackCache' \in [Tracks -> [Sectors -> Entry]]
      /\ \A u \in Tracks \ {t} : trackCache'[u] = trackCache[u]
      /\ \/ trackCache'[t] = trackCache[t]
         \/ trackCache'[t] = Merge(trackCache[t], Scan(inDrive, t, w))
  BY DecodeEffect
<1>2. \A s \in Sectors : trackCache[t][s].errs \in {Good, Weak, Absent}
  BY DEF TypeOK, Entry
<1>3. ASSUME NEW u \in Tracks, NEW s \in Sectors
      PROVE  \/ trackCache'[u][s] = trackCache[u][s]
             \/ /\ u = t
                /\ trackCache[u][s].errs # Good
                /\ trackCache'[u][s].errs = Good =>
                     trackCache'[u][s].data = media[inDrive][u][s]
  <2>1. CASE u # t \/ trackCache'[t] = trackCache[t]
    BY <1>1, <2>1
  <2>2. CASE u = t /\ trackCache'[t] = Merge(trackCache[t], Scan(inDrive, t, w))
    <3>1. MergedAs(trackCache'[t][s], trackCache[t][s], media[inDrive][t][s], s \in w)
      BY <2>2, MergedSector
    <3>2. QED
      BY <1>2, <2>2, <3>1 DEF MergedAs, Good, Weak, Absent
  <2>3. QED
    BY <1>1, <2>1, <2>2
<1>4. QED
  BY <1>1, <1>3
(* A verify that passes has found on the disk what the cache calls good.     *)
LEMMA VerifyFinds ==
  ASSUME SoundFaults, CleanInv, FlushVerify, NEW w,
         Decode(track, w, diskType), VerifyPasses(trackCache[track], trackCache'[track]),
         NEW s \in Sectors, trackCache'[track][s].errs = Good
  PROVE  trackCache'[track][s].data = media[home][track][s]
<1>1. /\ TypeOK /\ InTrack /\ inDrive = home /\ inDrive # NoDisk /\ track \in Tracks
      /\ diskType = "known"
  BY LoopFacts DEF CleanInv, SteadyInv, HomeInv, FlushInv, TypeOK, FlushVerify, InTrack
<1>2. trackCache'[track] = Merge(trackCache[track], Scan(inDrive, track, w))
  BY <1>1, DecodeEffect
<1>3. \A x \in Sectors : MergedAs(trackCache'[track][x], trackCache[track][x],
                                  media[home][track][x], x \in w)
  BY <1>1, <1>2, MergedSector
<1>4. \A x \in Sectors : trackCache[track][x].errs \in {Good, Weak, Absent}
  BY <1>1 DEF TypeOK, Entry
<1>5. \A x \in Sectors : trackCache[track][x].errs # Absent =>
                          /\ trackCache'[track][x].errs = Good
                          /\ trackCache'[track][x].data = trackCache[track][x].data
  BY DEF VerifyPasses
<1>6. ~Doomed
  BY <1>3, <1>5 DEF Doomed, Onto, FlushVerify, MergedAs, Good, Weak, Absent
<1>7. Agrees
  BY <1>1, <1>6 DEF CleanInv, BufferOK
<1>8. trackCache[track][s].errs # Absent => trackCache[track][s].data = media[home][track][s]
  BY <1>7 DEF Agrees, Onto, FlushVerify
<1>9. QED
  BY <1>3, <1>4, <1>8 DEF MergedAs, Good, Weak, Absent

LEMMA CleanKept ==
  ASSUME CleanOK, UNCHANGED <<trackCache, media, home, blanked>>,
         Unwritten \cap Tracks \subseteq Unwritten'
  PROVE  CleanOK'
<1>  SUFFICES ASSUME NEW t \in Tracks, NEW s \in Sectors, t \notin Unwritten',
                     trackCache'[t][s].errs = Good
              PROVE  \/ trackCache'[t][s].data = media'[home'][t][s]
                     \/ blanked' /\ trackCache'[t][s].data = Blank
  BY DEF CleanOK
<1>  HIDE DEF Unwritten
<1>1. QED
  BY DEF CleanOK

LEMMA CleanFlush ==
  ASSUME SoundFaults, CleanInv, FlushStep
  PROVE  CleanOK'
<1>1. TypeOK /\ LoopOK /\ SteadyInv /\ CleanOK
  BY DEF CleanInv, SteadyInv, HomeInv, FlushInv
<1>2. UNCHANGED <<inDrive, home, blanked>>
  BY DEF FlushStep, flushFrame
<1>3. CASE FlushTrack
  <2>1. /\ NextTrack \in todo /\ NextTrack \in Tracks /\ inDrive # NoDisk
        /\ Unwritten = todo /\ Unwritten' = todo /\ UNCHANGED media
    BY <1>1, <1>3, LeastIn, TracksAssumption, LoopFacts
       DEF FlushTrack, NextTrack, TypeOK, Unwritten, InLoop, InTrack
  <2>2. \A u \in Tracks \ {NextTrack} : trackCache'[u] = trackCache[u]
    BY <1>1, <1>3, <2>1, DecodeEffect
       DEF FlushTrack, FillTrack, TrackRead, TrackUnread, TypeOK
  <2>3. QED
    BY <1>1, <1>2, <2>1, <2>2 DEF CleanOK
<1>4. CASE FlushVerify
  <2>1. /\ inDrive # NoDisk /\ track \in todo /\ track \in Tracks /\ diskType = "known"
        /\ Unwritten = todo /\ UNCHANGED media
    BY <1>1, <1>4, LoopFacts DEF FlushVerify, TypeOK, LoopOK, Unwritten, InLoop, InTrack
  <2>2. PICK w \in WeakSets :
          /\ Decode(track, w, diskType)
          /\ \/ /\ VerifyPasses(trackCache[track], trackCache'[track])
                /\ Unwritten' = todo \ {track}
             \/ Unwritten' = todo
    BY <1>4 DEF FlushVerify, Unwritten, InLoop, InTrack
  <2>3. \A u \in Tracks \ {track} : trackCache'[u] = trackCache[u]
    BY <1>1, <2>1, <2>2, DecodeEffect
  <2>4. ASSUME NEW t \in Tracks, NEW s \in Sectors, t \notin Unwritten',
               trackCache'[t][s].errs = Good
        PROVE  \/ trackCache'[t][s].data = media'[home'][t][s]
               \/ blanked' /\ trackCache'[t][s].data = Blank
    <3>1. CASE t = track
      BY <1>2, <1>4, <2>1, <2>2, <2>4, <3>1, VerifyFinds
    <3>2. CASE t # track
      BY <1>1, <1>2, <2>1, <2>2, <2>3, <2>4, <3>2 DEF CleanOK
    <3>3. QED
      BY <3>1, <3>2
  <2>5. QED
    BY <2>4 DEF CleanOK
<1>5. CASE Abandon /\ InTrack
  <2>1. /\ todo = toFlush \ written /\ Unwritten = todo /\ Unwritten' = {}
    BY <1>1, <1>5 DEF Abandon, LoopOK, Unwritten, InLoop, InTrack
  <2>2. \A t \in Tracks, s \in Sectors : trackCache'[t][s].errs = Good =>
           t \notin todo /\ trackCache'[t] = trackCache[t]
    BY <1>5, <2>1 DEF Abandon, NoTrack, NoSector, Good, Absent
  <2>3. UNCHANGED media
    BY <1>5 DEF FlushStep, FlushDone, FlushTrack, FlushMotorFails, FlushNoDisk,
       FlushWrite, FlushStalls, StallAnswered, StallGivenUp, FlushVerify, FlushUnverified,
       VerifyRetried, VerifyGivenUp, WarnedRetry, WarnedCancel, Abandon
  <2>4. QED
    BY <1>1, <1>2, <2>1, <2>2, <2>3 DEF CleanOK
<1>6. CASE FlushWrite \/ FlushStalls
  <2>1. /\ track \in todo /\ inDrive = home /\ inDrive # NoDisk
        /\ Unwritten = todo /\ Unwritten' = todo /\ UNCHANGED trackCache
    BY <1>1, <1>6, LoopFacts
       DEF FlushWrite, FlushStalls, LoopOK, Unwritten, InLoop, InTrack, cacheVars, loopVars
  <2>2. \A t \in Tracks \ {track} : media'[home][t] = media[home][t]
    <3>1. NoneOwed \in [Sectors -> Cell]
      BY DEF NoneOwed, Cell
    <3>2. UNCHANGED media \/ \E c \in [Sectors -> Cell] :
                                media' = [media EXCEPT ![inDrive][track] = c]
      BY <1>1, <1>6, <3>1, FlushWriteEffect DEF FlushStalls
    <3>3. home \in Disks
      BY <1>1 DEF TypeOK
    <3>4. QED
      BY <1>1, <2>1, <3>2, <3>3, MediaEffect
  <2>3. QED
    BY <1>1, <1>2, <2>1, <2>2 DEF CleanOK
<1>7. CASE /\ ~(FlushTrack \/ FlushVerify \/ FlushWrite \/ FlushStalls)
           /\ ~(Abandon /\ InTrack)
  <2>1. UNCHANGED <<trackCache, media>> /\ Unwritten' = Unwritten
    BY <1>1, <1>7 DEF FlushStep, FlushDone, FlushMotorFails, FlushNoDisk, StallAnswered,
       StallGivenUp, FlushUnverified, TrackUnread, VerifyRetried, VerifyGivenUp,
       WarnedRetry, WarnedCancel, Unwritten, InLoop, InTrack, LoopOK, SoundFaults,
       cacheVars, loopVars
  <2>2. QED
    BY <1>1, <1>2, <2>1, CleanKept
<1>8. QED
  BY <1>3, <1>4, <1>5, <1>6, <1>7

LEMMA CleanClient ==
  ASSUME CleanInv, ClientRequest \/ ClientStep
  PROVE  CleanOK'
<1>  USE ThreadAssumption
     DEF cacheVars, loopVars, flushVars, Threads, Unlock, EnterFlush, FlushOver, Flushed,
         InLoop, InTrack
<1>1. TypeOK /\ LoopOK /\ HomeOK /\ FlushHeld /\ CleanOK
  BY DEF CleanInv, SteadyInv, HomeInv, FlushInv
<1>2. UNCHANGED <<inDrive, media, home, blanked>>
  BY DEF ClientRequest, ClientStep, clientFrame
<1>3. CASE ClientRequest
  <2>1. UNCHANGED trackCache /\ Unwritten' = Unwritten
    BY <1>1, <1>3 DEF ClientRequest, WriteRequest, ReadRequest, ReadBegins, Unwritten, TypeOK,
       FlushHeld, AtFlush
  <2>2. QED
    BY <1>1, <1>2, <2>1, CleanKept
<1>4. CASE WriteCommit
  <2>1. /\ req.track \in Tracks /\ req.sector \in Sectors
        /\ trackCache \in [Tracks -> [Sectors -> Entry]]
        /\ [data |-> req.data, errs |-> Good] \in Entry
    BY <1>1, <1>4, RequestKinds DEF TypeOK, WriteCommit, Entry, Data
  <2>2. phase = "idle"
    BY <1>1, <1>4 DEF WriteCommit, TypeOK, FlushHeld, AtFlush
  <2>3. CASE UNCHANGED <<cacheVars, flushVars>>
    <3>1. UNCHANGED trackCache /\ Unwritten' = Unwritten
      BY <2>3 DEF Unwritten
    <3>2. QED
      BY <1>1, <1>2, <3>1, CleanKept
  <2>4. CASE ~UNCHANGED <<cacheVars, flushVars>>
    <3>1. /\ trackCache' = [trackCache EXCEPT ![req.track][req.sector] =
                              [data |-> req.data, errs |-> Good]]
          /\ toFlush' = toFlush \cup {req.track}
          /\ \/ UNCHANGED flushVars
             \/ EnterFlush("client", "writeFlush", toFlush')
      BY <1>4, <2>4 DEF WriteCommit, Pending
    <3>2. \A u \in Tracks, x \in Sectors :
            u # req.track => trackCache'[u][x] = trackCache[u][x]
      BY <2>1, <3>1, SectorCached
    <3>3. Unwritten = toFlush /\ Unwritten' = toFlush'
      BY <2>2, <3>1 DEF Unwritten
    <3>4. QED
      BY <1>1, <1>2, <2>1, <3>1, <3>2, <3>3 DEF CleanOK
  <2>5. QED
    BY <2>3, <2>4
<1>5. CASE ReadAttempt
  <2>1. /\ req.track \in Tracks /\ inDrive \in {home, NoDisk}
        /\ Unwritten' = Unwritten
    BY <1>1, <1>5, RequestKinds DEF TypeOK, HomeOK, ReadAttempt, Unwritten
  <2>2. \A u \in Tracks, s \in Sectors :
          \/ trackCache'[u][s] = trackCache[u][s]
          \/ trackCache'[u][s].errs = Good => trackCache'[u][s].data = media[home][u][s]
    BY <1>1, <1>5, <2>1, PassOver DEF ReadAttempt, TrackRead, TrackUnread
  <2>3. QED
    BY <1>1, <1>2, <2>1, <2>2 DEF CleanOK
<1>6. CASE ClientStep /\ ~(WriteCommit \/ ReadAttempt)
  <2>1. UNCHANGED trackCache /\ Unwritten' = Unwritten
    BY <1>1, <1>6 DEF ClientStep, WriteFlushed, ReadFlushed, ReadReturns, ReadMotorFails,
       ReadPrompted, ReadAborted, ReadEnds, Unwritten
  <2>2. QED
    BY <1>1, <1>2, <2>1, CleanKept
<1>7. QED
  BY <1>3, <1>4, <1>5, <1>6

(* An emptied cache has nothing good in it.                                  *)
LEMMA CleanEmpty == ASSUME trackCache' = NoTracks PROVE CleanOK'
  BY DEF CleanOK, NoTracks, NoTrack, NoSector, Good, Absent

LEMMA CleanTimer ==
  ASSUME CleanInv, TimerStep
  PROVE  CleanOK'
<1>  USE ThreadAssumption
     DEF cacheVars, loopVars, flushVars, Threads, Unlock, EnterFlush, FlushOver, Flushed,
         InLoop, InTrack
<1>1. TypeOK /\ LoopOK /\ HomeOK /\ Steady /\ FlushHeld /\ CleanOK
  BY DEF CleanInv, SteadyInv, HomeInv, FlushInv
<1>2. UNCHANGED <<inDrive, media>>
  BY DEF TimerStep, timerFrame
<1>3. CASE TimerIdentify
  <2>1. /\ Least(Tracks) \in Tracks /\ inDrive \in {home, NoDisk}
        /\ Unwritten' = Unwritten /\ UNCHANGED <<home, blanked>>
    BY <1>1, <1>3, FirstTrackIn DEF HomeOK, TimerIdentify, Unwritten
  <2>2. \A u \in Tracks, s \in Sectors :
          \/ trackCache'[u][s] = trackCache[u][s]
          \/ trackCache'[u][s].errs = Good => trackCache'[u][s].data = media[home][u][s]
    BY <1>1, <1>3, <2>1, PassOver DEF TimerIdentify
  <2>3. QED
    BY <1>1, <1>2, <2>1, <2>2 DEF CleanOK
<1>4. CASE trackCache' = NoTracks
  BY <1>4, CleanEmpty
<1>5. CASE TimerSeesDisk
  BY <1>1, <1>5, CleanEmpty DEF TimerSeesDisk, Steady
<1>6. CASE ~TimerIdentify /\ ~TimerSeesDisk /\ trackCache' # NoTracks
  <2>1. UNCHANGED <<trackCache, home, blanked>> /\ Unwritten' = Unwritten
    BY <1>1, <1>6 DEF TimerStep, TimerExpires, TimerFlushed, TimerLooks, TimerSeesNoChange,
       TimerSeesRemoval, TimerReinserted, TimerCancelled, TimerNotify, DiskGone,
       Unwritten, TypeOK, FlushHeld, AtFlush
  <2>2. QED
    BY <1>1, <1>2, <2>1, CleanKept
<1>7. QED
  BY <1>3, <1>4, <1>5, <1>6

LEMMA CleanApp ==
  ASSUME CleanInv, AppStep
  PROVE  CleanOK'
<1>  USE ThreadAssumption
     DEF cacheVars, loopVars, flushVars, Threads, Unlock, EnterFlush, FlushOver, Flushed,
         InLoop, InTrack
<1>1. TypeOK /\ FlushHeld /\ CleanOK
  BY DEF CleanInv, SteadyInv, HomeInv, FlushInv
<1>2. UNCHANGED <<inDrive, media, home>>
  BY DEF AppStep, appFrame
<1>3. CASE trackCache' = NoTracks
  BY <1>3, CleanEmpty
<1>4. CASE AppFormat /\ trackCache' # NoTracks
  BY <1>4 DEF AppFormat, CleanOK
<1>5. CASE ~AppFormat /\ trackCache' # NoTracks
  <2>1. UNCHANGED <<trackCache, blanked>> /\ Unwritten' = Unwritten
    BY <1>1, <1>5 DEF AppStep, AppFlush, AppLock, AppFlushed, AppShut, AppClean, AppCleaned,
       AppFormatFlush, AppFormatted, AppAbort, AppFormatAborted, AppCopyAborted, ResetCache,
       AppReset, AppForget, AppQuit, Unwritten, TypeOK, FlushHeld, AtFlush
  <2>2. QED
    BY <1>1, <1>2, <2>1, CleanKept
<1>6. QED
  BY <1>3, <1>4, <1>5
(* Nobody else touches the track that a flush is at.                         *)
LEMMA TrackAlone ==
  ASSUME SteadyInv, DriveStep \/ ClientRequest \/ ClientStep \/ TimerStep \/ AppStep
  PROVE  /\ InTrack' <=> InTrack
         /\ InTrack => UNCHANGED <<phase, todo, track, buffer, trackCache, media, home,
                                   diskInDrive, toFlush, owed, blanked, writeOnly>>
<1>  USE ThreadAssumption
     DEF cacheVars, loopVars, flushVars, Threads, Unlock, EnterFlush, FlushOver, Flushed,
         InTrack
<1>1. TypeOK /\ HomeOK /\ FlushHeld
  BY DEF SteadyInv, HomeInv, FlushInv
<1>2. InTrack => pc["timer"] \notin {"notify", "identify"} /\ pc["app"] # "forget"
  BY LoopFacts
<1>3. lock = NoThread => phase = "idle"
  BY <1>1 DEF TypeOK, FlushHeld, AtFlush
<1>4. CASE DriveStep
  BY <1>4 DEF DriveStep, driveFrame
<1>5. CASE ClientRequest
  BY SMTT(60), <1>5, <1>3 DEF ClientRequest, clientFrame, WriteRequest, ReadRequest, ReadBegins
<1>6. CASE ClientStep
  BY <1>1, <1>6 DEF TypeOK, FlushHeld, AtFlush, ClientStep, clientFrame, WriteCommit,
     WriteFlushed, ReadFlushed, ReadReturns, ReadMotorFails, ReadAttempt, ReadPrompted,
     ReadAborted, ReadEnds
<1>7. CASE TimerStep
  BY <1>1, <1>2, <1>7 DEF TypeOK, FlushHeld, AtFlush, TimerStep, timerFrame, TimerExpires,
     TimerFlushed, TimerLooks, TimerSeesNoChange, TimerSeesRemoval, TimerSeesDisk,
     TimerReinserted, TimerCancelled, TimerNotify, TimerIdentify, DiskGone
<1>8. CASE AppStep
  <2>1. CASE AppFlushed \/ AppFormatted \/ AppShut \/ AppClean \/ AppAbort \/ AppForget
    BY <1>2, <1>8, <2>1 DEF AppStep, appFrame, AppFlushed, AppFormatted, AppShut, AppClean, AppAbort,
       AppForget
  <2>2. CASE AppFormat \/ AppCopyAborted \/ AppReset
    BY <1>8, <1>3, <2>2 DEF AppStep, appFrame, AppFormat, AppCopyAborted, AppReset, ResetCache
  <2>3. CASE AppLock \/ AppCleaned \/ AppFormatFlush \/ AppFormatAborted \/ AppQuit
    BY <1>3, <2>3 DEF AppLock, AppCleaned, AppFormatFlush, AppFormatAborted, AppQuit, AppFlush
  <2>4. QED
    BY <1>8, <2>1, <2>2, <2>3 DEF AppStep
<1>9. QED
  BY <1>4, <1>5, <1>6, <1>7, <1>8

LEMMA BufferFlush ==
  ASSUME SoundFaults, CleanInv, FlushStep
  PROVE  BufferOK'
<1>  SUFFICES ASSUME InTrack' PROVE Agrees' \/ Doomed'
  BY DEF BufferOK
<1>1. TypeOK /\ SteadyInv /\ UNCHANGED <<inDrive, home>>
  BY DEF CleanInv, SteadyInv, HomeInv, FlushInv, FlushStep, flushFrame
<1>2. TypeOK'
  BY <1>1, TypeFlush
<1>3. CASE FlushTrack
  <2>1. diskType' = "known" /\ phase' = "write"
    BY <1>1, <1>3, FlushCache, LoopFacts DEF FlushTrack, InTrack
  <2>2. track' \in Tracks /\ buffer' = Encoded(trackCache'[track'])
    BY <1>2, <1>3, <2>1 DEF FlushTrack, TypeOK
  <2>3. Agrees'
    BY <1>2, <2>1, <2>2 DEF Agrees, Onto, Encoded, TypeOK
  <2>4. QED
    BY <2>3
<1>4. CASE FlushVerify
  <2>1. /\ inDrive = home /\ inDrive # NoDisk /\ track \in Tracks /\ diskType = "known"
        /\ InTrack /\ phase = "verify"
    BY <1>1, <1>4, LoopFacts DEF FlushVerify, TypeOK, InTrack
  <2>2. PICK w \in WeakSets :
          /\ Decode(track, w, diskType)
          /\ ~VerifyPasses(trackCache[track], trackCache'[track])
          /\ phase' = "write"
          /\ buffer' = IF buffer = Nothing THEN Nothing ELSE RawRead(inDrive, track, w)
          /\ UNCHANGED track
    BY <1>4 DEF FlushVerify, InTrack
  <2>3. buffer' = RawRead(home, track, w)
    BY <1>1, <2>1, <2>2 DEF SteadyInv, Steady
  <2>4. \A x \in Sectors : MergedAs(trackCache'[track][x], trackCache[track][x],
                                    media[home][track][x], x \in w)
    BY SMTT(60), <1>1, <2>1, <2>2, DecodeEffect, MergedSector
  <2>5. \A x \in Sectors : trackCache[track][x].errs \in {Good, Weak, Absent}
    BY <1>1, <2>1 DEF TypeOK, Entry
  <2>6. \A x \in Sectors : media[home][track][x] = Bad \/ x \in w => Onto'[x] = Bad
    BY <2>2, <2>3 DEF Onto, RawRead
  <2>7. CASE Doomed
    BY <2>1, <2>2, <2>4, <2>6, <2>7
       DEF Doomed, Onto, MergedAs, Good, Weak, Absent
  <2>8. CASE Agrees
    <3>1. PICK x \in Sectors :
            /\ trackCache[track][x].errs # Absent
            /\ \/ trackCache'[track][x].errs # Good
               \/ trackCache'[track][x].data # trackCache[track][x].data
      BY <2>2 DEF VerifyPasses
    <3>2. trackCache[track][x].data = media[home][track][x]
      BY <2>1, <2>8, <3>1 DEF Agrees, Onto
    <3>3. trackCache'[track][x].errs = Weak /\ (media[home][track][x] = Bad \/ x \in w)
      BY <2>4, <2>5, <3>1, <3>2 DEF MergedAs, Good, Weak, Absent
    <3>4. QED
      BY <2>2, <2>6, <3>3 DEF Doomed
  <2>9. QED
    BY <1>1, <2>1, <2>7, <2>8 DEF CleanInv, BufferOK
<1>5. CASE FlushWrite
  <2>1. /\ inDrive = home /\ inDrive # NoDisk /\ track \in Tracks /\ buffer # Nothing
        /\ phase = "write" /\ phase' = "verify" /\ InTrack
        /\ UNCHANGED <<trackCache, track>>
    BY <1>1, <1>5, LoopFacts DEF FlushWrite, SteadyInv, Steady, TypeOK, InTrack, cacheVars, loopVars
  <2>2. media' = [media EXCEPT ![inDrive][track] = [s \in Sectors |-> buffer[s]]]
    BY <1>1, <1>5, <2>1, FlushWriteEffect DEF SoundFaults
  <2>3. [s \in Sectors |-> buffer[s]] \in [Sectors -> Cell]
    BY <1>1, <2>1 DEF TypeOK
  <2>4. \A s \in Sectors : Onto'[s] = Onto[s]
    <3>1. media'[home][track] = [s \in Sectors |-> buffer[s]]
      BY <1>1, <2>1, <2>2, <2>3, MediaEffect
    <3>2. Onto = buffer /\ Onto' = media'[home][track]
      BY <1>1, <2>1 DEF Onto
    <3>3. QED
      BY <3>1, <3>2
  <2>5. QED
    BY <2>1, <2>4 DEF CleanInv, BufferOK, Agrees, Doomed
<1>6. CASE FlushStalls
  <2>1. InTrack /\ UNCHANGED <<trackCache, track>> /\ Onto = buffer /\ Onto' = buffer
    BY <1>6 DEF FlushStalls, InTrack, Onto, cacheVars, loopVars
  <2>2. QED
    BY <2>1 DEF CleanInv, BufferOK, Agrees, Doomed
<1>7. CASE ~(FlushTrack \/ FlushVerify \/ FlushWrite \/ FlushStalls)
  <2>1. InTrack /\ UNCHANGED <<trackCache, track, Onto>>
    BY <1>1, <1>7 DEF FlushStep, FlushDone, FlushMotorFails, FlushNoDisk, StallAnswered,
       StallGivenUp, FlushUnverified, TrackUnread, VerifyRetried, VerifyGivenUp,
       WarnedRetry, WarnedCancel, Abandon, Onto, InTrack, cacheVars, loopVars
  <2>2. QED
    BY <2>1 DEF CleanInv, BufferOK, Agrees, Doomed
<1>8. QED
  BY <1>3, <1>4, <1>5, <1>6, <1>7

LEMMA CleanInvStep ==
  ASSUME SoundFaults
  PROVE  CleanInv /\ [Next]_vars => CleanInv'
<1>  SUFFICES ASSUME CleanInv, [Next]_vars PROVE CleanInv'
  OBVIOUS
<1>1. SteadyInv'
  BY SoundStays, SteadyInvStep DEF CleanInv
<1>2. CASE FlushStep
  BY <1>1, <1>2, CleanFlush, BufferFlush DEF CleanInv
<1>3. CASE DriveStep \/ UNCHANGED vars
  <2>1. UNCHANGED <<trackCache, media, home, blanked, phase, todo, toFlush, track, buffer>>
    BY <1>3 DEF DriveStep, driveFrame, vars
  <2>2. QED
    BY <1>1, <2>1 DEF CleanInv, CleanOK, BufferOK, Unwritten, InLoop, InTrack, Agrees, Doomed,
       Onto
<1>4. CASE ClientRequest \/ ClientStep \/ TimerStep \/ AppStep
  <2>1. CleanOK'
    BY <1>4, CleanClient, CleanTimer, CleanApp
  <2>2. BufferOK'
    <3>1. InTrack' => InTrack /\ UNCHANGED <<phase, track, buffer, trackCache, media, home>>
      BY <1>4, TrackAlone DEF CleanInv
    <3>2. QED
      BY <3>1 DEF CleanInv, BufferOK, Agrees, Doomed, Onto
  <2>3. QED
    BY <1>1, <2>1, <2>2 DEF CleanInv
<1>5. QED
  BY <1>2, <1>3, <1>4 DEF Next

LEMMA CleanInvAlways ==
  ASSUME SoundFaults
  PROVE  Spec => []CleanInv
<1>1. CleanInv /\ [Next]_vars => CleanInv'
  BY CleanInvStep
<1>2. QED
  BY <1>1, CleanInvInit, PTL DEF Spec

(* A sector which the cache calls good, and which readData hands out without  *)
(* touching the drive, is the sector on the disk, unless its track is due to  *)
(* be written: for any number of tracks, sectors and disks, any interleaving *)
(* of the threads, with writes that time out and reads that fail or decode    *)
(* badly.                                                                   *)
THEOREM CleanIsWritten ==
  ASSUME SoundFaults
  PROVE  Spec => []CleanMeansWritten
<1>1. CleanInv => CleanMeansWritten
  <2>1. CleanInv => Unwritten \subseteq toFlush
    BY DEF CleanInv, SteadyInv, HomeInv, LoopOK, Unwritten
  <2>2. QED
    BY <2>1 DEF CleanInv, CleanOK, CleanMeansWritten
<1>2. QED
  BY <1>1, CleanInvAlways, PTL
-----------------------------------------------------------------------------
(***************************************************************************)
(* What is owed.  A write that was accepted is on the disk, or cached and    *)
(* about to be written.  A track is written whole, so the invariant says as  *)
(* well that no write of a neighbour takes it back: while its track is being *)
(* written, or would be made up (write-only mode), or could be read badly,   *)
(* the sector is in the cache.  A dialog empties the cache; then a bad read  *)
(* of the sector before its track is written again would lose it, so that    *)
(* reads have to be sound if there are dialogs.                             *)
(***************************************************************************)
KeepingFaults == SoundFaults /\ (MaxSessions = 0 \/ Faults \subseteq {"stall"})

Kept(t, s) ==
  \/ media[home][t][s] = owed[t][s]
  \/ t \in Unwritten /\ trackCache[t][s] = [data |-> owed[t][s], errs |-> Good]
Same(t, s) == trackCache[t][s].errs = Good => trackCache[t][s].data = owed[t][s]
Needed(t) == (writeOnly /\ pc["app"] # "forget") \/ MaxSessions = 0 \/ (InTrack /\ t = track)
Held(t, s) ==
  Needed(t) => /\ trackCache[t][s].errs = Good
               /\ diskInDrive /\ pc["timer"] \notin {"notify", "identify"}
LossOK ==
  \A t \in Tracks, s \in Sectors :
     owed[t][s] # Bad => Kept(t, s) /\ Same(t, s) /\ Held(t, s)
LossInv == CleanInv /\ LossOK

LEMMA LossInvInit == Init => LossInv
  BY CleanInvInit DEF Init, LossInv, LossOK, NoneOwed

(* A step that leaves the cache, the disk and what is owed alone.            *)
LEMMA LossKept ==
  ASSUME LossOK, UNCHANGED <<trackCache, media, home, owed>>,
         Unwritten \cap Tracks \subseteq Unwritten',
         \A t \in Tracks : Needed(t)' => Needed(t) /\ UNCHANGED diskInDrive,
         pc["timer"]' \in {"notify", "identify"} => pc["timer"] \in {"notify", "identify"}
  PROVE  LossOK'
<1>  SUFFICES ASSUME NEW t \in Tracks, NEW s \in Sectors, owed'[t][s] # Bad
              PROVE  Kept(t, s)' /\ Same(t, s)' /\ Held(t, s)'
  BY DEF LossOK
<1>1. Kept(t, s) /\ Same(t, s) /\ Held(t, s)
  BY DEF LossOK
<1>  HIDE DEF Unwritten, Needed
<1>2. QED
  BY <1>1 DEF Kept, Same, Held

(* A pass over a track leaves alone what is owed: a sector that is not cached *)
(* good is on the disk, and that is what is read.                           *)
LEMMA LossPass ==
  ASSUME CleanInv, LossOK, inDrive = home, inDrive # NoDisk, NEW p \in Tracks, NEW w, NEW type,
         Decode(p, w, type), NEW t \in Tracks, NEW s \in Sectors, owed[t][s] # Bad
  PROVE  /\ trackCache[t][s].errs = Good => trackCache'[t][s] = trackCache[t][s]
         /\ trackCache'[t][s].errs = Good => trackCache'[t][s].data = owed[t][s]
<1>1. TypeOK
  BY DEF CleanInv, SteadyInv, HomeInv, FlushInv
<1>2. Kept(t, s) /\ Same(t, s)
  BY DEF LossOK
<1>3. \/ trackCache'[t][s] = trackCache[t][s]
      \/ /\ trackCache[t][s].errs # Good
         /\ trackCache'[t][s].errs = Good => trackCache'[t][s].data = media[inDrive][t][s]
  BY <1>1, PassOver
<1>4. QED
  BY <1>2, <1>3 DEF Kept, Same

LEMMA LossFlush ==
  ASSUME KeepingFaults, LossInv, FlushStep
  PROVE  LossOK'
<1>1. TypeOK /\ LoopOK /\ SteadyInv /\ CleanInv /\ LossOK
  BY DEF LossInv, CleanInv, SteadyInv, HomeInv, FlushInv
<1>2. /\ UNCHANGED <<inDrive, home, pc, diskInDrive, writeOnly>>
      /\ TypeOK'
  BY <1>1, TypeFlush DEF FlushStep, flushFrame
<1>3. CASE FlushTrack
  <2>1. /\ NextTrack \in todo /\ NextTrack \in Tracks /\ inDrive = home /\ inDrive # NoDisk
        /\ Unwritten = todo /\ Unwritten' = todo /\ UNCHANGED <<media, owed>>
        /\ diskType = "known" /\ ~InTrack /\ track' = NextTrack
        /\ diskInDrive /\ pc["timer"] \notin {"notify", "identify"} /\ pc["app"] # "forget"
    BY <1>1, <1>3, LeastIn, TracksAssumption, LoopFacts
       DEF FlushTrack, NextTrack, TypeOK, Unwritten, InLoop, InTrack
  <2>2. ASSUME NEW t \in Tracks, NEW s \in Sectors, owed[t][s] # Bad
        PROVE  /\ trackCache[t][s].errs = Good => trackCache'[t][s] = trackCache[t][s]
               /\ trackCache'[t][s].errs = Good => trackCache'[t][s].data = owed[t][s]
               /\ t = NextTrack => trackCache'[t][s].errs = Good
    <3>1. Kept(t, s) /\ Same(t, s) /\ Held(t, s)
      BY <1>1, <2>2 DEF LossOK
    <3>2. CASE trackCache'[t][s] = trackCache[t][s] /\ trackCache[t][s].errs = Good
      BY <3>1, <3>2 DEF Same
    <3>3. CASE trackCache[t][s].errs # Good
      <4>1. /\ media[home][t][s] = owed[t][s]
            /\ ~writeOnly /\ MaxSessions # 0
        BY <2>1, <3>1, <3>3 DEF Kept, Held, Needed
      <4>2. Faults \subseteq {"stall"} /\ WeakSets = {{}}
        BY <4>1 DEF KeepingFaults, WeakSets
      <4>3. CASE t = NextTrack
        <5>1. TrackRead(t)
          BY <1>3, <2>1, <3>3, <4>1, <4>2, <4>3 DEF FlushTrack, FillTrack, TrackUnread
        <5>2. Decode(t, {}, diskType)
          BY <4>2, <5>1 DEF TrackRead
        <5>3. trackCache'[t] = Merge(trackCache[t], Scan(inDrive, t, {}))
          BY <1>1, <2>1, <5>2, DecodeEffect
        <5>4. MergedAs(trackCache'[t][s], trackCache[t][s], media[home][t][s], s \in {})
          BY <1>1, <2>1, <5>3, MergedSector
        <5>5. QED
          BY <2>2, <3>3, <4>1, <5>4 DEF MergedAs
      <4>4. CASE t # NextTrack
        <5>1. trackCache'[t] = trackCache[t]
          BY <1>1, <1>3, <2>1, <4>1, <4>4, DecodeEffect
             DEF FlushTrack, FillTrack, TrackRead, TrackUnread, TypeOK
        <5>2. QED
          BY <3>3, <4>4, <5>1
      <4>5. QED
        BY <4>3, <4>4
    <3>4. CASE trackCache[t][s].errs = Good
      <4>1. CASE \E w : Decode(NextTrack, w, diskType)
        BY <1>1, <2>1, <2>2, <3>4, <4>1, <3>2, LossPass
      <4>2. CASE UNCHANGED trackCache
        BY <3>2, <3>4, <4>2
      <4>3. CASE trackCache' = [trackCache EXCEPT ![NextTrack] = BlanksAdded(NextTrack)]
        BY <1>1, <2>1, <3>2, <3>4, <4>3 DEF BlanksAdded, TypeOK, Good, Absent
      <4>4. QED
        BY <1>3, <2>1, <4>1, <4>2, <4>3 DEF FlushTrack, FillTrack, TrackRead, TrackUnread
    <3>5. QED
      BY <3>3, <3>4
  <2>3. ASSUME NEW t \in Tracks, NEW s \in Sectors, owed'[t][s] # Bad
        PROVE  Kept(t, s)' /\ Same(t, s)' /\ Held(t, s)'
    <3>1. Kept(t, s) /\ Same(t, s) /\ Held(t, s)
      BY <1>1, <2>1, <2>3 DEF LossOK
    <3>2. QED
      BY <1>2, <2>1, <2>2, <2>3, <3>1 DEF Kept, Same, Held, Needed
  <2>4. QED
    BY <2>3 DEF LossOK
<1>4. CASE FlushVerify
  <2>1. /\ inDrive # NoDisk /\ inDrive = home /\ track \in todo /\ track \in Tracks
        /\ diskType = "known" /\ Unwritten = todo /\ InTrack
        /\ UNCHANGED <<media, owed, track>>
        /\ diskInDrive /\ pc["timer"] \notin {"notify", "identify"}
    BY <1>1, <1>4, LoopFacts DEF FlushVerify, TypeOK, LoopOK, Unwritten, InLoop, InTrack
  <2>2. PICK w \in WeakSets :
          /\ Decode(track, w, diskType)
          /\ \/ /\ VerifyPasses(trackCache[track], trackCache'[track])
                /\ Unwritten' = todo \ {track}
             \/ Unwritten' = todo
    BY <1>4 DEF FlushVerify, Unwritten, InLoop, InTrack
  <2>3. ASSUME NEW t \in Tracks, NEW s \in Sectors, owed'[t][s] # Bad
        PROVE  Kept(t, s)' /\ Same(t, s)' /\ Held(t, s)'
    <3>1. Kept(t, s) /\ Same(t, s) /\ Held(t, s)
      BY <1>1, <2>1, <2>3 DEF LossOK
    <3>2. /\ trackCache[t][s].errs = Good => trackCache'[t][s] = trackCache[t][s]
          /\ trackCache'[t][s].errs = Good => trackCache'[t][s].data = owed[t][s]
      BY <1>1, <2>1, <2>2, <2>3, LossPass
    <3>3. CASE t = track
      <4>1. trackCache[t][s].errs = Good /\ trackCache'[t][s] = trackCache[t][s]
        BY <2>1, <3>1, <3>2, <3>3 DEF Held, Needed
      <4>2. CASE Unwritten' = todo
        <5>1. trackCache'[t][s] = [data |-> owed[t][s], errs |-> Good]
          BY <1>2, <2>1, <2>3, <3>2, <4>1 DEF TypeOK, Entry
        <5>2. QED
          BY <1>2, <2>1, <3>2, <3>3, <4>1, <4>2, <5>1 DEF Kept, Same, Held
      <4>3. CASE VerifyPasses(trackCache[track], trackCache'[track])
        <5>1. trackCache'[t][s].data = media[home][t][s]
          BY <1>1, <1>4, <2>2, <3>3, <4>1, <4>3, VerifyFinds DEF KeepingFaults
        <5>2. QED
          BY <1>2, <2>1, <3>2, <4>1, <5>1 DEF Kept, Same, Held
      <4>4. QED
        BY <2>2, <4>2, <4>3
    <3>4. CASE t # track
      <4>1. trackCache'[t] = trackCache[t]
        BY <1>1, <2>1, <2>2, <3>4, DecodeEffect
      <4>2. QED
        BY <1>2, <2>1, <2>2, <3>1, <3>4, <4>1 DEF Kept, Same, Held, Needed
    <3>5. QED
      BY <3>3, <3>4
  <2>4. QED
    BY <2>3 DEF LossOK
<1>5. CASE Abandon /\ InTrack
  <2>1. /\ todo = toFlush \ written /\ Unwritten = todo /\ ~InTrack'
        /\ UNCHANGED media
    BY <1>1, <1>5 DEF Abandon, LoopOK, Unwritten, InLoop, InTrack, FlushStep, FlushDone, FlushTrack,
       FlushMotorFails, FlushNoDisk, FlushWrite, FlushStalls, StallAnswered, StallGivenUp,
       FlushVerify, FlushUnverified, VerifyRetried, VerifyGivenUp, WarnedRetry, WarnedCancel
  <2>2. ASSUME NEW t \in Tracks, NEW s \in Sectors, owed'[t][s] # Bad
        PROVE  Kept(t, s)' /\ Same(t, s)' /\ Held(t, s)'
    <3>1. t \notin todo /\ owed'[t] = owed[t] /\ trackCache'[t] = trackCache[t]
      BY <1>5, <2>1, <2>2 DEF Abandon, OwedWithout, NoneOwed
    <3>2. Kept(t, s) /\ Same(t, s) /\ Held(t, s)
      BY <1>1, <2>2, <3>1 DEF LossOK
    <3>3. QED
      BY <1>2, <2>1, <3>1, <3>2 DEF Kept, Same, Held, Needed
  <2>3. QED
    BY <2>2 DEF LossOK
<1>6. CASE FlushWrite \/ FlushStalls
  <2>1. /\ track \in todo /\ inDrive = home /\ inDrive # NoDisk /\ InTrack /\ InTrack'
        /\ Unwritten = todo /\ Unwritten' = todo /\ UNCHANGED <<trackCache, owed, track>>
    BY <1>1, <1>6, LoopFacts
       DEF FlushWrite, FlushStalls, LoopOK, Unwritten, InLoop, InTrack, cacheVars, loopVars
  <2>2. \A t \in Tracks \ {track} : media'[home][t] = media[home][t]
    <3>1. NoneOwed \in [Sectors -> Cell]
      BY DEF NoneOwed, Cell
    <3>2. UNCHANGED media \/ \E c \in [Sectors -> Cell] :
                                media' = [media EXCEPT ![inDrive][track] = c]
      BY <1>1, <1>6, <3>1, FlushWriteEffect DEF FlushStalls
    <3>3. home \in Disks
      BY <1>1 DEF TypeOK
    <3>4. QED
      BY <1>1, <2>1, <3>2, <3>3, MediaEffect
  <2>3. ASSUME NEW t \in Tracks, NEW s \in Sectors, owed'[t][s] # Bad
        PROVE  Kept(t, s)' /\ Same(t, s)' /\ Held(t, s)'
    <3>1. Kept(t, s) /\ Same(t, s) /\ Held(t, s)
      BY <1>1, <2>1, <2>3 DEF LossOK
    <3>2. t = track => trackCache[t][s] = [data |-> owed[t][s], errs |-> Good]
      BY <1>1, <2>1, <3>1 DEF Same, Held, Needed, TypeOK, Entry
    <3>3. QED
      BY <1>2, <2>1, <2>2, <3>1, <3>2 DEF Kept, Same, Held, Needed
  <2>4. QED
    BY <2>3 DEF LossOK
<1>7. CASE /\ ~(FlushTrack \/ FlushVerify \/ FlushWrite \/ FlushStalls)
           /\ ~(Abandon /\ InTrack)
  <2>1. /\ UNCHANGED <<trackCache, media, owed>> /\ Unwritten' = Unwritten
        /\ InTrack' => InTrack /\ UNCHANGED track
    BY <1>1, <1>7 DEF FlushStep, FlushDone, FlushMotorFails, FlushNoDisk, StallAnswered,
       StallGivenUp, FlushUnverified, TrackUnread, VerifyRetried, VerifyGivenUp,
       WarnedRetry, WarnedCancel, Unwritten, InLoop, InTrack, LoopOK, KeepingFaults, SoundFaults,
       cacheVars, loopVars
  <2>2. \A t \in Tracks : Needed(t)' => Needed(t)
    BY <1>2, <2>1 DEF Needed
  <2>3. QED
    BY <1>1, <1>2, <2>1, <2>2, LossKept
<1>8. QED
  BY <1>3, <1>4, <1>5, <1>6, <1>7

LEMMA LossClient ==
  ASSUME LossInv, ClientRequest \/ ClientStep
  PROVE  LossOK'
<1>  USE ThreadAssumption
     DEF cacheVars, loopVars, flushVars, Threads, Unlock, EnterFlush, FlushOver, Flushed,
         InLoop, InTrack
<1>1. TypeOK /\ HomeOK /\ FlushHeld /\ CleanInv /\ CleanOK /\ LossOK
  BY DEF LossInv, CleanInv, SteadyInv, HomeInv, FlushInv
<1>2. /\ UNCHANGED <<inDrive, media, home, blanked, diskInDrive, writeOnly>>
      /\ pc["timer"]' = pc["timer"] /\ pc["app"]' = pc["app"]
  BY ZenonT(60), <1>1 DEF ClientRequest, ClientStep, clientFrame, WriteRequest, ReadRequest, ReadBegins,
     WriteCommit, WriteFlushed, ReadFlushed, ReadReturns, ReadMotorFails, ReadAttempt,
     ReadPrompted, ReadAborted, ReadEnds, TypeOK
<1>3. CASE WriteCommit
  <2>1. /\ req.track \in Tracks /\ req.sector \in Sectors /\ req.data \in Payload
        /\ trackCache \in [Tracks -> [Sectors -> Entry]]
        /\ [data |-> req.data, errs |-> Good] \in Entry
        /\ owed \in [Tracks -> [Sectors -> Cell]]
        /\ owed' = [owed EXCEPT ![req.track][req.sector] = req.data]
        /\ diskInDrive /\ pc["timer"] \notin {"notify", "identify"}
    BY <1>1, <1>3, RequestKinds DEF TypeOK, HomeOK, Promised, WriteCommit, Entry, Data
  <2>2. phase = "idle" /\ ~InTrack /\ ~InTrack'
    BY <1>1, <1>3 DEF WriteCommit, TypeOK, FlushHeld, AtFlush
  <2>3. \A u \in Tracks, x \in Sectors :
          owed'[u][x] = IF u = req.track /\ x = req.sector THEN req.data ELSE owed[u][x]
    BY <2>1
  <2>4. /\ trackCache'[req.track][req.sector] = [data |-> req.data, errs |-> Good]
        /\ \A u \in Tracks, x \in Sectors :
              u # req.track \/ x # req.sector => trackCache'[u][x] = trackCache[u][x]
    <3>1. CASE trackCache[req.track][req.sector] = [data |-> req.data, errs |-> Good]
      BY <1>3, <3>1 DEF WriteCommit
    <3>2. CASE trackCache' = [trackCache EXCEPT ![req.track][req.sector] =
                                [data |-> req.data, errs |-> Good]]
      BY <2>1, <3>2, SectorCached
    <3>3. QED
      BY <1>3, <3>1, <3>2 DEF WriteCommit
  <2>5. /\ Unwritten = toFlush /\ Unwritten' = toFlush' /\ toFlush \subseteq toFlush'
        /\ \/ req.track \in toFlush'
           \/ trackCache[req.track][req.sector] = [data |-> req.data, errs |-> Good]
    BY <1>3, <2>2 DEF WriteCommit, Pending, Unwritten
  <2>6. ASSUME NEW t \in Tracks, NEW s \in Sectors, owed'[t][s] # Bad
        PROVE  Kept(t, s)' /\ Same(t, s)' /\ Held(t, s)'
    <3>1. CASE t = req.track /\ s = req.sector
      <4>1. /\ owed'[t][s] = req.data
            /\ trackCache'[t][s] = [data |-> owed'[t][s], errs |-> Good]
        BY <2>3, <2>4, <3>1
      <4>2. t \in toFlush' \/ media[home][t][s] = req.data
        <5>1. CASE t \notin toFlush'
          <6>1. t \notin Unwritten /\ trackCache[t][s] = [data |-> req.data, errs |-> Good]
            BY <2>5, <3>1, <5>1
          <6>2. req.data # Blank
            BY <2>1, DataAssumption
          <6>3. QED
            BY <1>1, <6>1, <6>2 DEF CleanOK
        <5>2. QED
          BY <5>1
      <4>3. QED
        BY <1>2, <2>1, <2>5, <4>1, <4>2 DEF Kept, Same, Held
    <3>2. CASE ~(t = req.track /\ s = req.sector)
      <4>1. owed'[t][s] = owed[t][s] /\ trackCache'[t][s] = trackCache[t][s]
        BY <2>3, <2>4, <3>2
      <4>2. Kept(t, s) /\ Same(t, s) /\ Held(t, s)
        BY <1>1, <2>6, <4>1 DEF LossOK
      <4>3. Needed(t)' => Needed(t)
        BY <1>2, <2>2 DEF Needed
      <4>4. QED
        BY <1>2, <2>1, <2>5, <4>1, <4>2, <4>3 DEF Kept, Same, Held
    <3>3. QED
      BY <3>1, <3>2
  <2>7. QED
    BY <2>6 DEF LossOK
<1>4. CASE ReadAttempt
  <2>1. /\ req.track \in Tracks /\ inDrive \in {home, NoDisk}
        /\ Unwritten' = Unwritten /\ UNCHANGED <<owed, phase, track>>
    BY <1>1, <1>4, RequestKinds DEF TypeOK, HomeOK, ReadAttempt, Unwritten
  <2>2. ASSUME NEW t \in Tracks, NEW s \in Sectors, owed[t][s] # Bad
        PROVE  /\ trackCache[t][s].errs = Good => trackCache'[t][s] = trackCache[t][s]
               /\ trackCache'[t][s].errs = Good => trackCache'[t][s].data = owed[t][s]
    <3>1. CASE TrackUnread
      BY <1>1, <2>2, <3>1 DEF TrackUnread, LossOK, Same
    <3>2. CASE TrackRead(req.track)
      BY <1>1, <2>1, <2>2, <3>2, LossPass DEF TrackRead
    <3>3. QED
      BY <1>4, <3>1, <3>2 DEF ReadAttempt
  <2>3. ASSUME NEW t \in Tracks, NEW s \in Sectors, owed'[t][s] # Bad
        PROVE  Kept(t, s)' /\ Same(t, s)' /\ Held(t, s)'
    <3>1. Kept(t, s) /\ Same(t, s) /\ Held(t, s)
      BY <1>1, <2>1, <2>3 DEF LossOK
    <3>2. Needed(t)' => Needed(t)
      BY <1>2, <2>1 DEF Needed
    <3>3. QED
      BY <1>2, <2>1, <2>2, <2>3, <3>1, <3>2 DEF Kept, Same, Held
  <2>4. QED
    BY <2>3 DEF LossOK
<1>5. CASE ClientRequest \/ (ClientStep /\ ~(WriteCommit \/ ReadAttempt))
  <2>1. /\ UNCHANGED <<trackCache, owed>> /\ Unwritten' = Unwritten
        /\ InTrack' => InTrack /\ UNCHANGED track
    BY ZenonT(60), <1>1, <1>5 DEF TypeOK, FlushHeld, AtFlush, ClientRequest, WriteRequest, ReadRequest,
       ReadBegins, ClientStep, WriteFlushed, ReadFlushed, ReadReturns, ReadMotorFails,
       ReadPrompted, ReadAborted, ReadEnds, Unwritten
  <2>2. \A t \in Tracks : Needed(t)' => Needed(t)
    BY <1>2, <2>1 DEF Needed
  <2>3. QED
    BY SMTT(60), <1>1, <1>2, <2>1, <2>2, LossKept
<1>6. QED
  BY <1>3, <1>4, <1>5

LEMMA LossTimer ==
  ASSUME LossInv, TimerStep
  PROVE  LossOK'
<1>  USE ThreadAssumption
     DEF cacheVars, loopVars, flushVars, Threads, Unlock, EnterFlush, FlushOver, Flushed,
         InLoop, InTrack
<1>1. TypeOK /\ HomeOK /\ Steady /\ FlushHeld /\ CleanInv /\ LossOK /\ DrainOK
  BY DEF LossInv, CleanInv, SteadyInv, HomeInv, FlushInv
<1>2. UNCHANGED <<inDrive, media, writeOnly>> /\ pc["app"]' = pc["app"]
  BY <1>1 DEF TimerStep, timerFrame, TimerExpires, TimerFlushed, TimerLooks, TimerSeesNoChange,
     TimerSeesRemoval, TimerSeesDisk, TimerReinserted, TimerCancelled, TimerNotify,
     TimerIdentify, DiskGone, TypeOK
<1>3. CASE TimerIdentify \/ TimerNotify
  <2>1. /\ Unwritten' = Unwritten /\ UNCHANGED <<owed, home, phase, track, diskInDrive>>
        /\ toFlush = {} /\ Unwritten \subseteq toFlush
        /\ diskInDrive => inDrive \in {home, NoDisk}
        /\ pc["timer"] \in {"notify", "identify"}
        /\ TimerIdentify => diskInDrive
    BY <1>1, <1>3 DEF HomeOK, Promised, CleanInv, SteadyInv, HomeInv, LoopOK, TimerIdentify,
       TimerNotify, Unwritten
  <2>2. ASSUME NEW t \in Tracks, NEW s \in Sectors, owed[t][s] # Bad
        PROVE  trackCache'[t][s].errs = Good => trackCache'[t][s].data = owed[t][s]
    <3>1. CASE UNCHANGED trackCache
      BY <1>1, <2>2, <3>1 DEF LossOK, Same
    <3>2. CASE trackCache' = NoTracks
      BY <3>2 DEF NoTracks, NoTrack, NoSector, Good, Absent
    <3>3. CASE TimerIdentify /\ ~UNCHANGED trackCache
      <4>1. Least(Tracks) \in Tracks
        BY FirstTrackIn
      <4>2. inDrive = home /\ inDrive # NoDisk /\ \E w : Decode(Least(Tracks), w, "unknown")
        BY <2>1, <3>3 DEF TimerIdentify
      <4>3. QED
        BY <1>1, <2>2, <4>1, <4>2, LossPass
    <3>4. QED
      BY <1>3, <3>1, <3>2, <3>3 DEF TimerNotify
  <2>3. ASSUME NEW t \in Tracks, NEW s \in Sectors, owed'[t][s] # Bad
        PROVE  Kept(t, s)' /\ Same(t, s)' /\ Held(t, s)'
    <3>1. Kept(t, s) /\ Same(t, s) /\ Held(t, s)
      BY <1>1, <2>1, <2>3 DEF LossOK
    <3>2. ~Needed(t) /\ media[home][t][s] = owed[t][s]
      BY <2>1, <3>1 DEF Held, Kept
    <3>3. ~Needed(t)'
      BY <1>2, <2>1, <3>2 DEF Needed
    <3>4. QED
      BY <1>2, <2>1, <2>2, <2>3, <3>2, <3>3 DEF Kept, Same, Held
  <2>4. QED
    BY <2>3 DEF LossOK
<1>4. CASE DiskGone
  BY <1>4 DEF DiskGone, LossOK, NoneOwed
<1>5. CASE TimerSeesDisk
  <2>1. ASSUME NEW t \in Tracks, NEW s \in Sectors, owed'[t][s] # Bad
        PROVE  Kept(t, s)' /\ Same(t, s)' /\ Held(t, s)'
    <3>1. UNCHANGED <<owed, home, trackCache, phase, track>> /\ ~diskInDrive
          /\ Unwritten' = Unwritten
      BY <1>5, <2>1 DEF TimerSeesDisk, NoneOwed, Unwritten
    <3>2. Kept(t, s) /\ Same(t, s) /\ Held(t, s)
      BY <1>1, <2>1, <3>1 DEF LossOK
    <3>3. ~Needed(t)
      BY <3>1, <3>2 DEF Held
    <3>4. ~Needed(t)'
      BY <1>2, <3>1, <3>3 DEF Needed
    <3>5. QED
      BY <1>2, <3>1, <3>2, <3>4 DEF Kept, Same, Held
  <2>2. QED
    BY <2>1 DEF LossOK
<1>6. CASE TimerStep /\ ~(TimerIdentify \/ TimerNotify \/ TimerSeesDisk \/ DiskGone)
  <2>1. /\ UNCHANGED <<trackCache, owed, home, diskInDrive>> /\ Unwritten' = Unwritten
        /\ InTrack' => InTrack /\ UNCHANGED track
        /\ pc'["timer"] \notin {"notify", "identify"}
    BY <1>1, <1>6 DEF TypeOK, FlushHeld, AtFlush, TimerExpires, TimerFlushed, TimerLooks,
       TimerSeesNoChange, TimerSeesRemoval, TimerReinserted, TimerCancelled, TimerStep, Unwritten
  <2>2. \A t \in Tracks : Needed(t)' => Needed(t)
    BY <1>2, <2>1 DEF Needed
  <2>3. QED
    BY <1>1, <1>2, <2>1, <2>2, LossKept
<1>7. QED
  BY <1>3, <1>4, <1>5, <1>6

LEMMA LossApp ==
  ASSUME LossInv, AppStep
  PROVE  LossOK'
<1>  USE ThreadAssumption
     DEF cacheVars, loopVars, flushVars, Threads, Unlock, EnterFlush, FlushOver, Flushed,
         InLoop, InTrack
<1>1. TypeOK /\ HomeOK /\ FlushHeld /\ CleanInv /\ LossOK /\ DrainOK /\ SteadyInv
  BY DEF LossInv, CleanInv, SteadyInv, HomeInv, FlushInv
<1>2. UNCHANGED <<inDrive, media, home>> /\ pc["timer"]' = pc["timer"]
  BY <1>1 DEF AppStep, appFrame, AppFlush, AppLock, AppFlushed, AppShut, AppClean, AppCleaned, AppFormat,
     AppFormatFlush, AppFormatted, AppAbort, AppFormatAborted, AppCopyAborted, ResetCache,
     AppReset, AppForget, AppQuit, TypeOK
<1>3. CASE AppFormat
  BY <1>3 DEF AppFormat, LossOK, NoneOwed
<1>4. CASE AppCopyAborted \/ AppReset
  <2>1. phase = "idle" /\ ~InTrack' /\ Unwritten = toFlush
    BY <1>1, <1>4 DEF AppCopyAborted, AppReset, ResetCache, TypeOK, FlushHeld, AtFlush, Unwritten
  <2>2. /\ MaxSessions # 0
        /\ ~writeOnly' \/ pc'["app"] = "forget"
        /\ trackCache' = NoTracks
    BY <1>1, <1>4 DEF AppCopyAborted, AppReset, ResetCache, DrainOK, TypeOK
  <2>3. ASSUME NEW t \in Tracks, NEW s \in Sectors, owed'[t][s] # Bad
        PROVE  Kept(t, s)' /\ Same(t, s)' /\ Held(t, s)'
    <3>1. t \notin toFlush /\ owed'[t] = owed[t]
      BY <1>1, <1>4, <2>3 DEF AppCopyAborted, AppReset, OwedWithout, NoneOwed, DrainOK
    <3>2. media[home][t][s] = owed[t][s]
      BY <1>1, <2>1, <2>3, <3>1 DEF LossOK, Kept
    <3>3. trackCache'[t][s].errs # Good
      BY <2>2 DEF NoTracks, NoTrack, NoSector, Good, Absent
    <3>4. ~Needed(t)'
      BY <2>1, <2>2 DEF Needed
    <3>5. QED
      BY <1>2, <3>1, <3>2, <3>3, <3>4 DEF Kept, Same, Held
  <2>4. QED
    BY <2>3 DEF LossOK
<1>5. CASE AppStep /\ ~(AppFormat \/ AppCopyAborted \/ AppReset)
  <2>1. /\ UNCHANGED <<trackCache, owed>> /\ Unwritten' = Unwritten
        /\ InTrack' => InTrack /\ UNCHANGED track
    BY <1>1, <1>5 DEF TypeOK, FlushHeld, AtFlush, AppStep, AppFlush, AppLock, AppFlushed, AppShut, AppClean,
       AppCleaned, AppFormatFlush, AppFormatted, AppAbort, AppFormatAborted, AppForget,
       AppQuit, Unwritten
  <2>2. /\ writeOnly' /\ pc'["app"] # "forget" => writeOnly /\ pc["app"] # "forget"
        /\ UNCHANGED diskInDrive
           \/ (AppForget /\ ~writeOnly' /\ ~InTrack' /\ MaxSessions # 0)
    BY <1>1, <1>5, LoopFacts DEF DrainOK, TypeOK, AppStep, appFrame, AppFlush, AppLock, AppFlushed, AppShut,
       AppClean, AppCleaned, AppFormatFlush, AppFormatted, AppAbort, AppFormatAborted,
       AppForget, AppQuit
  <2>3. \A t \in Tracks : Needed(t)' => Needed(t) /\ UNCHANGED diskInDrive
    BY <1>2, <2>1, <2>2 DEF Needed
  <2>4. QED
    BY <1>1, <1>2, <2>1, <2>3, LossKept
<1>6. QED
  BY <1>3, <1>4, <1>5

LEMMA LossInvAlways ==
  ASSUME KeepingFaults
  PROVE  Spec => []LossInv
<1>1. ASSUME LossInv, [Next]_vars PROVE LossInv'
  <2>1. CleanInv'
    BY <1>1, CleanInvStep DEF LossInv, KeepingFaults
  <2>2. LossOK'
    <3>1. CASE DriveStep \/ UNCHANGED vars
      <4>1. /\ UNCHANGED <<trackCache, media, home, owed, pc, diskInDrive>>
            /\ Unwritten' = Unwritten /\ \A t : Needed(t)' = Needed(t)
        BY <3>1 DEF DriveStep, driveFrame, vars, Unwritten, InLoop, InTrack, Needed
      <4>2. QED
        BY <1>1, <4>1, LossKept DEF LossInv
    <3>2. CASE FlushStep
      BY <1>1, <3>2, LossFlush
    <3>3. CASE ClientRequest \/ ClientStep \/ TimerStep \/ AppStep
      BY <1>1, <3>3, LossClient, LossTimer, LossApp
    <3>4. QED
      BY <1>1, <3>1, <3>2, <3>3 DEF Next
  <2>3. QED
    BY <2>1, <2>2 DEF LossInv
<1>2. QED
  BY <1>1, LossInvInit, PTL DEF Spec

(* A write that was accepted is on the disk, or its sector is in the cache and *)
(* its track pending, until the user has heard of its loss: with writes that  *)
(* time out in any case, and with reads that fail or decode badly as long as  *)
(* no dialog empties the cache.                                              *)
THEOREM WritesKept ==
  ASSUME KeepingFaults
  PROVE  Spec => []NoWriteLost
<1>1. LossInv => NoWriteLost
  <2>1. LossInv => Unwritten \subseteq toFlush
    BY DEF LossInv, CleanInv, SteadyInv, HomeInv, LoopOK, Unwritten
  <2>2. QED
    BY <2>1 DEF LossInv, LossOK, Kept, NoWriteLost
<1>2. QED
  BY <1>1, LossInvAlways, PTL
-----------------------------------------------------------------------------
(***************************************************************************)
(* What a track write does to the sectors nobody wrote to.  If reads are     *)
(* sound, the track at hand is cached whole, what is about to be written is  *)
(* the cached track, and what it would put in place of a sound sector that   *)
(* nobody wrote to is that sector.                                          *)
(***************************************************************************)
NearFaults == Faults \subseteq {"stall", "motor"}

FullOK == InTrack => /\ buffer = Encoded(trackCache[track])
                     /\ \A s \in Sectors : trackCache[track][s].errs # Absent
NearOK ==
  \A t \in Tracks, s \in Sectors : trackCache[t][s].errs = Good =>
    \/ trackCache[t][s].data = media[home][t][s]
    \/ owed[t][s] # Bad /\ trackCache[t][s].data = owed[t][s]
    \/ blanked /\ trackCache[t][s].data = Blank
    \/ InTrack /\ t = track /\ (writeOnly \/ media[home][t][s] = Bad)
Verifying == phase \in {"verify", "unverified", "warnVerify"}
NearBuffer ==
  /\ InTrack /\ ~Verifying /\ ~writeOnly =>
       \A s \in Sectors :
         \/ buffer[s] = media[home][track][s] \/ media[home][track][s] = Bad
         \/ blanked
         \/ owed[track][s] # Bad /\ buffer[s] = owed[track][s]
  /\ Verifying => \A s \in Sectors : trackCache[track][s].data = media[home][track][s]
NearInv == SteadyInv /\ FullOK /\ NearOK /\ NearBuffer

LEMMA NearStays == NearFaults => Stays /\ WeakSets = {{}} /\ "unread" \notin Faults
  BY DEF NearFaults, Stays, WeakSets

LEMMA NearInvInit == Init => NearInv
<1>  SUFFICES ASSUME Init PROVE NearInv
  OBVIOUS
<1>1. SteadyInv
  BY SteadyInvInit
<1>2. \A t \in Tracks, s \in Sectors : trackCache[t][s].errs # Good
  BY DEF Init, NoTracks, NoTrack, NoSector, Good, Absent
<1>3. QED
  BY <1>1, <1>2 DEF Init, NearInv, FullOK, NearOK, NearBuffer, Verifying, InTrack

LEMMA NearTrack ==
  ASSUME NearFaults, NearInv, FlushTrack, FlushStep
  PROVE  FullOK' /\ NearOK' /\ NearBuffer'
<1>1. TypeOK /\ TypeOK' /\ SteadyInv /\ NearOK
  BY TypeFlush DEF NearInv, SteadyInv, HomeInv, FlushInv
<1>2. /\ NextTrack \in Tracks /\ inDrive = home /\ inDrive # NoDisk /\ diskType = "known"
      /\ UNCHANGED <<media, owed, home, blanked, writeOnly>>
      /\ ~InTrack /\ InTrack' /\ ~Verifying' /\ track' = NextTrack
  BY <1>1, LeastIn, TracksAssumption, LoopFacts
     DEF FlushTrack, NextTrack, TypeOK, FlushStep, flushFrame, InTrack, Verifying
<1>3. diskType' = "known"
  BY <1>1, <1>2, FlushCache DEF FlushTrack, InTrack
<1>4. buffer' = Encoded(trackCache'[NextTrack])
  BY <1>3 DEF FlushTrack
<1>  DEFINE old(s) == trackCache[NextTrack][s]
            new(s) == trackCache'[NextTrack][s]
<1>5. \A s \in Sectors : old(s).errs \in {Good, Weak, Absent} /\ new(s).errs \in {Good, Weak, Absent}
  BY <1>1, <1>2 DEF TypeOK, Entry
<1>6. /\ \A u \in Tracks \ {NextTrack} : trackCache'[u] = trackCache[u]
      /\ \A s \in Sectors :
           /\ new(s).errs # Absent
           /\ old(s).errs = Good => new(s) = old(s)
           /\ \/ writeOnly
              \/ new(s).errs = Weak => media[home][NextTrack][s] = Bad
           /\ \/ writeOnly
              \/ new(s) = old(s)
              \/ new(s).errs = Good => new(s).data = media[home][NextTrack][s]
  <2>1. CASE UNCHANGED trackCache /\ \A s \in Sectors : old(s).errs = Good
    BY <2>1 DEF Good, Weak, Absent
  <2>2. CASE writeOnly /\ trackCache' = [trackCache EXCEPT ![NextTrack] = BlanksAdded(NextTrack)]
    <3>1. /\ \A u \in Tracks \ {NextTrack} : trackCache'[u] = trackCache[u]
          /\ trackCache'[NextTrack] = BlanksAdded(NextTrack)
      BY <1>1, <1>2, <2>2 DEF TypeOK
    <3>2. QED
      BY <2>2, <3>1 DEF BlanksAdded, Good, Weak, Absent
  <2>3. CASE Decode(NextTrack, {}, diskType)
    <3>1. /\ \A u \in Tracks \ {NextTrack} : trackCache'[u] = trackCache[u]
          /\ trackCache'[NextTrack] = Merge(trackCache[NextTrack], Scan(inDrive, NextTrack, {}))
      BY <1>1, <1>2, <2>3, DecodeEffect
    <3>2. \A s \in Sectors : MergedAs(new(s), old(s), media[home][NextTrack][s], FALSE)
      <4>1. \A s \in Sectors : MergedAs(new(s), old(s), media[home][NextTrack][s], s \in {})
        BY <1>1, <1>2, <3>1, MergedSector
      <4>2. QED
        BY <4>1 DEF MergedAs
    <3>3. QED
      BY <1>5, <3>1, <3>2 DEF MergedAs, Good, Weak, Absent
  <2>4. QED
    BY <1>2, <2>1, <2>2, <2>3, NearStays DEF FlushTrack, FillTrack, TrackRead, TrackUnread
<1>7. FullOK'
  BY <1>2, <1>4, <1>6 DEF FullOK
<1>8. NearOK'
  BY <1>1, <1>2, <1>6 DEF NearOK
<1>9. ASSUME ~writeOnly, NEW s \in Sectors
      PROVE  \/ buffer'[s] = media[home][NextTrack][s] \/ media[home][NextTrack][s] = Bad
             \/ blanked
             \/ owed[NextTrack][s] # Bad /\ buffer'[s] = owed[NextTrack][s]
  <2>1. buffer'[s] = new(s).data
    BY <1>4, <1>6 DEF Encoded
  <2>2. CASE new(s).errs = Weak
    BY <1>6, <1>9, <2>2
  <2>3. CASE new(s).errs = Good
    BY <1>1, <1>2, <1>6, <1>9, <2>1, <2>3 DEF NearOK
  <2>4. QED
    BY <1>5, <1>6, <2>2, <2>3
<1>10. NearBuffer'
  BY <1>2, <1>9 DEF NearBuffer
<1>11. QED
  BY <1>7, <1>8, <1>10

(* The verify finds on the disk what was written, as the cache has it.       *)
LEMMA NearVerify ==
  ASSUME NearFaults, NearInv, FlushVerify, FlushStep
  PROVE  FullOK' /\ NearOK' /\ NearBuffer'
<1>1. TypeOK /\ SteadyInv /\ NearOK
  BY DEF NearInv, SteadyInv, HomeInv, FlushInv
<1>2. /\ track \in Tracks /\ inDrive = home /\ inDrive # NoDisk /\ diskType = "known"
      /\ UNCHANGED <<media, owed, home, blanked, writeOnly>>
      /\ InTrack /\ Verifying
  BY <1>1, LoopFacts
     DEF FlushVerify, TypeOK, FlushStep, flushFrame, InTrack, Verifying
<1>3. /\ Decode(track, {}, diskType)
      /\ VerifyPasses(trackCache[track], trackCache'[track]) => phase' = "next"
  BY NearStays DEF FlushVerify
<1>4. /\ \A u \in Tracks \ {track} : trackCache'[u] = trackCache[u]
      /\ trackCache'[track] = Merge(trackCache[track], Scan(inDrive, track, {}))
  BY <1>1, <1>2, <1>3, DecodeEffect
<1>5. ASSUME NEW s \in Sectors
      PROVE  /\ trackCache'[track][s].errs = Good
             /\ trackCache'[track][s].data = trackCache[track][s].data
             /\ trackCache'[track][s].data = media[home][track][s]
  <2>1. MergedAs(trackCache'[track][s], trackCache[track][s], media[home][track][s], s \in {})
    BY <1>1, <1>2, <1>4, MergedSector
  <2>2. trackCache[track][s].data = media[home][track][s] /\ trackCache[track][s].errs # Absent
    BY <1>2 DEF NearInv, NearBuffer, FullOK
  <2>3. trackCache[track][s].data # Bad /\ trackCache[track][s].errs \in {Good, Weak, Absent}
    BY <1>1, <1>2, DataAssumption DEF TypeOK, Entry, Data
  <2>4. QED
    BY <2>1, <2>2, <2>3 DEF MergedAs, Good, Weak, Absent
<1>6. phase' = "next"
  BY <1>3, <1>5 DEF VerifyPasses
<1>7. NearOK'
  BY <1>1, <1>2, <1>4, <1>5 DEF NearOK
<1>8. QED
  BY <1>6, <1>7 DEF FullOK, NearBuffer, InTrack, Verifying

(* The write puts the cached track on the disk.                              *)
LEMMA NearWrite ==
  ASSUME NearFaults, NearInv, FlushWrite, FlushStep
  PROVE  /\ FullOK' /\ NearOK' /\ NearBuffer'
         /\ \A d \in Disks, t \in Tracks, s \in Sectors :
              media'[d][t][s] # media[d][t][s] =>
                media'[d][t][s] = buffer[s] /\ d = home /\ t = track
<1>1. TypeOK /\ SteadyInv /\ NearOK
  BY DEF NearInv, SteadyInv, HomeInv, FlushInv
<1>2. /\ track \in Tracks /\ inDrive = home /\ inDrive # NoDisk
      /\ UNCHANGED <<trackCache, track, buffer, owed, home, blanked, writeOnly>>
      /\ InTrack /\ InTrack' /\ ~Verifying /\ Verifying'
  BY <1>1, LoopFacts
     DEF FlushWrite, TypeOK, FlushStep, flushFrame, InTrack, Verifying, cacheVars, loopVars
<1>3. buffer \in [Sectors -> Cell] /\ buffer # Nothing
  BY <1>1, <1>2 DEF TypeOK, SteadyInv, Steady
<1>4. media' = [media EXCEPT ![inDrive][track] = [s \in Sectors |-> buffer[s]]]
  BY <1>1, <1>3, FlushWriteEffect DEF NearFaults
<1>5. [s \in Sectors |-> buffer[s]] \in [Sectors -> Cell]
  BY <1>3
<1>6. /\ \A s \in Sectors : media'[home][track][s] = buffer[s]
      /\ \A d \in Disks, t \in Tracks :
           d # home \/ t # track => media'[d][t] = media[d][t]
  <2>1. /\ media'[home][track] = [s \in Sectors |-> buffer[s]]
        /\ \A d \in Disks, t \in Tracks :
             d # home \/ t # track => media'[d][t] = media[d][t]
    BY <1>1, <1>2, <1>4, <1>5, MediaEffect
  <2>2. QED
    BY <2>1
<1>7. \A s \in Sectors : buffer[s] = trackCache[track][s].data
  BY <1>2 DEF NearInv, FullOK, Encoded
<1>8. FullOK' /\ NearBuffer'
  BY <1>2, <1>6, <1>7 DEF NearInv, FullOK, NearBuffer
<1>9. NearOK'
  <2>  SUFFICES ASSUME NEW t \in Tracks, NEW s \in Sectors, trackCache[t][s].errs = Good
                PROVE  \/ trackCache[t][s].data = media'[home][t][s]
                       \/ owed[t][s] # Bad /\ trackCache[t][s].data = owed[t][s]
                       \/ blanked /\ trackCache[t][s].data = Blank
    BY <1>2 DEF NearOK
  <2>1. CASE t = track
    BY <1>6, <1>7, <2>1
  <2>2. CASE t # track
    <3>1. media'[home][t] = media[home][t]
      BY <1>1, <1>6, <2>2 DEF TypeOK
    <3>2. QED
      BY <1>1, <2>2, <3>1 DEF NearOK
  <2>3. QED
    BY <2>1, <2>2
<1>10. QED
  BY <1>6, <1>8, <1>9

LEMMA NearStall ==
  ASSUME NearFaults, NearInv, FlushStalls, FlushStep
  PROVE  FullOK' /\ NearOK' /\ NearBuffer'
<1>1. TypeOK /\ SteadyInv /\ NearOK
  BY DEF NearInv, SteadyInv, HomeInv, FlushInv
<1>2. /\ track \in Tracks /\ inDrive = home /\ inDrive # NoDisk
      /\ UNCHANGED <<trackCache, track, buffer, owed, home, blanked, writeOnly>>
      /\ InTrack /\ InTrack' /\ ~Verifying /\ ~Verifying'
  BY <1>1, LoopFacts
     DEF FlushStalls, TypeOK, FlushStep, flushFrame, InTrack, Verifying, cacheVars, loopVars
<1>3. CASE UNCHANGED media
  BY <1>1, <1>2, <1>3 DEF NearInv, FullOK, NearOK, NearBuffer
<1>4. CASE media' = [media EXCEPT ![inDrive][track] = NoneOwed]
  <2>1. NoneOwed \in [Sectors -> Cell]
    BY DEF NoneOwed, Cell
  <2>2. /\ \A s \in Sectors : media'[home][track][s] = Bad
        /\ \A t \in Tracks : t # track => media'[home][t] = media[home][t]
    BY <1>1, <1>2, <1>4, <2>1, MediaEffect DEF NoneOwed, TypeOK
  <2>3. QED
    BY <1>1, <1>2, <2>2 DEF NearInv, FullOK, NearOK, NearBuffer
<1>5. QED
  BY <1>3, <1>4 DEF FlushStalls

LEMMA NearFlush ==
  ASSUME NearFaults, NearInv, FlushStep
  PROVE  FullOK' /\ NearOK' /\ NearBuffer'
<1>1. TypeOK /\ SteadyInv /\ NearOK /\ LoopOK
  BY DEF NearInv, SteadyInv, HomeInv, FlushInv
<1>2. InTrack => inDrive # NoDisk
  BY <1>1, LoopFacts
<1>3. UNCHANGED <<home, blanked, writeOnly>>
  BY DEF FlushStep, flushFrame
<1>4. CASE StallGivenUp \/ VerifyGivenUp \/ WarnedCancel
  <2>1. Abandon /\ InTrack /\ ~InTrack' /\ ~Verifying' /\ UNCHANGED media
    BY <1>4 DEF StallGivenUp, VerifyGivenUp, WarnedCancel, Abandon, InTrack, Verifying
  <2>2. track \in toFlush \ written
    BY <1>1, <2>1 DEF LoopOK, InLoop
  <2>3. \A t \in Tracks : \/ trackCache'[t] = NoTrack
                          \/ /\ t # track
                             /\ trackCache'[t] = trackCache[t] /\ owed'[t] = owed[t]
    BY <2>1, <2>2 DEF Abandon, OwedWithout
  <2>4. NearOK'
    BY <1>1, <1>3, <2>1, <2>3 DEF NearOK, NoTrack, NoSector, Good, Absent
  <2>5. QED
    BY <2>1, <2>4 DEF FullOK, NearBuffer
<1>5. CASE FlushDone \/ FlushMotorFails
  <2>1. ~InTrack /\ ~InTrack' /\ ~Verifying' /\ UNCHANGED <<trackCache, media, owed>>
    BY <1>5 DEF FlushDone, FlushMotorFails, InTrack, Verifying
  <2>2. QED
    BY <1>1, <1>3, <2>1 DEF NearOK, FullOK, NearBuffer
<1>6. CASE \/ FlushNoDisk \/ StallAnswered \/ FlushUnverified \/ VerifyRetried
           \/ WarnedRetry
  <2>1. /\ InTrack /\ InTrack' /\ Verifying' = Verifying
        /\ UNCHANGED <<trackCache, media, owed, track, buffer>>
    BY <1>2, <1>6, NearStays
       DEF FlushNoDisk, StallAnswered, FlushUnverified, TrackUnread, VerifyRetried,
       WarnedRetry, InTrack, Verifying, cacheVars, loopVars
  <2>2. QED
    BY <1>1, <1>3, <2>1 DEF NearInv, NearOK, FullOK, NearBuffer
<1>7. QED
  BY <1>4, <1>5, <1>6, NearTrack, NearVerify, NearWrite, NearStall DEF FlushStep

LEMMA NearOthers ==
  ASSUME NearFaults, NearInv, DriveStep \/ ClientRequest \/ ClientStep \/ TimerStep \/ AppStep
  PROVE  FullOK' /\ NearOK' /\ NearBuffer'
<1>  USE ThreadAssumption
     DEF cacheVars, loopVars, flushVars, Threads, Unlock, EnterFlush, FlushOver, Flushed
<1>1. TypeOK /\ SteadyInv /\ NearOK /\ HomeOK /\ Steady
  BY DEF NearInv, SteadyInv, HomeInv, FlushInv
<1>2. UNCHANGED media
  BY DEF DriveStep, driveFrame, ClientRequest, ClientStep, clientFrame, TimerStep, timerFrame,
     AppStep, appFrame
<1>3. CASE InTrack
  BY <1>1, <1>2, <1>3, TrackAlone DEF NearInv, FullOK, NearOK, NearBuffer, Verifying
<1>4. CASE ~InTrack
  <2>1. ~InTrack' /\ ~Verifying'
    BY <1>1, <1>4, TrackAlone DEF InTrack, Verifying
  <2>2. NearOK'
    <3>1. CASE trackCache' = NoTracks
      BY <3>1 DEF NearOK, NoTracks, NoTrack, NoSector, Good, Absent
    <3>2. CASE UNCHANGED <<trackCache, home, owed, blanked>>
      BY <1>1, <1>2, <1>4, <3>2 DEF NearOK
    <3>3. CASE UNCHANGED <<home, owed, blanked>> /\ (ReadAttempt \/ TimerIdentify)
      <4>1. \A u \in Tracks, s \in Sectors :
              \/ trackCache'[u][s] = trackCache[u][s]
              \/ trackCache'[u][s].errs = Good => trackCache'[u][s].data = media[home][u][s]
        <5>1. req.track \in Tracks \/ ~ReadAttempt
          BY <1>1, RequestKinds DEF TypeOK, ReadAttempt
        <5>2. inDrive \in {home, NoDisk} /\ Least(Tracks) \in Tracks
          BY <1>1, <3>3, FirstTrackIn DEF HomeOK, ReadAttempt, TimerIdentify
        <5>3. QED
          BY <1>1, <3>3, <5>1, <5>2, PassOver
             DEF ReadAttempt, TimerIdentify, TrackRead, TrackUnread
      <4>2. QED
        BY <1>1, <1>2, <1>4, <3>3, <4>1 DEF NearOK
    <3>4. CASE WriteCommit /\ UNCHANGED <<home, blanked>>
      <4>1. /\ req.track \in Tracks /\ req.sector \in Sectors
            /\ trackCache \in [Tracks -> [Sectors -> Entry]]
            /\ [data |-> req.data, errs |-> Good] \in Entry
            /\ req.data # Bad /\ req.data \in Cell
        BY <1>1, <3>4, RequestKinds, DataAssumption
           DEF TypeOK, WriteCommit, Entry, Data, Cell
      <4>2. \A t \in Tracks, s \in Sectors :
              \/ trackCache'[t][s] = trackCache[t][s] /\ owed'[t][s] = owed[t][s]
              \/ /\ t = req.track /\ s = req.sector
                 /\ trackCache'[t][s].data = req.data /\ owed'[t][s] = req.data
        <5>1. \A t \in Tracks, s \in Sectors :
                IF t = req.track /\ s = req.sector THEN owed'[t][s] = req.data
                ELSE owed'[t][s] = owed[t][s]
          BY <1>1, <3>4, <4>1 DEF WriteCommit, TypeOK
        <5>2. CASE UNCHANGED trackCache
          BY <3>4, <4>1, <5>1, <5>2 DEF WriteCommit, TypeOK
        <5>3. CASE trackCache' = [trackCache EXCEPT ![req.track][req.sector] =
                                    [data |-> req.data, errs |-> Good]]
          BY <4>1, <5>1, <5>3, SectorCached
        <5>4. QED
          BY <3>4, <5>2, <5>3 DEF WriteCommit
      <4>3. QED
        BY <1>1, <1>2, <1>4, <3>4, <4>1, <4>2 DEF NearOK
    <3>5. CASE AppFormat
      BY <3>5, <3>1 DEF AppFormat, NearOK
    <3>6. CASE DriveStep \/ ClientRequest
      BY ZenonT(60), <3>2, <3>6 DEF DriveStep, driveFrame, ClientRequest, clientFrame, WriteRequest,
         ReadRequest
    <3>7. CASE ClientStep
      BY <3>2, <3>3, <3>4, <3>7 DEF ClientStep, clientFrame, WriteFlushed, ReadFlushed,
         ReadReturns, ReadMotorFails, ReadAttempt, ReadPrompted, ReadAborted, ReadEnds
    <3>8. CASE TimerStep
      <4>1. CASE TimerSeesDisk
        BY <1>1, <3>1, <4>1 DEF TimerSeesDisk, Steady
      <4>2. CASE ~TimerSeesDisk
        BY <3>1, <3>2, <3>3, <3>8, <4>2 DEF TimerStep, TimerExpires,
           TimerFlushed, TimerLooks, TimerSeesNoChange, TimerSeesRemoval,
           TimerReinserted, TimerCancelled, TimerNotify, TimerIdentify, DiskGone
      <4>3. QED
        BY <4>1, <4>2
    <3>9. CASE AppStep
      BY <3>1, <3>2, <3>5, <3>9 DEF AppStep, appFrame, AppFlush, AppLock, AppFlushed, AppShut, AppClean,
         AppCleaned, AppFormatFlush, AppFormatted, AppAbort, AppFormatAborted, AppCopyAborted,
         ResetCache, AppReset, AppForget, AppQuit
    <3>10. QED
      BY <3>6, <3>7, <3>8, <3>9
  <2>3. QED
    BY <2>1, <2>2 DEF FullOK, NearBuffer
<1>5. QED
  BY <1>3, <1>4

LEMMA NearInvAlways ==
  ASSUME NearFaults
  PROVE  Spec => []NearInv
<1>1. NearInv /\ [Next]_vars => NearInv'
  <2>  SUFFICES ASSUME NearInv, [Next]_vars PROVE NearInv'
    OBVIOUS
  <2>1. SteadyInv'
    BY NearStays, SteadyInvStep DEF NearInv
  <2>2. FullOK' /\ NearOK' /\ NearBuffer'
    <3>1. CASE FlushStep
      BY <3>1, NearFlush
    <3>2. CASE DriveStep \/ ClientRequest \/ ClientStep \/ TimerStep \/ AppStep
      BY <3>2, NearOthers
    <3>3. CASE UNCHANGED vars
      <4>1. FullOK /\ NearOK /\ NearBuffer
        BY DEF NearInv
      <4>2. InTrack' = InTrack /\ Verifying' = Verifying
        BY <3>3 DEF vars, InTrack, Verifying
      <4>3. QED
        BY <3>3, <4>1, <4>2 DEF vars, FullOK, NearOK, NearBuffer
    <3>4. QED
      BY <3>1, <3>2, <3>3 DEF Next
  <2>3. QED
    BY <2>1, <2>2 DEF NearInv
<1>2. QED
  BY <1>1, NearInvInit, PTL DEF Spec

(* A track write puts back what nobody wrote to, as long as every read is     *)
(* sound; a write that times out may lose the track.                        *)
THEOREM NeighboursUntouched ==
  ASSUME NearFaults
  PROVE  Spec => NeighboursKept
<1>  DEFINE Rule == \A d \in Disks, t \in Tracks, s \in Sectors :
                      media'[d][t][s] # media[d][t][s] =>
                        \/ media[d][t][s] = Bad
                        \/ media'[d][t][s] = owed[t][s] /\ owed[t][s] # Bad
                        \/ writeOnly \/ blanked \/ phase' = "stalled"
<1>1. ASSUME NearInv, FlushWrite, FlushStep PROVE Rule
  <2>1. InTrack /\ ~Verifying
    BY <1>1 DEF FlushWrite, InTrack, Verifying
  <2>2. \A s \in Sectors : ~writeOnly =>
          \/ buffer[s] = media[home][track][s] \/ media[home][track][s] = Bad
          \/ blanked
          \/ owed[track][s] # Bad /\ buffer[s] = owed[track][s]
    BY <1>1, <2>1 DEF NearInv, NearBuffer
  <2>3. QED
    BY <1>1, <2>2, NearWrite
<1>2. ASSUME FlushStalls PROVE Rule
  BY <1>2 DEF FlushStalls
<1>3. NearInv /\ [Next]_vars => [Rule]_vars
  <2>1. ASSUME NearInv, [Next]_vars, ~UNCHANGED media PROVE Rule
    <3>1. FlushStep /\ (FlushWrite \/ FlushStalls)
      BY <2>1, MediaChange DEF FlushStep
    <3>2. QED
      BY <2>1, <3>1, <1>1, <1>2
  <2>2. UNCHANGED media => Rule
    OBVIOUS
  <2>3. QED
    BY <2>1, <2>2
<1>4. QED
  BY <1>3, NearInvAlways, PTL DEF Spec, NeighboursKept

=============================================================================
