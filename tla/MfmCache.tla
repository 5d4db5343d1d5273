------------------------------ MODULE MfmCache ------------------------------
(***************************************************************************)
(* SectorCacheMFM (mfminterface.cpp) on a real floppy drive                 *)
(* (SectorRW_FloppyBridge): a write-back cache of whole tracks.             *)
(*                                                                         *)
(* Three threads share it.  "client" is whoever calls readData/writeData:   *)
(* a Dokan file system thread, or a dialog's worker during a session.       *)
(* m_multithreadLock lets one such call in at a time, so one thread stands  *)
(* for all of them.  "timer" is the timer-queue callback motorMonitor.      *)
(* "app" is a dialog (format, copy, clean): it locks out Dokan, flushes,    *)
(* resets, and ends by asking for the disk to be detected anew.             *)
(* m_motorTimerProtect (lock) is held across a whole read, write, flush or  *)
(* timer pass; those take several steps here because the user can remove    *)
(* or insert a disk and answer message boxes meanwhile.                     *)
(*                                                                         *)
(* File system 1 (the PC half of a dual-format disk) is left out: such a    *)
(* disk is never written, and its cache is filled exactly like number 0.    *)
(***************************************************************************)
EXTENDS Integers, FiniteSets

CONSTANTS Tracks,        \* track numbers
          Sectors,       \* sector numbers within a track
          Disks,         \* the disks at hand; each comes filled with its own data
          Payload,       \* what clients write
          Blank,         \* sector contents nobody wrote (zeroes, rubbish)
          Bad,           \* a sector of the medium that does not decode
          NoDisk,        \* the drive is empty
          NoThread,      \* the lock is free
          ForceFlushAt,  \* FORCE_FLUSH_AT_TRACKS
          MaxRetries,    \* MAX_RETRIES
          Faults,        \* what may go wrong, a subset of AllFaults
          MaxRequests,   \* bound: client requests
          MaxRemovals,   \* bound: disk removals
          MaxSessions    \* bound: dialog sessions

(***************************************************************************)
(* weak     a sound sector reads with errors       unread   a track read    *)
(* stall    a write times out                               times out       *)
(* corrupt  a write completes but leaves bad sectors                        *)
(* motor    the motor does not spin up                                      *)
(* yank     the disk is taken out while writes are pending, or a write comes *)
(*          before the timer has seen that it is out                          *)
(* swap     another disk is put in while the timer waits for the lock       *)
(* window   a write slips between the unlocked steps of another thread, or  *)
(*          another thread between the write's checks and its lock          *)
(***************************************************************************)
AllFaults == {"weak", "unread", "stall", "corrupt", "motor", "yank", "swap",
              "window"}

ASSUME TracksAssumption == Tracks \subseteq Nat /\ Tracks # {} /\ IsFiniteSet(Tracks)
ASSUME SectorsAssumption == Sectors # {}
ASSUME DisksAssumption == Disks # {} /\ NoDisk \notin Disks
ASSUME DataAssumption ==
  /\ Disks \cap (Payload \cup {Blank, Bad}) = {}
  /\ Payload \cap {Blank, Bad} = {}
  /\ Blank # Bad
ASSUME ThreadAssumption == NoThread \notin {"client", "timer", "app"}
ASSUME BoundsAssumption ==
  /\ ForceFlushAt \in Nat \ {0}
  /\ MaxRetries \in Nat \ {0}
  /\ Faults \subseteq AllFaults
  /\ MaxRequests \in Nat
  /\ MaxRemovals \in Nat
  /\ MaxSessions \in Nat

VARIABLES
  \* the drive
  inDrive,       \* the disk in the drive, or NoDisk
  media,         \* what each disk holds
  \* SectorCacheMFM
  trackCache,    \* m_trackCache[0]
  toFlush,       \* tracks in m_tracksToFlush
  diskType,      \* m_diskType: "unknown" or "known"
  diskInDrive,   \* m_diskInDrive, what the timer last saw
  motorOn,       \* m_motorTurnOnTime # 0
  ignoreErrors, alwaysIgnore, blockWriting, writeOnly,
  \* the flush in progress (it runs under the lock, so there is one)
  phase,         \* where flushPendingWrites is, "idle" when not running
  todo,          \* tracks its loop has still to visit
  written,       \* tracks whose hit count it has set to 0
  track,         \* the track it is at
  buffer,        \* m_mfmBuffer, while it is what mfmWrite gets
  \* threads
  lock,          \* holder of m_motorTimerProtect
  pc,            \* where each thread is
  req,           \* the client's request
  retries,       \* readDataAllFS's retry counter
  mounted,       \* a file system is mounted, so that requests come
  \* history and bounds
  home,          \* the disk the timer last saw
  owed,          \* writes accepted and not given up before the user's eyes
  blanked,       \* createBlankSectors filled the cache
  requests, removals, sessions

vars == <<inDrive, media, trackCache, toFlush, diskType, diskInDrive, motorOn,
          ignoreErrors, alwaysIgnore, blockWriting, writeOnly, phase, todo,
          written, track, buffer, lock, pc, req, retries, mounted, home, owed,
          blanked, requests, removals, sessions>>

\* What the steps of each kind never touch.
driveFrame == <<media, trackCache, toFlush, diskType, diskInDrive, motorOn,
                ignoreErrors, alwaysIgnore, blockWriting, writeOnly, phase, todo,
                written, track, buffer, lock, pc, req, retries, mounted, home,
                owed, blanked, requests, sessions>>
flushFrame == <<inDrive, diskInDrive, ignoreErrors, writeOnly, lock, pc, req,
                retries, mounted, home, blanked, requests, removals, sessions>>
clientFrame == <<inDrive, media, diskInDrive, blockWriting, writeOnly, mounted,
                 home, blanked, removals, sessions>>
timerFrame == <<inDrive, media, writeOnly, req, retries, requests, removals,
                sessions>>
appFrame == <<inDrive, media, motorOn, ignoreErrors, alwaysIgnore, blockWriting,
              req, retries, home, requests, removals>>
loopVars == <<todo, written, track, buffer>>
flushVars == <<phase, loopVars>>
cacheVars == <<trackCache, toFlush, diskType>>
-----------------------------------------------------------------------------
Threads == {"client", "timer", "app"}
Data == Disks \cup Payload \cup {Blank}
Cell == Data \cup {Bad}

\* DecodedSector: numErrors is zero (Good) or not (Weak); Absent stands for a
\* sector the track's map does not hold.
Good == 0
Weak == 1
Absent == 2
Entry == [data : Data, errs : {Good, Weak, Absent}]
NoSector == [data |-> Blank, errs |-> Absent]
NoTrack == [s \in Sectors |-> NoSector]
NoTracks == [t \in Tracks |-> NoTrack]

Least(S) == CHOOSE t \in S : \A u \in S : t <= u

Requests == [op : {"none"}] \cup [op : {"read"}, track : Tracks, sector : Sectors]
              \cup [op : {"write"}, track : Tracks, sector : Sectors, data : Payload]
NoRequest == [op |-> "none"]
-----------------------------------------------------------------------------
(***************************************************************************)
(* The medium as mfmRead, findSectors and mfmWrite show it.                 *)
(***************************************************************************)
\* What one pass over track t of disk d decodes, the sectors of w with errors.
Scan(d, t, w) ==
  [s \in Sectors |-> IF media[d][t][s] = Bad \/ s \in w
                     THEN [data |-> Blank, errs |-> Weak]
                     ELSE [data |-> media[d][t][s], errs |-> Good]]

\* findSectors keeps, of two copies of a sector, the one with fewer errors.
Better(old, new) == IF new.errs < old.errs THEN new ELSE old
Merge(old, new) == [s \in Sectors |-> Better(old[s], new[s])]

WeakSets == IF "weak" \in Faults THEN SUBSET Sectors ELSE {{}}

\* doTrackReading returns true: the track is merged into the cache, once the
\* type of disk is known or this very track shows it.
Decode(t, w, type) ==
  LET scan == Scan(inDrive, t, w)
      known == type = "known" \/ \E s \in Sectors : scan[s].errs = Good
  IN /\ diskType' = IF known THEN "known" ELSE "unknown"
     /\ trackCache' = IF known THEN [trackCache EXCEPT ![t] = Merge(@, scan)]
                      ELSE trackCache

TrackRead(t) == inDrive # NoDisk /\ \E w \in WeakSets : Decode(t, w, diskType)

\* ... returns false: nothing came within TRACK_READ_TIMEOUT.
TrackUnread ==
  /\ inDrive = NoDisk \/ "unread" \in Faults
  /\ UNCHANGED <<diskType, trackCache>>

\* The sectors that writing the track c makes: the medium is rewritten whole,
\* and a sector c lacks is not on it any more.
Encoded(c) == [s \in Sectors |-> IF c[s].errs = Absent THEN Bad ELSE c[s].data]
Nothing == <<>>   \* an unknown disk type encodes to no bytes

\* What m_mfmBuffer holds once disk d's track t was read into it.
RawRead(d, t, w) == [s \in Sectors |-> IF s \in w THEN Bad ELSE media[d][t][s]]
-----------------------------------------------------------------------------
(***************************************************************************)
(* The user and the drive.                                                  *)
(***************************************************************************)
RemoveDisk ==
  /\ inDrive # NoDisk
  /\ removals < MaxRemovals
  /\ (toFlush = {} /\ pc["client"] # "write") \/ "yank" \in Faults
  /\ removals' = removals + 1
  /\ inDrive' = NoDisk

\* Any disk may follow once the timer has noticed that the drive is empty and
\* told so; before that a different disk goes unnoticed.
InsertDisk(d) ==
  /\ inDrive = NoDisk
  /\ \/ d = home
     \/ ~diskInDrive /\ pc["timer"] = "idle"
     \/ "swap" \in Faults /\ lock # NoThread
  /\ inDrive' = d
  /\ UNCHANGED removals

DriveStep ==
  /\ RemoveDisk \/ \E d \in Disks : InsertDisk(d)
  /\ UNCHANGED driveFrame
-----------------------------------------------------------------------------
(***************************************************************************)
(* flushPendingWrites.  EnterFlush is its entry, FlushStep its loop; it ends *)
(* in phase "ok" or "failed", and the caller goes on from there.             *)
(***************************************************************************)
EnterFlush(th, back, pending) ==
  /\ lock' = th
  /\ pc' = [pc EXCEPT ![th] = back]
  /\ IF blockWriting
     THEN phase' = "failed" /\ todo' = {}
     ELSE phase' = "next" /\ todo' = pending
  /\ UNCHANGED <<written, track, buffer>>

Flushed == phase \in {"ok", "failed"}
\* It returns: its locals are gone.
FlushOver ==
  /\ phase' = "idle"
  /\ todo' = {} /\ written' = {} /\ buffer' = Nothing
  /\ track' = Least(Tracks)
\* A mutant: the motor's idle time is not started anew.
MotorLeftAlone == UNCHANGED motorOn
\* motorInUse: the timer will flush MOTOR_IDLE_TIMEOUT from now.
MotorInUse == motorOn' = TRUE

Unlock(th, to) == lock' = NoThread /\ pc' = [pc EXCEPT ![th] = to]

\* The writes owed when those of the tracks in T no longer are.
NoneOwed == [s \in Sectors |-> Bad]
OwedWithout(T) == [t \in Tracks |-> IF t \in T THEN NoneOwed ELSE owed[t]]

\* A mutant: the tracks that failed keep their cached sectors.
AbandonKeepsCache ==
  /\ toFlush' = {}
  /\ phase' = "failed"
  /\ owed' = OwedWithout(toFlush \ written)
  /\ UNCHANGED <<trackCache, diskType, loopVars>>
\* A mutant: the loop goes on with the next track, as after a mere `break'.
AbandonGoesOn ==
  /\ trackCache' = [t \in Tracks |-> IF t \in toFlush \ written THEN NoTrack
                                     ELSE trackCache[t]]
  /\ toFlush' = {}
  /\ phase' = "next" /\ todo' = todo \ {track}
  /\ owed' = OwedWithout(toFlush \ written)
  /\ UNCHANGED <<diskType, written, track, buffer>>
\* removeFailedWritesFromCache, and return false.  The user has seen a box.
Abandon ==
  /\ trackCache' = [t \in Tracks |-> IF t \in toFlush \ written THEN NoTrack
                                     ELSE trackCache[t]]
  /\ toFlush' = {}
  /\ phase' = "failed"
  /\ owed' = OwedWithout(toFlush \ written)
  /\ UNCHANGED <<diskType, loopVars>>

\* The loop is done: nothing is left with hits, so only the map is emptied.
FlushDone ==
  /\ phase = "next" /\ todo = {}
  /\ toFlush' = {}
  /\ phase' = "ok"
  /\ UNCHANGED <<media, trackCache, diskType, motorOn, alwaysIgnore, blockWriting,
                 loopVars, owed>>

\* In write-only mode missing sectors are made up instead of read.
BlanksAdded(t) ==
  [s \in Sectors |-> IF trackCache[t][s].errs = Absent
                     THEN [data |-> Blank, errs |-> Good] ELSE trackCache[t][s]]

\* A mutant: a track is written without first reading what the cache lacks.
FillNothing(t) == UNCHANGED <<trackCache, diskType>>
\* Complete the cached track before it is written, if the read succeeds.
FillTrack(t) ==
  IF \A s \in Sectors : trackCache[t][s].errs = Good
  THEN UNCHANGED <<trackCache, diskType>>
  ELSE IF writeOnly
       THEN trackCache' = [trackCache EXCEPT ![t] = BlanksAdded(t)] /\ UNCHANGED diskType
       ELSE TrackRead(t) \/ TrackUnread

\* A mutant: the track is not taken from the map's key.
FirstTrack == Least(Tracks)
NextTrack == Least(todo)

FlushTrack ==
  /\ phase = "next" /\ todo # {}
  /\ track' = NextTrack
  /\ FillTrack(NextTrack)
  /\ buffer' = IF diskType' = "known" THEN Encoded(trackCache'[NextTrack]) ELSE Nothing
  /\ MotorInUse
  /\ phase' = "write"
  /\ UNCHANGED <<media, toFlush, alwaysIgnore, blockWriting, todo, written, owed>>

\* The motor never gets ready: the pending set is dropped, the cache is kept.
FlushMotorFails ==
  /\ "motor" \in Faults
  /\ phase = "next" /\ todo # {}
  /\ MotorInUse
  /\ toFlush' = {}
  /\ phase' = "failed"
  /\ UNCHANGED <<media, trackCache, diskType, alwaysIgnore, blockWriting, loopVars,
                 owed>>

FlushNoDisk ==
  /\ phase = "write" /\ inDrive = NoDisk
  /\ MotorInUse
  /\ phase' = "warnWrite"
  /\ UNCHANGED <<media, cacheVars, alwaysIgnore, blockWriting, loopVars, owed>>

\* mfmWrite completes; with "corrupt" some sectors are left undecodable.
FlushWrite ==
  /\ phase = "write" /\ inDrive # NoDisk
  /\ IF buffer = Nothing
     THEN UNCHANGED media
     ELSE \E c \in IF "corrupt" \in Faults THEN SUBSET Sectors ELSE {{}} :
            media' = [media EXCEPT ![inDrive][track] =
                        [s \in Sectors |-> IF s \in c THEN Bad ELSE buffer[s]]]
  /\ MotorInUse
  /\ phase' = "verify"
  /\ UNCHANGED <<cacheVars, alwaysIgnore, blockWriting, loopVars, owed>>

\* writeCompleted does not come: the track on the medium is as it was, or lost.
FlushStalls ==
  /\ "stall" \in Faults
  /\ phase = "write" /\ inDrive # NoDisk
  /\ \/ UNCHANGED media
     \/ media' = [media EXCEPT ![inDrive][track] = NoneOwed]
  /\ motorOn' = FALSE
  /\ phase' = "stalled"
  /\ UNCHANGED <<cacheVars, alwaysIgnore, blockWriting, loopVars, owed>>

\* With the disk gone diskRemovedWarning asks; otherwise the timeout box does,
\* and Retry, ...
StallAnswered ==
  /\ phase = "stalled"
  /\ phase' = IF inDrive = NoDisk THEN "warnStall" ELSE "write"
  /\ UNCHANGED <<media, cacheVars, motorOn, alwaysIgnore, blockWriting, loopVars, owed>>

\* ... Abort (which blocks further writing) and Cancel are the answers.
StallGivenUp ==
  /\ phase = "stalled" /\ inDrive # NoDisk
  /\ Abandon
  /\ blockWriting' \in {blockWriting, TRUE}
  /\ UNCHANGED <<media, motorOn, alwaysIgnore>>

\* The read back merges into the very sectors just written, which have no
\* errors, so `fewer errors' never replaces one: the comparison that follows
\* sees a difference only where the cached copy had errors itself.
VerifyPasses(before, after) ==
  \A s \in Sectors : before[s].errs # Absent => /\ after[s].errs = Good
                                                /\ after[s].data = before[s].data

\* When it fails, what is written next is what was just read: the buffer was
\* reused.
FlushVerify ==
  /\ phase = "verify" /\ inDrive # NoDisk
  /\ \E w \in WeakSets :
       /\ Decode(track, w, diskType)
       /\ IF VerifyPasses(trackCache[track], trackCache'[track])
          THEN /\ written' = written \cup {track}
               /\ todo' = todo \ {track}
               /\ phase' = "next"
               /\ UNCHANGED buffer
          ELSE /\ phase' = "write"
               /\ buffer' = IF buffer = Nothing THEN Nothing
                            ELSE RawRead(inDrive, track, w)
               /\ UNCHANGED <<written, todo>>
  /\ MotorInUse
  /\ UNCHANGED <<media, toFlush, alwaysIgnore, blockWriting, track, owed>>

FlushUnverified ==
  /\ phase = "verify"
  /\ TrackUnread
  /\ motorOn' = FALSE
  /\ phase' = IF inDrive = NoDisk THEN "warnVerify" ELSE "unverified"
  /\ UNCHANGED <<media, toFlush, alwaysIgnore, blockWriting, loopVars, owed>>

VerifyRetried ==
  /\ phase = "unverified" /\ ~alwaysIgnore
  /\ phase' = "verify"
  /\ UNCHANGED <<media, cacheVars, motorOn, alwaysIgnore, blockWriting, loopVars, owed>>

\* Ignore and Abort; Always Ignore as well, now or earlier.
VerifyGivenUp ==
  /\ phase = "unverified"
  /\ Abandon
  /\ alwaysIgnore' \in {alwaysIgnore, TRUE}
  /\ UNCHANGED <<media, motorOn, blockWriting>>

\* diskRemovedWarning: true as soon as a disk is in the drive, any disk.
WarnedRetry ==
  /\ inDrive # NoDisk
  /\ \/ phase \in {"warnWrite", "warnStall"} /\ phase' = "write"
     \/ phase = "warnVerify" /\ phase' = "verify"
  /\ UNCHANGED <<media, cacheVars, motorOn, alwaysIgnore, blockWriting, loopVars, owed>>

\* Cancel; after a stalled write it also blocks further writing.
WarnedCancel ==
  /\ phase \in {"warnWrite", "warnStall", "warnVerify"}
  /\ inDrive = NoDisk
  /\ Abandon
  /\ blockWriting' = (blockWriting \/ phase = "warnStall")
  /\ UNCHANGED <<media, motorOn, alwaysIgnore>>

FlushStep ==
  /\ \/ FlushDone \/ FlushTrack \/ FlushMotorFails
     \/ FlushNoDisk \/ FlushWrite \/ FlushStalls
     \/ StallAnswered \/ StallGivenUp
     \/ FlushVerify \/ FlushUnverified \/ VerifyRetried \/ VerifyGivenUp
     \/ WarnedRetry \/ WarnedCancel
  /\ UNCHANGED flushFrame
-----------------------------------------------------------------------------
(***************************************************************************)
(* The client: readData and writeData.  Requests come from Dokan while a    *)
(* file system is mounted and no session goes on, and from the session's    *)
(* own worker; both make sure that there is a disk as far as the timer knows *)
(* (isDiskPresent).                                                         *)
(***************************************************************************)
\* isDriveLocked says so only once setLocked has raised the flag.
DokanOpen == mounted /\ pc["app"] \in {"idle", "locking", "flushed"}
\* The timer is not between steps of its own that another thread can split.
Settled == pc["timer"] \notin {"notify", "identify"} \/ "window" \in Faults
\* Nobody takes the lock between a write's checks and the write's own lock, nor
\* between the two steps of triggerNewDiskMount.
Calm == (pc["client"] # "write" /\ pc["app"] # "forget") \/ "window" \in Faults

\* internalWriteData up to the lock: the checks.  (A refusal changes nothing.)
WriteRequest(t, s, d) ==
  /\ pc["client"] = "idle" /\ requests < MaxRequests
  /\ DokanOpen \/ pc["app"] = "format"
  /\ diskInDrive /\ Settled
  /\ lock = NoThread \/ "window" \in Faults
  /\ inDrive # NoDisk \/ "yank" \in Faults
  /\ ~blockWriting /\ diskType = "known"
  /\ pc' = [pc EXCEPT !["client"] = "write"]
  /\ req' = [op |-> "write", track |-> t, sector |-> s, data |-> d]
  /\ requests' = requests + 1
  /\ UNCHANGED <<cacheVars, motorOn, ignoreErrors, alwaysIgnore, flushVars, lock,
                 retries, owed>>

\* A mutant: only a track new to the cache is counted.
PendingIfNew(t) == IF trackCache[t] = NoTrack THEN toFlush \cup {t} ELSE toFlush
Pending(t) == toFlush \cup {t}

\* The rest of it, under the lock.  What the cache holds already is not written.
WriteCommit ==
  /\ pc["client"] = "write" /\ lock = NoThread
  /\ LET cell == [data |-> req.data, errs |-> Good]
         pending == Pending(req.track)
     IN IF trackCache[req.track][req.sector] = cell
        THEN /\ Unlock("client", "idle")
             /\ UNCHANGED <<cacheVars, motorOn, flushVars>>
        ELSE /\ trackCache' = [trackCache EXCEPT ![req.track][req.sector] = cell]
             /\ toFlush' = pending
             /\ MotorInUse
             /\ IF Cardinality(pending) < ForceFlushAt
                THEN Unlock("client", "idle") /\ UNCHANGED flushVars
                ELSE EnterFlush("client", "writeFlush", pending)
             /\ UNCHANGED diskType
  /\ owed' = [owed EXCEPT ![req.track][req.sector] = req.data]
  /\ req' = NoRequest
  /\ UNCHANGED <<ignoreErrors, alwaysIgnore, retries, requests>>

\* writeData reports success whatever became of the flush.
WriteFlushed ==
  /\ pc["client"] = "writeFlush" /\ Flushed
  /\ Unlock("client", "idle")
  /\ FlushOver
  /\ UNCHANGED <<cacheVars, motorOn, ignoreErrors, alwaysIgnore, req, retries, owed,
                 requests>>

\* readDataAllFS up to its loop, for the request r.
ReadBegins(r) ==
  IF inDrive = NoDisk
  THEN Unlock("client", "idle") /\ req' = NoRequest
  ELSE /\ lock' = "client"
       /\ pc' = [pc EXCEPT !["client"] = "read"]
       /\ req' = r

ReadRequest(t, s) ==
  /\ pc["client"] = "idle" /\ requests < MaxRequests
  /\ DokanOpen \/ pc["app"] \in {"session", "format"}
  /\ diskInDrive /\ Settled
  /\ lock = NoThread
  /\ requests' = requests + 1
  /\ LET r == [op |-> "read", track |-> t, sector |-> s]
     IN IF Cardinality(toFlush) < ForceFlushAt
        THEN ReadBegins(r) /\ UNCHANGED flushVars
        ELSE req' = r /\ EnterFlush("client", "readFlush", toFlush)
  /\ UNCHANGED <<cacheVars, motorOn, ignoreErrors, alwaysIgnore, retries, owed>>

ReadFlushed ==
  /\ pc["client"] = "readFlush" /\ Flushed
  /\ ReadBegins(req)
  /\ FlushOver
  /\ UNCHANGED <<cacheVars, motorOn, ignoreErrors, alwaysIgnore, retries, owed,
                 requests>>

\* readDataAllFS returns, with the sector or without.
ReadEnds ==
  /\ Unlock("client", "idle")
  /\ req' = NoRequest
  /\ retries' = 0
  /\ UNCHANGED <<cacheVars, flushVars, owed, requests>>

\* A mutant: one attempt too many.
ExhaustedLate == retries > MaxRetries + 1
Exhausted == retries > MaxRetries

Wanted == trackCache[req.track][req.sector]
Found == Wanted.errs = Good \/ (ignoreErrors /\ Wanted.errs = Weak)

ReadReturns ==
  /\ pc["client"] = "read"
  /\ \/ Found
     \/ Exhausted /\ ignoreErrors
     \/ ~Found /\ retries = MaxRetries \div 2 /\ inDrive = NoDisk
  /\ ReadEnds
  /\ UNCHANGED <<motorOn, ignoreErrors, alwaysIgnore>>

ReadMotorFails ==
  /\ "motor" \in Faults
  /\ pc["client"] = "read" /\ ~Found /\ ~Exhausted
  /\ MotorInUse
  /\ ReadEnds
  /\ UNCHANGED <<ignoreErrors, alwaysIgnore>>

\* One pass over the track.
ReadAttempt ==
  /\ pc["client"] = "read" /\ ~Found /\ ~Exhausted
  /\ ~(retries = MaxRetries \div 2 /\ inDrive = NoDisk)
  /\ TrackRead(req.track) \/ TrackUnread
  /\ MotorInUse
  /\ retries' = retries + 1
  /\ UNCHANGED <<toFlush, ignoreErrors, alwaysIgnore, flushVars, lock, pc, req, owed,
                 requests>>

\* The box `Disk Errors Detected', after more than MAX_RETRIES attempts:
\* Retry, Ignore, Always Ignore ...
ReadPrompted ==
  /\ pc["client"] = "read" /\ ~Found /\ Exhausted /\ ~ignoreErrors
  /\ inDrive # NoDisk
  /\ retries' = 0
  /\ \/ UNCHANGED <<ignoreErrors, alwaysIgnore>>
     \/ ignoreErrors' = TRUE /\ alwaysIgnore' \in {alwaysIgnore, TRUE}
  /\ UNCHANGED <<cacheVars, motorOn, flushVars, lock, pc, req, owed, requests>>

\* ... or Abort, or the disk is gone whatever was answered.
ReadAborted ==
  /\ pc["client"] = "read" /\ ~Found /\ Exhausted /\ ~ignoreErrors
  /\ ReadEnds
  /\ UNCHANGED motorOn
  /\ \/ UNCHANGED <<ignoreErrors, alwaysIgnore>>
     \/ /\ inDrive = NoDisk
        /\ ignoreErrors' = TRUE /\ alwaysIgnore' \in {alwaysIgnore, TRUE}

ClientRequest ==
  /\ \E t \in Tracks, s \in Sectors :
       ReadRequest(t, s) \/ \E d \in Payload : WriteRequest(t, s, d)
  /\ UNCHANGED clientFrame

ClientStep ==
  /\ \/ WriteCommit \/ WriteFlushed
     \/ ReadFlushed \/ ReadReturns \/ ReadMotorFails \/ ReadAttempt
     \/ ReadPrompted \/ ReadAborted
  /\ UNCHANGED clientFrame
-----------------------------------------------------------------------------
(***************************************************************************)
(* The timer: motorMonitor, every 200 ms.                                   *)
(***************************************************************************)
\* MOTOR_IDLE_TIMEOUT has passed since the last motorInUse.
TimerExpires ==
  /\ pc["timer"] = "idle" /\ lock = NoThread /\ Calm
  /\ motorOn
  /\ EnterFlush("timer", "flushed", toFlush)
  /\ UNCHANGED <<cacheVars, diskInDrive, motorOn, ignoreErrors, alwaysIgnore,
                 blockWriting, mounted, home, owed, blanked>>

TimerFlushed ==
  /\ pc["timer"] = "flushed" /\ Flushed
  /\ FlushOver
  /\ motorOn' = FALSE
  /\ ignoreErrors' = (ignoreErrors /\ alwaysIgnore)
  /\ blockWriting' = FALSE
  /\ pc' = [pc EXCEPT !["timer"] = "check"]
  /\ UNCHANGED <<cacheVars, diskInDrive, alwaysIgnore, lock, mounted, home, owed,
                 blanked>>

\* The motor is off or was used lately, and there is a change to see.
TimerLooks ==
  /\ pc["timer"] = "idle" /\ lock = NoThread /\ Calm
  /\ diskInDrive # (inDrive # NoDisk)
  /\ lock' = "timer"
  /\ pc' = [pc EXCEPT !["timer"] = "check"]
  /\ UNCHANGED <<cacheVars, diskInDrive, motorOn, ignoreErrors, alwaysIgnore,
                 blockWriting, flushVars, mounted, home, owed, blanked>>

TimerSeesNoChange ==
  /\ pc["timer"] = "check"
  /\ diskInDrive = (inDrive # NoDisk)
  /\ Unlock("timer", "idle")
  /\ UNCHANGED <<cacheVars, diskInDrive, motorOn, ignoreErrors, alwaysIgnore,
                 blockWriting, flushVars, mounted, home, owed, blanked>>

\* The removal of a disk is taken note of; what was promised of it is void.
DiskGone ==
  /\ trackCache' = NoTracks
  /\ blanked' = FALSE
  /\ diskInDrive' = FALSE
  /\ owed' = [t \in Tracks |-> NoneOwed]
  /\ Unlock("timer", "notify")

TimerSeesRemoval ==
  /\ pc["timer"] = "check"
  /\ diskInDrive /\ inDrive = NoDisk
  /\ IF toFlush = {}
     THEN DiskGone
     ELSE /\ pc' = [pc EXCEPT !["timer"] = "warn"]
          /\ UNCHANGED <<trackCache, diskInDrive, lock, owed, blanked>>
  /\ UNCHANGED <<toFlush, diskType, motorOn, ignoreErrors, alwaysIgnore, blockWriting,
                 flushVars, mounted, home>>

\* diskRemovedWarning: a disk is back, so that the next tick flushes ...
TimerReinserted ==
  /\ pc["timer"] = "warn" /\ inDrive # NoDisk
  /\ MotorInUse
  /\ Unlock("timer", "idle")
  /\ UNCHANGED <<cacheVars, diskInDrive, ignoreErrors, alwaysIgnore, blockWriting,
                 flushVars, mounted, home, owed, blanked>>

\* ... or Cancel.
TimerCancelled ==
  /\ pc["timer"] = "warn" /\ inDrive = NoDisk
  /\ toFlush' = {}
  /\ DiskGone
  /\ UNCHANGED <<diskType, motorOn, ignoreErrors, alwaysIgnore, blockWriting,
                 flushVars, mounted, home>>

TimerSeesDisk ==
  /\ pc["timer"] = "check"
  /\ ~diskInDrive /\ inDrive # NoDisk
  /\ diskInDrive' = TRUE
  /\ home' = inDrive
  /\ owed' = IF inDrive = home THEN owed ELSE [t \in Tracks |-> NoneOwed]
  /\ Unlock("timer", "notify")
  /\ UNCHANGED <<cacheVars, motorOn, ignoreErrors, alwaysIgnore, blockWriting,
                 flushVars, mounted, blanked>>

\* Without the lock: the cache is cleared and, for a removal, the disk
\* forgotten and the file system unmounted.  m_fileSystemID is off while the
\* drive is being cleaned.
TimerNotify ==
  /\ pc["timer"] = "notify"
  /\ IF pc["app"] = "cleaning"
     THEN /\ pc' = [pc EXCEPT !["timer"] = "idle"]
          /\ UNCHANGED <<trackCache, diskType, mounted, blanked>>
     ELSE /\ trackCache' = NoTracks
          /\ blanked' = FALSE
          /\ pc' = [pc EXCEPT !["timer"] = IF diskInDrive THEN "identify" ELSE "idle"]
          /\ IF diskInDrive THEN UNCHANGED <<diskType, mounted>>
             ELSE diskType' = "unknown" /\ mounted' = FALSE
  /\ UNCHANGED <<toFlush, diskInDrive, motorOn, ignoreErrors, alwaysIgnore,
                 blockWriting, flushVars, lock, home, owed>>

\* identifyFileSystem and the callback: track 0 tells what disk this is, and
\* its file system is mounted.
TimerIdentify ==
  /\ pc["timer"] = "identify" /\ lock = NoThread /\ Calm
  /\ alwaysIgnore' = FALSE
  /\ MotorInUse
  /\ \/ inDrive # NoDisk /\ \E w \in WeakSets : Decode(Least(Tracks), w, "unknown")
     \/ /\ inDrive = NoDisk \/ Faults \cap {"unread", "motor"} # {}
        /\ diskType' = "unknown"
        /\ UNCHANGED trackCache
  /\ mounted' = (diskType' = "known")
  /\ pc' = [pc EXCEPT !["timer"] = "idle"]
  /\ UNCHANGED <<toFlush, diskInDrive, ignoreErrors, blockWriting, flushVars, lock,
                 home, owed, blanked>>

TimerStep ==
  /\ \/ TimerExpires \/ TimerFlushed \/ TimerLooks
     \/ TimerSeesNoChange \/ TimerSeesRemoval \/ TimerSeesDisk
     \/ TimerReinserted \/ TimerCancelled
     \/ TimerNotify \/ TimerIdentify
  /\ UNCHANGED timerFrame
-----------------------------------------------------------------------------
(***************************************************************************)
(* The dialogs.  MountedVolume::setLocked flushes and then raises or lowers  *)
(* the flag that keeps Dokan out; in between the file system is unmounted.   *)
(***************************************************************************)
AppFlush(back) ==
  /\ lock = NoThread /\ Calm
  /\ EnterFlush("app", back, toFlush)
  /\ UNCHANGED <<cacheVars, diskInDrive>>

\* setLocked(true), refused while files are open, begins with a flush.
AppLock ==
  /\ pc["app"] = "idle"
  /\ sessions < MaxSessions /\ Settled
  /\ AppFlush("locking")
  /\ sessions' = sessions + 1
  /\ UNCHANGED <<writeOnly, mounted, owed, blanked>>

\* The flush of a setLocked returns (its result is not looked at).
AppFlushed ==
  /\ Flushed
  /\ \E step \in {<<"locking", "flushed">>, <<"unlocking", "idle">>,
                  <<"cleaned", "reset">>} :
       pc["app"] = step[1] /\ Unlock("app", step[2])
  /\ FlushOver
  /\ UNCHANGED <<cacheVars, diskInDrive, writeOnly, mounted, owed, blanked, sessions>>

\* setLocked raises the flag; a call that came before it goes on.
AppShut ==
  /\ pc["app"] = "flushed"
  /\ pc' = [pc EXCEPT !["app"] = "session"]
  /\ UNCHANGED <<cacheVars, diskInDrive, writeOnly, flushVars, lock, mounted, owed, blanked,
                 sessions>>

\* The drive is cleaned: for as long the disk in it is not identified.
AppClean ==
  /\ pc["app"] = "session"
  /\ pc' = [pc EXCEPT !["app"] = "cleaning"]
  /\ mounted' = FALSE
  /\ UNCHANGED <<cacheVars, diskInDrive, writeOnly, flushVars, lock, owed, blanked,
                 sessions>>

AppCleaned ==
  /\ pc["app"] = "cleaning"
  /\ AppFlush("cleaned")
  /\ UNCHANGED <<writeOnly, mounted, owed, blanked, sessions>>

\* A disk is formatted, or a disk image written to it: its geometry is forced,
\* the cache emptied, for a quick format filled with blank sectors.
AppFormat ==
  /\ pc["app"] = "session" /\ lock = NoThread
  /\ diskInDrive
  /\ diskType' = "known"
  /\ toFlush' = {}
  /\ \/ trackCache' = NoTracks /\ blanked' = FALSE
     \/ /\ trackCache' = [t \in Tracks |-> [s \in Sectors |->
                                            [data |-> Blank, errs |-> Good]]]
        /\ blanked' = TRUE
  /\ writeOnly' = TRUE
  /\ owed' = [t \in Tracks |-> NoneOwed]
  /\ mounted' = FALSE
  /\ pc' = [pc EXCEPT !["app"] = "format"]
  /\ UNCHANGED <<diskInDrive, flushVars, lock, sessions>>

\* Every track or so the worker flushes what it wrote; a failure ends the
\* format, success may.
AppFormatFlush ==
  /\ pc["app"] = "format" /\ pc["client"] = "idle"
  /\ AppFlush("formatted")
  /\ UNCHANGED <<writeOnly, mounted, owed, blanked, sessions>>

AppFormatted ==
  /\ pc["app"] = "formatted" /\ Flushed
  /\ IF phase = "ok" THEN Unlock("app", "format") \/ Unlock("app", "reset")
     ELSE Unlock("app", "aborted")
  /\ FlushOver
  /\ UNCHANGED <<cacheVars, diskInDrive, writeOnly, mounted, owed, blanked, sessions>>

AppAbort ==
  /\ pc["app"] = "format" /\ pc["client"] = "idle"
  /\ pc' = [pc EXCEPT !["app"] = "aborted"]
  /\ UNCHANGED <<cacheVars, diskInDrive, writeOnly, flushVars, lock, mounted, owed,
                 blanked, sessions>>

\* A format that ends early leaves the cache, blank sectors included, as it is.
AppFormatAborted ==
  /\ pc["app"] = "aborted"
  /\ writeOnly' = FALSE
  /\ AppFlush("unlocking")
  /\ mounted' = FALSE
  /\ UNCHANGED <<owed, blanked, sessions>>

ResetCache ==
  /\ lock = NoThread /\ Settled
  /\ trackCache' = NoTracks /\ blanked' = FALSE
  /\ toFlush' = {}
  /\ UNCHANGED <<flushVars, lock>>

\* An image copied to the disk: the cache is reset whatever happened.
AppCopyAborted ==
  /\ pc["app"] = "aborted"
  /\ ResetCache
  /\ writeOnly' = FALSE
  /\ owed' = OwedWithout(toFlush)
  /\ mounted' = FALSE
  /\ pc' = [pc EXCEPT !["app"] = "idle"]
  /\ UNCHANGED <<diskType, diskInDrive, sessions>>

\* triggerNewDiskMount: resetCache ...
AppReset ==
  /\ pc["app"] = "reset"
  /\ ResetCache
  /\ pc' = [pc EXCEPT !["app"] = "forget"]
  /\ UNCHANGED <<diskType, diskInDrive, writeOnly, mounted, owed, sessions>>

\* ... and, without the lock, the next tick shall find a new disk.  (After a
\* format setLocked(false) flushes once more, with nothing to flush.)
AppForget ==
  /\ pc["app"] = "forget" /\ Settled
  /\ diskType' = "unknown"
  /\ diskInDrive' = FALSE
  /\ writeOnly' = FALSE
  /\ mounted' = FALSE
  /\ pc' = [pc EXCEPT !["app"] = "idle"]
  /\ UNCHANGED <<trackCache, toFlush, flushVars, lock, owed, blanked, sessions>>

\* A disk was read into an image file, or nothing was done; what was mounted is
\* mounted again.
AppQuit ==
  /\ pc["app"] = "session" /\ pc["client"] = "idle"
  /\ AppFlush("unlocking")
  /\ UNCHANGED <<writeOnly, mounted, owed, blanked, sessions>>

AppStep ==
  /\ \/ AppLock \/ AppFlushed \/ AppShut
     \/ AppClean \/ AppCleaned
     \/ AppFormat \/ AppFormatFlush \/ AppFormatted
     \/ AppAbort \/ AppFormatAborted \/ AppCopyAborted
     \/ AppReset \/ AppForget \/ AppQuit
  /\ UNCHANGED appFrame
-----------------------------------------------------------------------------
Init ==
  /\ inDrive = NoDisk
  /\ media = [d \in Disks |-> [t \in Tracks |-> [s \in Sectors |-> d]]]
  /\ trackCache = NoTracks /\ toFlush = {} /\ diskType = "unknown"
  /\ diskInDrive = FALSE /\ motorOn = FALSE
  /\ ignoreErrors = FALSE /\ alwaysIgnore = FALSE
  /\ blockWriting = FALSE /\ writeOnly = FALSE
  /\ phase = "idle" /\ todo = {} /\ written = {}
  /\ track = Least(Tracks) /\ buffer = Nothing
  /\ lock = NoThread
  /\ pc = [th \in Threads |-> "idle"]
  /\ req = NoRequest /\ retries = 0
  /\ mounted = FALSE
  /\ home \in Disks
  /\ owed = [t \in Tracks |-> NoneOwed]
  /\ blanked = FALSE
  /\ requests = 0 /\ removals = 0 /\ sessions = 0

Next == DriveStep \/ FlushStep \/ ClientRequest \/ ClientStep \/ TimerStep \/ AppStep

Spec == Init /\ [][Next]_vars

\* Threads run; whoever faces a message box answers it, and does not answer
\* Retry for ever; the user need neither remove nor insert a disk, ask for
\* anything, nor open a dialog.
Fairness ==
  /\ WF_vars(FlushStep) /\ WF_vars(ClientStep) /\ WF_vars(TimerStep)
  /\ SF_vars(ReadAborted /\ UNCHANGED clientFrame)
LiveSpec == Spec /\ Fairness
-----------------------------------------------------------------------------
Phases == {"idle", "next", "write", "verify", "stalled", "unverified", "warnWrite",
           "warnStall", "warnVerify", "ok", "failed"}
ClientSteps == {"idle", "write", "writeFlush", "readFlush", "read"}
TimerSteps == {"idle", "flushed", "check", "warn", "notify", "identify"}
AppSteps == {"idle", "locking", "flushed", "session", "cleaning", "cleaned", "reset", "forget",
             "format", "formatted", "aborted", "unlocking"}

(* Values stay in their sets, the lock is held exactly by the thread that is   *)
(* at a step which m_motorTimerProtect guards, and the client is at work on a  *)
(* request of the right kind.                                                  *)
TypeOK ==
  /\ inDrive \in Disks \cup {NoDisk}
  /\ media \in [Disks -> [Tracks -> [Sectors -> Cell]]]
  /\ trackCache \in [Tracks -> [Sectors -> Entry]]
  /\ toFlush \subseteq Tracks
  /\ diskType \in {"unknown", "known"}
  /\ {diskInDrive, motorOn, ignoreErrors, alwaysIgnore, blockWriting, writeOnly,
      mounted, blanked} \subseteq BOOLEAN
  /\ phase \in Phases
  /\ todo \subseteq Tracks /\ written \subseteq Tracks /\ track \in Tracks
  /\ buffer \in [Sectors -> Cell] \cup {Nothing}
  /\ lock \in Threads \cup {NoThread}
  /\ DOMAIN pc = Threads
  /\ pc["client"] \in ClientSteps /\ pc["timer"] \in TimerSteps /\ pc["app"] \in AppSteps
  /\ lock = "client" <=> pc["client"] \in {"writeFlush", "readFlush", "read"}
  /\ lock = "timer" <=> pc["timer"] \in {"flushed", "check", "warn"}
  /\ lock = "app" <=> pc["app"] \in {"locking", "cleaned", "formatted", "unlocking"}
  /\ req \in Requests
  /\ pc["client"] = "write" => req.op = "write"
  /\ pc["client"] \in {"readFlush", "read"} => req.op = "read"
  /\ retries \in 0 .. MaxRetries + 1
  /\ home \in Disks
  /\ owed \in [Tracks -> [Sectors -> Cell]]
  /\ requests \in 0 .. MaxRequests /\ removals \in 0 .. MaxRemovals
  /\ sessions \in 0 .. MaxSessions

(* A sector that the cache calls good and that nobody is about to write is the *)
(* sector on the disk.  readDataAllFS returns such a sector without touching   *)
(* the drive.  (createBlankSectors deliberately caches what is not there.)     *)
CleanMeansWritten ==
  ~blanked => \A t \in Tracks \ toFlush, s \in Sectors :
                 trackCache[t][s].errs = Good => trackCache[t][s].data = media[home][t][s]

(* A write that was accepted is on the disk, or its sector is in the cache and *)
(* its track due to be written, until the user has been told otherwise.        *)
NoWriteLost ==
  \A t \in Tracks, s \in Sectors :
    owed[t][s] # Bad =>
      \/ media[home][t][s] = owed[t][s]
      \/ t \in toFlush /\ trackCache[t][s] = [data |-> owed[t][s], errs |-> Good]

(* Writing a track leaves its other sectors as they were: a sound sector of    *)
(* the disk changes only if it was written to, if the disk is being formatted, *)
(* or if the write of its track times out.                                     *)
NeighboursKept ==
  [][\A d \in Disks, t \in Tracks, s \in Sectors :
       media'[d][t][s] # media[d][t][s] =>
         \/ media[d][t][s] = Bad
         \/ media'[d][t][s] = owed[t][s] /\ owed[t][s] # Bad
         \/ writeOnly \/ blanked \/ phase' = "stalled"
    ]_vars

(* Only the disk the timer last saw is ever written, and only a track with a   *)
(* pending write that was accepted for this disk.                              *)
OnlyHomeWritten ==
  [][\A d \in Disks, t \in Tracks :
       media'[d][t] # media[d][t] =>
         d = home /\ t \in toFlush /\ owed[t] # NoneOwed]_vars

(* Once the user has answered Abort, nothing is written until the motor stops. *)
AbortStopsWriting == [][blockWriting => media' = media]_vars

(* Accepted writes do not stay in memory: they get to the disk, or the user    *)
(* hears that they do not.                                                     *)
EventuallyFlushed == toFlush # {} ~> toFlush = {}
=============================================================================
