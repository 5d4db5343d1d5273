\* Writes that time out, two disks that change places, one dialog session.
SPECIFICATION Spec
CONSTANTS
  Tracks = {0, 1}
  Sectors = {s1, s2}
  Disks = {d1, d2}
  Payload = {p}
  Blank = blank
  Bad = bad
  NoDisk = noDisk
  NoThread = noThread
  ForceFlushAt = 2
  MaxRetries = 2
  Faults = {"stall"}
  MaxRequests = 2
  MaxRemovals = 1
  MaxSessions = 1
INVARIANTS CleanMeansWritten NoWriteLost
PROPERTIES NeighboursKept
\* Requests, removals and sessions are bounded, so that the system comes to rest.
CHECK_DEADLOCK FALSE
