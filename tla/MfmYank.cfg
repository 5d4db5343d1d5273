\* The disk is taken out while writes are pending, up to twice; no sessions.
SPECIFICATION LiveSpec
CONSTANTS
  Tracks = {0, 1}
  Sectors = {s1, s2}
  Disks = {d1, d2}
  Payload = {p}
  Blank = blank
  Bad = bad
  NoDisk = noDisk
  NoThread = noThread
  ForceFlushAt = 2
  MaxRetries = 2
  Faults = {"yank"}
  MaxRequests = 3
  MaxRemovals = 2
  MaxSessions = 0
PROPERTIES OnlyHomeWritten EventuallyFlushed
\* Requests, removals and sessions are bounded, so that the system comes to rest.
CHECK_DEADLOCK FALSE
