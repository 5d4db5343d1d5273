\* Everything that may go wrong at once.
SPECIFICATION Spec
CONSTANTS
  Tracks = {0, 1}
  Sectors = {s1, s2}
  Disks = {d1}
  Payload = {p}
  Blank = blank
  Bad = bad
  NoDisk = noDisk
  NoThread = noThread
  ForceFlushAt = 2
  MaxRetries = 2
  Faults = {"weak", "unread", "stall", "corrupt", "motor", "yank",
            "swap", "window"}
  MaxRequests = 2
  MaxRemovals = 1
  MaxSessions = 0
INVARIANT TypeOK
PROPERTY AbortStopsWriting
\* Requests, removals and sessions are bounded, so that the system comes to rest.
CHECK_DEADLOCK FALSE
