CONSTANTS
  Handles = {h1}
  Jobs = {"format", "toDisk", "backup", "clean", "message"}
  MaxInserts = 2
  MaxRequests = 2
  Allow = {"late"}
SPECIFICATION LiveSpec
INVARIANTS DevicesLive RawAlone CallsGoHome
PROPERTY EventuallyShown
\* Disks and dialogs are bounded, so that the system comes to rest.
CHECK_DEADLOCK FALSE
