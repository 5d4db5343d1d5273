CONSTANTS
  LastReserved = 15
  SuperMode = FALSE
  Changing = {"DBLK", "BMBLK"}
  MaxEvictions = 2
  MaxUpdates = 2
  Allow = {}
SPECIFICATION Spec
INVARIANT ReservedAccounted
PROPERTY ImplementsAtomicVolume
CHECK_DEADLOCK FALSE
VIEW View
