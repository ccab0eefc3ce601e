SPECIFICATION Spec
CONSTANTS
  Cameras <- MCCameras
  Elsewhere <- MCElsewhere
  MaxTime = 2
  HourLength = 3
  Blocks = 2
  MinFreeSpace = 50
  IsPercent = TRUE
  TooSmall = 0
  DefaultMinFree = 2
  Extra = 1
  Reservation = 1
  MaxRows = 2
  MaxFaults = 1
  MaxLocks = 1
  MaxReserved = 1
INVARIANTS
  TypeOK
  
PROPERTIES
  LocksHold
  CleansOldestFirst
  FilesKeepRows
  EndsWrittenOnce
CHECK_DEADLOCK FALSE
