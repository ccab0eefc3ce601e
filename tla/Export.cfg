\* A request that is split into two jobs; deletions at any time, one restart.
CONSTANTS
  Formats = {"ts", "mp4"}
  NoFormat = NoFormat
  Segments <- ThreeSegments
  Unreadable <- LastUnreadable
  Requests <- OneRequest
  MaxRestarts = 1
  Faults = TRUE
  MaxFailures = 1
SPECIFICATION FairSpec
CHECK_DEADLOCK FALSE
INVARIANTS
  TypeOK
  CancelHitsOnlyItsJob
  DoneMeansComplete
PROPERTIES
  SplitKeepsRange
  JobsEnd
