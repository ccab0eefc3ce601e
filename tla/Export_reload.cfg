\* A reload while an export runs.
CONSTANTS
  Formats = {"ts", "mp4"}
  NoFormat = NoFormat
  Segments <- ThreeSegments
  Unreadable <- LastUnreadable
  Requests <- OneRequest
  MaxRestarts = 1
  Faults = TRUE
  MaxFailures = 1
SPECIFICATION FairSpec
CHECK_DEADLOCK FALSE
PROPERTY ReloadKeepsProcess
