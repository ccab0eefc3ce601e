\* A crash between a split and the end of the job that was split.
CONSTANTS
  Formats = {"ts", "mp4"}
  NoFormat = NoFormat
  Segments <- ThreeSegments
  Unreadable <- LastUnreadable
  Requests <- OneRequest
  MaxRestarts = 1
  Faults = TRUE
  MaxFailures = 1
SPECIFICATION FairSpec
CHECK_DEADLOCK FALSE
PROPERTY AllJobsEnd
