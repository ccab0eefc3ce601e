SPECIFICATION Spec
CONSTANTS
  ReorderLen = 2
  Depth = 1
  MaxBuffered = 3
  SegmentLen = 1
  FileLen = 3
  Fragmented = TRUE
  InitLen = 2
  Offsets <- MCOffsets
  ConnectTime = 4
  Drifts <- MCDrifts
  MaxPackets = 6
  MaxDts = 3
  MaxOdd = 2
INVARIANTS
  NoneLostOrTwice
  SegmentsIndependent
  PlaylistFollows
  MuxerRefuses
  ViewIsSegment
PROPERTIES
  ReorderKeepsOrder
  ImplementsRecording
CHECK_DEADLOCK FALSE
