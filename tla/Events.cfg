\* Two places that are near each other and one that is not, three frames of up to two
\* contours, one pass and one failure.
CONSTANTS
  Places = {1, 2, 5}
  Areas = {1, 2}
  MinDist = 2
  MinArea = 2
  TrackingTime = 1
  Elsewhere = FALSE
  MaxContours = 2
  MaxFrames = 3
  MaxPasses = 1
  MaxFaults = 1
SPECIFICATION Spec
INVARIANTS
  OneEventPerTrack
  PicturesKeepRows
  EventsHavePictures
