\* Two cameras; commands that start, stop and reload, and
\* queries of the config table that may fail.
CONSTANTS
  Cameras = {c1, c2}
  Handles = {h1, h2}
  None = None
  Ops = {"START", "STOP", "RELOAD"}
  MaxBatch = 1
  Signals = {}
  Editable = {}
  DbFaults = TRUE
SYMMETRY SafetySymmetry
SPECIFICATION Spec
INVARIANTS
  TypeOK
  OneThreadPerCamera
  ThreadsHaveDatabase
PROPERTIES
  QueuesStableInPass
  StopRequestsServed
  ImplementsSupervision
