\* A network read that never returns.
CONSTANTS
  Cameras = {c1}
  Handles = {h1}
  None = None
  Ops = {}
  MaxBatch = 0
  Signals = {}
  Editable = {}
  DbFaults = FALSE
SPECIFICATION FrozenNetworkSpec
PROPERTIES
  FrozenCameraRestarted
