\* One camera, edited at any time; signals, and commands that wait for each of the locks.
CONSTANTS
  Cameras = {c1}
  Handles = {h1}
  None = None
  Ops = {"RESTART", "LIST", "STATUS", "RELOAD"}
  MaxBatch = 1
  Signals = {"INT", "HUP"}
  Editable = {c1}
  DbFaults = FALSE
SPECIFICATION FairSpec
PROPERTIES
  ExitHonoured
  ReloadHonoured
  CommandsAnswered
  ActiveCameraReturns
