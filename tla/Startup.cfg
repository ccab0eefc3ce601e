\* Two daemons on one database, which is empty, old, current or foreign; one kill or
\* statement that fails, one edit.
CONSTANTS
  Daemons = {d1, d2}
  MaxRows = 3
  MaxFaults = 1
  Supported <- MCSupported
  Requires <- MCRequires
  Files <- MCFiles
  Values <- MCValues
  Default <- MCDefault
  MaxEdits = 1
SYMMETRY Alike
SPECIFICATION StartupSpec
INVARIANTS
  DatabaseSound
  ModulesOrdered
