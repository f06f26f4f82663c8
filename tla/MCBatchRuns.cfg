SPECIFICATION Spec
CONSTANTS
  Manifests <- MCManifests
  Bad = Bad
  Missing = Missing
  Partial = Partial
  BaseDir = "base"
  None = None
  MaxProcesses = 3
INVARIANTS
  RowsFollowTheManifest
  OneHeaderFirst
  ReportsBackRows
CHECK_DEADLOCK FALSE
