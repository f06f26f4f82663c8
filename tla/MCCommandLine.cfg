SPECIFICATION Spec
CONSTANTS
  Flags = {"profile", "workload", "host", "policy", "rolling_queue"}
  Values = {1, 2}
  Bad = Bad
  Empty = Empty
  Default = Default
  None = None
  Manifests <- MCManifests
  MaxArguments = 3
INVARIANTS
  FlagsOverrideManifest
  RefusedIffFaulty
CHECK_DEADLOCK FALSE
