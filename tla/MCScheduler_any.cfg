SPECIFICATION FairSpec
CONSTANTS
  Task = {1, 2, 3}
  Resource <- MCResource
  Capacity <- MCCapacity
  Stages <- ContentionStages
  ArrivalTimes = {0, 1}
  Decisions <- AnyPolicy
  NoLimit = NoLimit
  Keep = Keep
INVARIANTS
  TypeOK
  WaitingConsistent
  OnePlace
  UnitsAccounted
  RunEndsClean
PROPERTIES
  ServesStages
  SojournAccounted
  AdmissionRespected
  EveryTaskCompletes
CHECK_DEADLOCK FALSE
