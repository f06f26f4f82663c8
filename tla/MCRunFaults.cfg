SPECIFICATION FairFaultySpec
CONSTANTS
  Task <- DistinctIds
  Resource <- MCResource
  Capacity <- FaultyCapacity
  Stages <- FaultyStages
  ArrivalTimes = {0, 1}
  Decisions <- DistinctPolicy
  NoLimit = NoLimit
  Keep = Keep
  PlainTasks <- DistinctPlain
  Dags <- DistinctDags
  None = None
  RefusedSets <- Refusals
  RequirementSets <- Requirements
INVARIANTS
  ControllerConsistent
  NoGapBetweenStages
  RunEndsComplete
  AbortsForAReason
  UnitsWithinCapacity
PROPERTIES
  PrecedenceRespected
  OrderUnlessAborted
CHECK_DEADLOCK FALSE
