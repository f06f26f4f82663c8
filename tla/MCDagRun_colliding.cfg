SPECIFICATION RunSpec
CONSTANTS
  Task <- CollidingIds
  Resource <- MCResource
  Capacity <- MCCapacity
  Stages <- CollidingStages
  ArrivalTimes = {0, 1}
  Decisions <- CollidingPolicy
  NoLimit = NoLimit
  Keep = Keep
  PlainTasks <- CollidingPlain
  Dags <- CollidingDags
  None = None
INVARIANTS
  CollisionDetected
CHECK_DEADLOCK FALSE
