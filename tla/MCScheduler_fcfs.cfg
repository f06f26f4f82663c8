SPECIFICATION Spec
CONSTANTS
  Task = {1, 2, 3}
  Resource <- MCResource
  Capacity <- MCCapacity
  Stages <- DramStages
  ArrivalTimes = {0, 1}
  Decisions <- NoPolicy
  NoLimit = NoLimit
  Keep = Keep
PROPERTIES
  FirstComeFirstServed
CHECK_DEADLOCK FALSE
