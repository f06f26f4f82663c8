SPECIFICATION ObserveSpec
CONSTANTS
  Task = {1, 2}
  Resource <- MCResource
  Capacity <- MCCapacity
  Stages <- BusyStages
  ArrivalTimes = {0, 2}
  Decisions <- KeepAll
  NoLimit = NoLimit
  Keep = Keep
  HostCpu = {"host_cpu"}
  NicCpu = {"nic_cpu"}
  HostResources = {"host_cpu"}
  NicResources = {"nic_cpu"}
  QueueWindow = 1
  UtilizationWindow = 1
  SojournCapacity = 2
  ReorderWindow = 2
  PolicyIds = {"none"}
  Rules <- NoRules
  Always = Always
  Absent = Absent
INVARIANTS
  AverageSeesBusyHost
CHECK_DEADLOCK FALSE
