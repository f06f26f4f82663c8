SPECIFICATION ObserveSpec
CONSTANTS
  Task = {1,2,3,4}
  Resource <- MCResource
  Capacity <- MCCapacity
  Stages <- SkewedStages
  ArrivalTimes = {0, 1}
  Decisions <- SomeDecisions
  NoLimit = NoLimit
  Keep = Keep
  HostCpu = {"host_cpu"}
  NicCpu = {"nic_cpu"}
  HostResources = {"host_cpu"}
  NicResources = {"nic_cpu"}
  QueueWindow = 1
  UtilizationWindow = 1
  SojournCapacity = 2
  ReorderWindow = 1
  PolicyIds = {"any", "none", "dsl", "descending-id", "limit-active-1", "prefer-host", "prefer-nic", "prefer-adaptive"}
  Rules <- AdaptiveRules
  Always = Always
  Absent = Absent
INVARIANTS
  WindowsExact
  ReportExact
  WorkConservingUnsorted
PROPERTIES
  DrainKeepsRanking
CHECK_DEADLOCK FALSE
