SPECIFICATION FairTuiSpec
CONSTANTS
  ProfileLoads <- MCProfiles
  PolicyLoads <- MCPolicies
  Workloads <- MCWorkloads
  Labels = 2
  Domains = {"host"}
  NoSession = NoSession
  MaxSeed = 2
  MaxFiles = 2
INVARIANTS
  SettingsApplied
PROPERTIES
  ReportsKept
  AutoRunEnds
CHECK_DEADLOCK FALSE
