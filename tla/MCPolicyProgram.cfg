SPECIFICATION Spec
CONSTANTS
  Keep = Keep
  Always = Always
  Absent = Absent
  Programs <- MCPrograms
  Snapshots <- MCSnapshots
INVARIANTS
  FirstRuleWins
  ReordersOnlyMatching
CHECK_DEADLOCK FALSE
