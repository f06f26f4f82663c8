SPECIFICATION FairSpec
CONSTANTS
  Name <- MCName
  Specs <- MCSpecs
INVARIANTS
  VerdictRight
  OrderedIffAcyclic
PROPERTIES
  InferenceSuffices
  Decided
CHECK_DEADLOCK FALSE
