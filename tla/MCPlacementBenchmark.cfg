SPECIFICATION Spec
CONSTANTS
  None = None
  BlockMark = BlockMark
  Absent = Absent
  Numeral <- MCNumeral
  LowerCase <- MCLowerCase
  MetadataPair <- MCMetadataPair
  IdBits = 4
  Uint32Bits = 3
  LinkFallback = 5
  IdStride = 4
  Inputs <- MCInputs
  Commands <- MCCommands
  Instants <- MCInstants
  MaxArrivals = 2
  MaxRows = 2
INVARIANTS
  ReadAsIndented
  LoadedAsWritten
  CopiesHaveTheirOwnIds
  PlacedAsAsked
  RowsOfTheRuns
CHECK_DEADLOCK FALSE
