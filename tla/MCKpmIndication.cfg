SPECIFICATION Spec
CONSTANTS
  Address <- MCAddress
  Data = {d1, d2}
  Counts <- MCCounts
  None = None
  Undefined = Undefined
INVARIANTS
  TypeOK
  ListsHaveOwners
  ColumnsAreUes
PROPERTIES
  CellReportIsExact
  EveryUeIsReported
  EncodedIfMeasured
CHECK_DEADLOCK FALSE
