SPECIFICATION Spec
CONSTANTS
  Address <- MCAddress
  Data = {d1, d2}
  Counts <- MCCounts
  None = None
  Undefined = Undefined
INVARIANTS
  CellReportHoldsValues
CHECK_DEADLOCK FALSE
