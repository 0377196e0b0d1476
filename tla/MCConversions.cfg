\* Integers, networks and cells through the ASN.1 conversions.
SPECIFICATION Spec
CONSTANTS
  Values <- MCValues
  Cells <- MCCells
  Plmns <- MCPlmns
  Ids <- MCIds
  Beyond <- MCBeyond
INVARIANTS
  TypeOK
  FieldRoundTrip
  IntegersReadBySize
  MacroRoundTrip
  UnusedBitsAreZero
  CellsStayDistinct
  PlmnRoundTrip
  
  UeIdIsComplete
