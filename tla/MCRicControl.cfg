SPECIFICATION Spec
CONSTANTS
  UeId = {7, 8}
  Cell = {0, 1, 15}
  MaxIEs = 3
  Item <- MCItem
  Request <- MCRequest
INVARIANTS
  TypeOK
  MembersFromLastIE
  NoDanglingMember
  CellRoundTrip
PROPERTIES
  GettersRepeatable
