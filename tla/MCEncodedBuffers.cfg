\* Two objects at a time, one function: six blocks hold a KPM description with
\* its lists, an RC description while its short name is there, and two copies
\* of E2Sim, or the lists of three KPM descriptions that came and went.
SPECIFICATION Spec
CONSTANTS
  Address = {b1, b2, b3, b4, b5, b6}
  Slot = {1, 2}
  Function = {200}
  Time = {10}
  NodeType = {0, 1, 2}
  Null = Null
  Wild = Wild
SYMMETRY Blocks
CONSTRAINT Defined
INVARIANTS
  TypeOK
  BuffersAreOwned
  BuffersAreFreed
  ReportsAreAdvertised
CHECK_DEADLOCK FALSE
