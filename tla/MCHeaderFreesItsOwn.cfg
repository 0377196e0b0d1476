\* The header of a slot may be made where a pointer was left over.
SPECIFICATION Spec
CONSTANTS
  Address = {b1, b2, b3, b4}
  Slot = {1, 2}
  Function = {200}
  Time = {10}
  NodeType = {0, 1, 2}
  Null = Null
  Wild = Wild
SYMMETRY Blocks
INVARIANT HeaderFreesItsOwn
CHECK_DEADLOCK FALSE
