SPECIFICATION Spec
CONSTANTS
  RequestorId = {1, 2}
  InstanceId = {1}
  RanFunctionId = {200, 300}
  ActionId = {1, 2}
  Request <- MCRequest
  MaxReports = 3
INVARIANT
  NothingDropped
CHECK_DEADLOCK FALSE
