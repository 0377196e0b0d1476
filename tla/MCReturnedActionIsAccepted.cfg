SPECIFICATION HandlerSpec
CONSTANTS
  RequestorId = {1, 2}
  InstanceId = {1}
  RanFunctionId = {3}
  ActionId = {1, 2}
  MaxActions = 3
  MaxIEs = 3
  Request <- MCRequest
INVARIANT
  ReturnedActionIsAccepted
