SPECIFICATION Spec
CONSTANTS
  RequestorId = {1, 2}
  InstanceId = {1}
  RanFunctionId = {200, 300}
  ActionId = {1, 2}
  Request <- MCRequest
  MaxReports = 3
INVARIANTS
  TypeOK
  ResponseBeforeIndication
  OneResponsePerRequest
  IndicationUsesAcceptedAction
PROPERTIES
  DropsOnlyMidRegistration
  SubscriptionServed
CHECK_DEADLOCK FALSE
