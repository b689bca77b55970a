CONSTANTS
  u1 = u1  NoUser = NoUser  None = None  Garbage = Garbage  Crashed = Crashed
  Users = {u1}
  AppNames <- SafeNames
  SearchOutputs <- MCSearchOutputs
  InspectOutputs <- MCInspectOutputs
SPECIFICATION Spec
INVARIANT GatewayFailureIsAnError
CHECK_DEADLOCK FALSE
