CONSTANTS
  u1 = u1  NoUser = NoUser  None = None  Garbage = Garbage  Crashed = Crashed
  Users = {u1}
  AppNames <- SafeNames
  SearchOutputs <- MCSearchOutputs
  InspectOutputs <- MCInspectOutputs
SPECIFICATION Spec
INVARIANT ListIsOpen
CHECK_DEADLOCK FALSE
