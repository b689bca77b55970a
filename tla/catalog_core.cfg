CONSTANTS
  u1 = u1  NoUser = NoUser  None = None  Garbage = Garbage  Crashed = Crashed
  Users = {u1}
  AppNames <- SafeNames
  SearchOutputs <- MCSearchOutputs
  InspectOutputs <- MCInspectOutputs
SPECIFICATION Spec
INVARIANTS
  TypeOK
  ListItemsMatchRows
CHECK_DEADLOCK FALSE
