CONSTANTS
  u1 = u1  NoUser = NoUser  None = None  Garbage = Garbage  Crashed = Crashed
  Users = {u1}
  AppNames <- UnsafeNames
  SearchOutputs <- MCSearchOutputs
  InspectOutputs <- MCInspectOutputs
SPECIFICATION Spec
INVARIANT FetchCommandShellSafe
CHECK_DEADLOCK FALSE
