\* An indirect call of two known functions, one of which never returns.
SPECIFICATION AllSpec
CONSTANTS
  r = r a = a b = b f = f g = g h = h k = k x = x
  Units <- AllUnits
  Outside = Outside External = External Scalar = Scalar Other = Other
  Roots <- OneRoot
  Programs <- NoReturnPrograms
  InitialCell <- CellG
  BoundaryExits <- OneExit
  AlternativeLimit = 2
  CallStringLimit = 1
  MaximumWorklistSteps = 60
  MaxStack = 4
  MaxEntries = 2
  EnterAfterStore = FALSE
  FaultInCallee = FALSE
INVARIANTS
  MayReach
CHECK_DEADLOCK FALSE
