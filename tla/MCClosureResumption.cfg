\* A function that was called faults, is handled and resumed, and returns to its caller.
SPECIFICATION AllSpec
CONSTANTS
  r = r a = a b = b f = f g = g h = h k = k x = x
  Units <- AllUnits
  Outside = Outside External = External Scalar = Scalar Other = Other
  Roots <- OneRoot
  Programs <- ResumptionPrograms
  InitialCell <- CellG
  BoundaryExits <- OneExit
  AlternativeLimit = 2
  CallStringLimit = 1
  MaximumWorklistSteps = 60
  MaxStack = 4
  MaxEntries = 2
  EnterAfterStore = FALSE
  FaultInCallee = TRUE
INVARIANTS
  MayReach
CHECK_DEADLOCK FALSE
