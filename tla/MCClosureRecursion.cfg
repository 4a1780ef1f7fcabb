\* A nonlocal transfer out of a recursion that has stored in a cell whose image word is a conflict.
SPECIFICATION AllSpec
CONSTANTS
  r = r a = a b = b f = f g = g h = h k = k x = x
  Units <- AllUnits
  Outside = Outside External = External Scalar = Scalar Other = Other
  Roots <- OneRoot
  Programs <- RecursionPrograms
  InitialCell <- CellConflict
  BoundaryExits = {}
  AlternativeLimit = 2
  CallStringLimit = 1
  MaximumWorklistSteps = 60
  MaxStack = 5
  MaxEntries = 2
  EnterAfterStore = FALSE
  FaultInCallee = FALSE
INVARIANTS
  MayReach
CHECK_DEADLOCK FALSE
