\* Two roots share a writable global; the host enters the second after the first has stored.
SPECIFICATION AllSpec
CONSTANTS
  r = r a = a b = b f = f g = g h = h k = k x = x
  Units <- AllUnits
  Outside = Outside External = External Scalar = Scalar Other = Other
  Roots <- RootsRA
  Programs <- SharedCellPrograms
  InitialCell <- CellG
  BoundaryExits <- OneExit
  AlternativeLimit = 2
  CallStringLimit = 1
  MaximumWorklistSteps = 60
  MaxStack = 4
  MaxEntries = 2
  EnterAfterStore = TRUE
  FaultInCallee = FALSE
INVARIANTS
  MayReach
CHECK_DEADLOCK FALSE
