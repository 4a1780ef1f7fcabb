\* The closure of every image of the families, a replay of it, and every execution under it.
SPECIFICATION AllSpec
CONSTANTS
  r = r a = a b = b f = f g = g h = h k = k x = x
  Units <- AllUnits
  Outside = Outside External = External Scalar = Scalar Other = Other
  Roots <- RootsRK
  Programs <- AllPrograms
  InitialCell <- CellG
  BoundaryExits <- OneExit
  AlternativeLimit = 2
  CallStringLimit = 1
  MaximumWorklistSteps = 60
  MaxStack = 4
  MaxEntries = 2
  EnterAfterStore = FALSE
  FaultInCallee = FALSE
INVARIANTS
  TypeOK
  Simulated
  MayReach
  TargetsResolved
  Settled
  Replays
  Converges
PROPERTIES
  AuthorityHolds
CHECK_DEADLOCK FALSE
