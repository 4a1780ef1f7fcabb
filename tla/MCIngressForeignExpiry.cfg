\* Two threads whose ingress generations coincide.
SPECIFICATION Spec
CONSTANTS
  Threads = {t1, t2}
  NoThread = NoThread
  NoBridge = NoBridge
  NoTarget = NoTarget
  t1 = t1
  t2 = t2
  export = export
  callback = callback
  dllmain = dllmain
  tls = tls
  shared_target = shared_target
  SlotCount = 1
  CapabilityCount = 1
  Lifetime <- CallOnly
  EndEvent <- NoEvents
  Target <- NoTargets
  Bridges = {export, callback}
  BridgeCapabilities <- CallbackByFirst
  Permanent = {export}
  ProcessRoots = {}
  LifecycleMode <- AllOrdinary
  Recovering = {}
  SehGateway = FALSE
  Registrations <- LendFirst
  Results <- NoneLent
  Replacements <- NoPairs
  MaxIngressDepth = 2
  CapabilityModulus = 100
  IngressModulus = 100
  HostQuiescesDetach = TRUE
  MaxCapabilityGeneration = 2
  MaxIngressGeneration = 3
  MaxImageGeneration = 1
INVARIANTS
  LentUntilReturn
SYMMETRY ThreadSymmetry
