\* Two threads publish, admit, replace, expire and leave over a shared registry.
SPECIFICATION FairSpec
CONSTANTS
  Threads = {t1, t2}
  NoThread = NoThread
  NoBridge = NoBridge
  NoTarget = NoTarget
  t1 = t1
  t2 = t2
  export = export
  callback = callback
  dllmain = dllmain
  tls = tls
  shared_target = shared_target
  SlotCount = 2
  CapabilityCount = 4
  Lifetime <- EveryLifetime
  EndEvent <- ClosedEndsSecond
  Target <- CompactTargets
  Bridges = {export, callback}
  BridgeCapabilities <- CallbackByAll
  Permanent = {export}
  ProcessRoots = {}
  LifecycleMode <- AllOrdinary
  Recovering = {}
  SehGateway = FALSE
  Registrations <- LendAll
  Results <- LendOneShot
  Replacements <- ReplaceSecond
  MaxIngressDepth = 2
  CapabilityModulus = 100
  IngressModulus = 100
  HostQuiescesDetach = TRUE
  MaxCapabilityGeneration = 3
  MaxIngressGeneration = 2
  MaxImageGeneration = 1
INVARIANTS
  ProvisionalHasLiveOwner
  DuringCallHasLiveOwner
  OneShotAdmitsOnce
  UniqueGenerations
  CompactTargetExclusive
PROPERTIES
  OperationsKeepReturning
