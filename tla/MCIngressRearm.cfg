\* One thread: a one-shot callback that registers itself again while it is being registered.
SPECIFICATION Spec
CONSTANTS
  Threads = {t1}
  NoThread = NoThread
  NoBridge = NoBridge
  NoTarget = NoTarget
  t1 = t1
  t2 = t2
  export = export
  callback = callback
  dllmain = dllmain
  tls = tls
  shared_target = shared_target
  SlotCount = 2
  CapabilityCount = 1
  Lifetime <- OneShotOnly
  EndEvent <- NoEvents
  Target <- NoTargets
  Bridges = {export, callback}
  BridgeCapabilities <- CallbackByFirst
  Permanent = {export}
  ProcessRoots = {}
  LifecycleMode <- AllOrdinary
  Recovering = {}
  SehGateway = FALSE
  Registrations <- LendFirst
  Results <- NoneLent
  Replacements <- NoPairs
  MaxIngressDepth = 2
  CapabilityModulus = 100
  IngressModulus = 100
  HostQuiescesDetach = TRUE
  MaxCapabilityGeneration = 3
  MaxIngressGeneration = 4
  MaxImageGeneration = 1
INVARIANTS
  EscapedStaysCommittable
