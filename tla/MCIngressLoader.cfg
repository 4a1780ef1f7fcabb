\* The loader attaches and detaches DllMain and TLS callbacks around two threads.
SPECIFICATION Spec
CONSTANTS
  Threads = {t1, t2}
  NoThread = NoThread
  NoBridge = NoBridge
  NoTarget = NoTarget
  t1 = t1
  t2 = t2
  export = export
  callback = callback
  dllmain = dllmain
  tls = tls
  shared_target = shared_target
  SlotCount = 1
  CapabilityCount = 1
  Lifetime <- OneShotOnly
  EndEvent <- NoEvents
  Target <- NoTargets
  Bridges = {export, callback, dllmain, tls}
  BridgeCapabilities <- LoaderCapabilities
  Permanent = {export, dllmain, tls}
  ProcessRoots = {}
  LifecycleMode <- LoaderModes
  Recovering = {}
  SehGateway = FALSE
  Registrations <- LendFirst
  Results <- NoneLent
  Replacements <- NoPairs
  MaxIngressDepth = 2
  CapabilityModulus = 100
  IngressModulus = 100
  HostQuiescesDetach = TRUE
  MaxCapabilityGeneration = 2
  MaxIngressGeneration = 3
  MaxImageGeneration = 2
INVARIANTS
  DetachLeavesNothing
SYMMETRY ThreadSymmetry
