\* One thread: reentry, exceptions and unwinds over both kinds of capability.
SPECIFICATION Spec
CONSTANTS
  Threads = {t1}
  NoThread = NoThread
  NoBridge = NoBridge
  NoTarget = NoTarget
  t1 = t1
  t2 = t2
  export = export
  callback = callback
  dllmain = dllmain
  tls = tls
  shared_target = shared_target
  SlotCount = 2
  CapabilityCount = 2
  Lifetime <- CallAndOneShot
  EndEvent <- NoEvents
  Target <- NoTargets
  Bridges = {export, callback}
  BridgeCapabilities <- CallbackByBoth
  Permanent = {export}
  ProcessRoots = {}
  LifecycleMode <- AllOrdinary
  Recovering = {export}
  SehGateway = TRUE
  Registrations <- LendFirst
  Results <- LendSecond
  Replacements <- NoPairs
  MaxIngressDepth = 3
  CapabilityModulus = 100
  IngressModulus = 8
  HostQuiescesDetach = TRUE
  MaxCapabilityGeneration = 4
  MaxIngressGeneration = 5
  MaxImageGeneration = 1
INVARIANTS
  TypeOK
  LentUntilReturn
  FramesOrdered
  StackBoundsFollowFrames
  DuringCallAdmissionNested
PROPERTIES
  LeavingSparesOthers
  NeverEvicts
